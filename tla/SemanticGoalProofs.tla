-------------------------- MODULE SemanticGoalProofs --------------------------
(***************************************************************************)
(* Proofs about SemanticGoal, for any number of runs and photos and any    *)
(* sizes and times of their versions.                                      *)
(***************************************************************************)
EXTENDS SemanticGoal, TLAPS

Labels == {"idle", "stat", "create", "write", "stamp", "temp", "rename", "manifest"}
Times == {Time[v] : v \in Versions}

\* The runs, of TypeOK.
RunsTyped ==
  /\ pc \in [Process -> Labels]
  /\ options \in [Process -> Flags \cup {NoFlags}]
  /\ seen \in [Process -> [Photos -> Versions \cup {NotSeen}]]
  /\ at \in [Process -> Photos]
  /\ examined \in [Process -> Copies]
  /\ pending \in [Process -> Versions \cup {Part}]
  /\ status \in [Process -> [Photos -> Statuses]]
  /\ \A p \in Process : pc[p] \in {"create", "write", "stamp", "temp", "rename"} => options[p].apply

\* The trees, of TypeOK.
TreesTyped ==
  /\ source \in [Photos -> Versions]
  /\ copies \in [Photos -> Copies]
  /\ \A f \in Photos : copies[f].by = Nobody => copies[f] = NoCopy
  /\ crossed \in BOOLEAN
  /\ failures \in 0..MaxFailures

\* What a run knows of the photo it is at.
RunInv(p) ==
  /\ \A f \in Photos : seen[p][f] <= source[f]
  /\ pc[p] \in {"create", "write", "stamp", "temp", "rename"} => Wanted(p) # NotSeen
  /\ pc[p] \in {"temp", "rename"} => options[p].overwrite
  /\ pc[p] = "rename" => pending[p] \in Versions /\ Wanted(p) <= pending[p] /\ pending[p] <= source[at[p]]
  /\ pc[p] = "write" /\ Found(p).by = p => Found(p).content = Part /\ (crossed \/ Found(p).time = Now)
  /\ pc[p] = "stamp" /\ Found(p).by = p => Found(p).content \in Versions /\ Wanted(p) <= Found(p).content

\* A copy is of a version that was in the source, and its time is that of a version
\* no later than its content.
CopyInv(f) ==
  /\ copies[f].content <= source[f]
  /\ ~crossed /\ copies[f].content # Part /\ copies[f].time # Now =>
       \E w \in Versions : w <= copies[f].content /\ copies[f].time = Time[w]

IInv == RunsTyped /\ TreesTyped /\ (\A p \in Process : RunInv(p)) /\ (\A f \in Photos : CopyInv(f))

-----------------------------------------------------------------------------
(* Copies and flags.                                                        *)

LEMMA ConstantFacts ==
  /\ NumPhotos \in Nat /\ NumPhotos > 0 /\ 1 \in Photos /\ Photos \subseteq Nat
  /\ Versions \subseteq Nat /\ Part \notin Versions /\ NotSeen \notin Versions /\ 1 \in Versions
  /\ Time \in [Versions -> Nat \ {0}] /\ Size \in [Versions -> Nat \ {0}] /\ Now \notin Times
  /\ \A v, w \in Versions : v <= w => Time[v] <= Time[w]
  /\ Nobody \notin Process /\ Part = 0 /\ NotSeen = 0 /\ \A v \in Versions \cup {0} : 0 <= v /\ v <= v /\ v \in Nat
BY GoalAssumption DEF GoalAssumption, Photos, Versions, Part, NotSeen, Now, Times, Nobody

LEMMA CopyFacts ==
  /\ NoCopy \in Copies /\ NoCopy.content = Part /\ NoCopy.time = Now /\ NoCopy.by = Nobody
  /\ \A c \in Copies : c.content \in Versions \cup {Part} /\ c.time \in Times \cup {Now} /\ c.by \in Process \cup {Nobody}
  /\ \A content \in Versions \cup {Part}, time \in Times \cup {Now}, by \in Process \cup {Nobody} :
       LET c == Copy(content, time, by)
       IN  c \in Copies /\ c.content = content /\ c.time = time /\ c.by = by
  /\ \A c \in Copies, content \in Versions \cup {Part} :
       LET d == [c EXCEPT !.content = content]
       IN  d \in Copies /\ d.content = content /\ d.time = c.time /\ d.by = c.by
  /\ \A c \in Copies, time \in Times \cup {Now} :
       LET d == [c EXCEPT !.time = time]
       IN  d \in Copies /\ d.content = c.content /\ d.time = time /\ d.by = c.by
BY DEF NoCopy, Copy, Copies, Times

\* The next photo, or the end: what Settle does to the runs.
LEMMA ReturnFacts ==
  ASSUME RunsTyped, NEW p \in Process, Return(p)
  PROVE  /\ RunsTyped' /\ pc'[p] = "idle" /\ seen'[p] = NothingSeen
         /\ \A q \in Process \ {p} : /\ pc'[q] = pc[q] /\ options'[q] = options[q] /\ seen'[q] = seen[q]
                                     /\ at'[q] = at[q] /\ pending'[q] = pending[q]
<1>1. NoFlags \in Flags \cup {NoFlags} /\ NothingSeen \in [Photos -> Versions \cup {NotSeen}]
      /\ Unreported \in [Photos -> Statuses] /\ 1 \in Photos /\ NoCopy \in Copies
  BY ConstantFacts, CopyFacts DEF NothingSeen, Unreported, Statuses
<1>2. QED BY <1>1 DEF RunsTyped, Return, GoTo, Labels

LEMMA SettleFacts ==
  ASSUME RunsTyped, NEW p \in Process, NEW how \in Statuses, Settle(p, how)
  PROVE  /\ RunsTyped' /\ pc'[p] \in {"idle", "stat", "manifest"} /\ seen'[p] \in {seen[p], NothingSeen}
         /\ \A q \in Process \ {p} : /\ pc'[q] = pc[q] /\ options'[q] = options[q] /\ seen'[q] = seen[q]
                                     /\ at'[q] = at[q] /\ pending'[q] = pending[q]
<1>1. CASE Return(p)
  BY <1>1, ReturnFacts
<1>2. CASE /\ status' = [status EXCEPT ![p][at[p]] = how]
           /\ pending' = [pending EXCEPT ![p] = Part]
           /\ examined' = [examined EXCEPT ![p] = NoCopy]
           /\ IF at[p] < NumPhotos
              THEN at' = [at EXCEPT ![p] = @ + 1] /\ GoTo(p, "stat")
              ELSE at' = at /\ GoTo(p, "manifest")
           /\ UNCHANGED <<options, seen>>
  <2>1. status' \in [Process -> [Photos -> Statuses]]
    BY <1>2 DEF RunsTyped
  <2>2. /\ at' \in [Process -> Photos] /\ \A q \in Process \ {p} : at'[q] = at[q]
        /\ \E label \in {"stat", "manifest"} : pc' = [pc EXCEPT ![p] = label]
    <3>1. at[p] \in Photos /\ (at[p] < NumPhotos => at[p] + 1 \in Photos)
      BY ConstantFacts DEF RunsTyped, Photos
    <3>2. QED BY <1>2, <3>1 DEF RunsTyped, GoTo
  <2>3. pending' \in [Process -> Versions \cup {Part}] /\ examined' \in [Process -> Copies]
    BY <1>2, CopyFacts DEF RunsTyped
  <2>4. QED BY <1>2, <2>1, <2>2, <2>3 DEF RunsTyped, Labels
<1>3. QED BY <1>1, <1>2 DEF Settle

-----------------------------------------------------------------------------
(* The runs that do not move.                                               *)

Still(q) ==
  /\ pc'[q] = pc[q] /\ options'[q] = options[q] /\ seen'[q] = seen[q] /\ at'[q] = at[q] /\ pending'[q] = pending[q]

\* A step of p does not write to what another run has created.
Spares(p) ==
  /\ UNCHANGED source
  /\ crossed => crossed'
  /\ \A q \in Process \ {p} : Still(q)
  /\ \A f \in Photos, q \in Process \ {p} :
       copies'[f].by = q =>
         copies[f].by = q /\ copies'[f].content = copies[f].content /\ (crossed' \/ copies'[f].time = copies[f].time)

LEMMA OthersKeep ==
  ASSUME IInv, NEW p \in Process, Spares(p)
  PROVE  \A q \in Process \ {p} : RunInv(q)'
<1>1. SUFFICES ASSUME NEW q \in Process \ {p} PROVE RunInv(q)'
  OBVIOUS
<1>2. RunInv(q) /\ at[q] \in Photos /\ Still(q) /\ UNCHANGED source
  BY DEF IInv, RunsTyped, Spares
<1>3. copies'[at[q]].by = q =>
        /\ copies[at[q]].by = q /\ copies'[at[q]].content = copies[at[q]].content
        /\ (crossed' \/ copies'[at[q]].time = copies[at[q]].time)
  BY <1>2 DEF Spares
<1>4. crossed => crossed'
  BY DEF Spares
<1>5. QED BY <1>2, <1>3, <1>4 DEF RunInv, Still, Wanted, Found

\* The end of a photo, with whatever it did to the trees.
LEMMA SettleKeeps ==
  ASSUME IInv, NEW p \in Process, NEW how \in Statuses, Settle(p, how) \/ Return(p),
         TreesTyped', \A f \in Photos : CopyInv(f)', UNCHANGED source, crossed => crossed',
         \A f \in Photos, q \in Process \ {p} :
           copies'[f].by = q =>
             copies[f].by = q /\ copies'[f].content = copies[f].content /\ (crossed' \/ copies'[f].time = copies[f].time)
  PROVE  IInv'
<1>1. /\ RunsTyped' /\ pc'[p] \in {"idle", "stat", "manifest"} /\ seen'[p] \in {seen[p], NothingSeen}
      /\ \A q \in Process \ {p} : Still(q)
  BY SettleFacts, ReturnFacts DEF IInv, Still
<1>2. \A q \in Process \ {p} : RunInv(q)'
  BY <1>1, OthersKeep DEF Spares
<1>3. RunInv(p)'
  <2>1. \A f \in Photos : source[f] \in Nat /\ seen[p][f] <= source[f]
    BY ConstantFacts DEF IInv, RunInv, TreesTyped
  <2>2. \A f \in Photos : seen'[p][f] <= source'[f]
    BY <1>1, <2>1 DEF NothingSeen, NotSeen
  <2>3. QED BY <1>1, <2>2 DEF RunInv
<1>4. QED BY <1>1, <1>2, <1>3 DEF IInv

LEMMA Unpacked ==
  ASSUME IInv, NEW p \in Process
  PROVE  /\ at[p] \in Photos /\ RunInv(p) /\ CopyInv(at[p]) /\ Found(p) \in Copies
         /\ Wanted(p) \in Versions \cup {NotSeen} /\ source[at[p]] \in Versions /\ pending[p] \in Versions \cup {Part}
         /\ \A f \in Photos : copies[f] \in Copies /\ source[f] \in Versions /\ CopyInv(f)
         /\ crossed \in BOOLEAN
BY DEF IInv, RunsTyped, TreesTyped, Found, Wanted

\* One destination changes: what is left to see to.
LEMMA OneCopy ==
  ASSUME IInv, NEW p \in Process, NEW c \in Copies, copies' = [copies EXCEPT ![at[p]] = c],
         UNCHANGED <<source, failures>> \/ (UNCHANGED source /\ failures' \in 0..MaxFailures),
         crossed' \in BOOLEAN, crossed => crossed',
         c.by = Nobody => c = NoCopy,
         c.content <= source[at[p]],
         ~crossed' /\ c.content # Part /\ c.time # Now => \E w \in Versions : w <= c.content /\ c.time = Time[w],
         c.by \in {p, Nobody} \/ (c.by = Found(p).by /\ c.content = Found(p).content /\ (crossed' \/ c.time = Found(p).time))
  PROVE  /\ TreesTyped' /\ \A f \in Photos : CopyInv(f)'
         /\ copies'[at[p]] = c
         /\ \A f \in Photos, q \in Process \ {p} :
              copies'[f].by = q =>
                copies[f].by = q /\ copies'[f].content = copies[f].content /\ (crossed' \/ copies'[f].time = copies[f].time)
<1>1. /\ at[p] \in Photos /\ TreesTyped /\ \A f \in Photos : CopyInv(f)
  BY Unpacked DEF IInv
<1>2. \A f \in Photos : copies'[f] = IF f = at[p] THEN c ELSE copies[f]
  BY <1>1 DEF TreesTyped
<1>3. TreesTyped'
  BY <1>1, <1>2 DEF TreesTyped
<1>4. \A f \in Photos : CopyInv(f)'
  BY <1>1, <1>2 DEF CopyInv
<1>5. QED BY <1>1, <1>2, <1>3, <1>4, ConstantFacts DEF Found

-----------------------------------------------------------------------------
(* The actions.                                                             *)

LEMMA StartKeeps ==
  ASSUME IInv, NEW p \in Process, NEW flags \in Flags, Start(p, flags)
  PROVE  IInv'
<1> DEFINE scan == [f \in Photos |-> Scan(f, flags.window)]
<1>1. /\ pc' = [pc EXCEPT ![p] = "stat"] /\ options' = [options EXCEPT ![p] = flags] /\ seen' = [seen EXCEPT ![p] = scan]
      /\ UNCHANGED <<source, copies, at, status, examined, pending, crossed, failures>>
  BY DEF Start, GoTo
<1>2. scan \in [Photos -> Versions \cup {NotSeen}] /\ \A f \in Photos : scan[f] <= source[f]
  BY ConstantFacts DEF Scan, IInv, TreesTyped
<1> HIDE DEF scan
<1>3. RunsTyped' /\ TreesTyped' /\ \A f \in Photos : CopyInv(f)'
  BY <1>1, <1>2 DEF IInv, RunsTyped, TreesTyped, CopyInv, Labels
<1>4. \A q \in Process \ {p} : RunInv(q)'
  BY <1>1, OthersKeep DEF Spares, Still, IInv, RunsTyped
<1>5. RunInv(p)'
  BY <1>1, <1>2 DEF RunInv, IInv, RunsTyped
<1>6. QED BY <1>3, <1>4, <1>5 DEF IInv

LEMMA StatKeeps ==
  ASSUME IInv, NEW p \in Process, Stat(p)
  PROVE  IInv'
<1>1. UNCHANGED <<source, copies, crossed, failures>>
  BY DEF Stat
<1>2. TreesTyped' /\ \A f \in Photos : CopyInv(f)'
  BY <1>1 DEF IInv, TreesTyped, CopyInv
<1>3. CASE \E how \in {"none", "skipped", "conflict", "planned"} : Settle(p, how)
  BY <1>1, <1>2, <1>3, SettleKeeps DEF Statuses
<1>4. CASE /\ Wanted(p) # NotSeen /\ options[p].apply
           /\ GoTo(p, IF options[p].overwrite THEN "temp" ELSE "create")
           /\ examined' = [examined EXCEPT ![p] = Found(p)]
           /\ UNCHANGED <<options, seen, at, pending, status>>
  <2>1. RunsTyped'
    BY <1>4, Unpacked DEF IInv, RunsTyped, GoTo, Labels
  <2>2. \A q \in Process \ {p} : RunInv(q)'
    BY <1>1, <1>4, OthersKeep DEF Spares, Still, GoTo, IInv, RunsTyped
  <2>3. RunInv(p)'
    BY <1>1, <1>4 DEF RunInv, GoTo, Wanted, IInv, RunsTyped
  <2>4. QED BY <1>2, <2>1, <2>2, <2>3 DEF IInv
<1>5. QED BY <1>3, <1>4 DEF Stat

LEMMA CreateKeeps ==
  ASSUME IInv, NEW p \in Process, Create(p)
  PROVE  IInv'
<1>1. pc[p] = "create" /\ UNCHANGED <<source, crossed, failures>>
  BY DEF Create
<1>2. CASE Settle(p, "failed") /\ UNCHANGED copies
  <2>1. TreesTyped' /\ \A f \in Photos : CopyInv(f)'
    BY <1>1, <1>2 DEF IInv, TreesTyped, CopyInv
  <2>2. QED BY <1>1, <1>2, <2>1, SettleKeeps DEF Statuses
<1>3. CASE /\ Found(p) = NoCopy
           /\ copies' = [copies EXCEPT ![at[p]] = Copy(Part, Now, p)]
           /\ GoTo(p, "write")
           /\ UNCHANGED <<options, seen, at, examined, pending, status>>
  <2> DEFINE c == Copy(Part, Now, p)
  <2>1. c \in Copies /\ c.content = Part /\ c.time = Now /\ c.by = p
    <3>1. Part \in Versions \cup {Part} /\ Now \in Times \cup {Now} /\ p \in Process \cup {Nobody}
      OBVIOUS
    <3>2. QED BY <3>1 DEF Copy, Copies, Times
  <2>2. c.content <= source[at[p]] /\ c.by # Nobody
    BY <2>1, Unpacked, ConstantFacts
  <2> HIDE DEF c
  <2>3. copies' = [copies EXCEPT ![at[p]] = c]
    BY <1>3 DEF c
  <2>4. /\ TreesTyped' /\ (\A f \in Photos : CopyInv(f)') /\ copies'[at[p]] = c
        /\ \A f \in Photos, q \in Process \ {p} :
             copies'[f].by = q =>
               copies[f].by = q /\ copies'[f].content = copies[f].content /\ (crossed' \/ copies'[f].time = copies[f].time)
    BY <1>1, <2>1, <2>2, <2>3, OneCopy, Unpacked
  <2>5. RunsTyped'
    BY <1>1, <1>3 DEF IInv, RunsTyped, GoTo, Labels
  <2>6. \A q \in Process \ {p} : RunInv(q)'
    BY <1>1, <1>3, <2>4, OthersKeep DEF Spares, Still, GoTo, IInv, RunsTyped
  <2>7. RunInv(p)'
    BY <1>1, <1>3, <2>1, <2>4 DEF RunInv, GoTo, Wanted, Found, IInv, RunsTyped
  <2>8. QED BY <2>4, <2>5, <2>6, <2>7 DEF IInv
<1>4. QED BY <1>2, <1>3 DEF Create

\* What a write leaves, finished or not: the photo of the moment in the file that was opened.
LEMMA WrittenFacts ==
  ASSUME IInv, NEW p \in Process, pc[p] = "write", crossed' = crossed,
         UNCHANGED source, failures' \in 0..MaxFailures,
         copies' = IF Found(p).by = p THEN [copies EXCEPT ![at[p]].content = source[at[p]]] ELSE copies
  PROVE  /\ TreesTyped' /\ \A f \in Photos : CopyInv(f)'
         /\ copies'[at[p]].by = p => copies'[at[p]].content = source[at[p]]
         /\ \A f \in Photos, q \in Process \ {p} :
              copies'[f].by = q =>
                copies[f].by = q /\ copies'[f].content = copies[f].content /\ (crossed' \/ copies'[f].time = copies[f].time)
<1>1. CASE Found(p).by # p
  BY <1>1 DEF IInv, TreesTyped, CopyInv, Found
<1>2. CASE Found(p).by = p
  <2> DEFINE c == [Found(p) EXCEPT !.content = source[at[p]]]
  <2>1. c \in Copies /\ c.content = source[at[p]] /\ c.time = Found(p).time /\ c.by = p
    BY <1>2, Unpacked, CopyFacts
  <2>2. copies' = [copies EXCEPT ![at[p]] = c]
    BY <1>2 DEF Found
  <2>3. crossed \/ c.time = Now
    BY <1>2, <2>1, Unpacked DEF RunInv
  <2>4. c.content <= source[at[p]] /\ c.by # Nobody
    BY <2>1, Unpacked, ConstantFacts
  <2> HIDE DEF c
  <2>5. QED BY <2>1, <2>2, <2>3, <2>4, OneCopy, Unpacked
<1>3. QED BY <1>1, <1>2

LEMMA WriteKeeps ==
  ASSUME IInv, NEW p \in Process, Write(p)
  PROVE  IInv'
<1>1. /\ pc[p] = "write" /\ pc' = [pc EXCEPT ![p] = "stamp"]
      /\ copies' = IF Found(p).by = p THEN [copies EXCEPT ![at[p]].content = source[at[p]]] ELSE copies
      /\ UNCHANGED <<source, options, seen, at, examined, pending, status, crossed, failures>>
  BY DEF Write, GoTo
<1>2. failures' \in 0..MaxFailures
  BY <1>1 DEF IInv, TreesTyped
<1>3. /\ TreesTyped' /\ \A f \in Photos : CopyInv(f)'
      /\ copies'[at[p]].by = p => copies'[at[p]].content = source[at[p]]
      /\ \A f \in Photos, q \in Process \ {p} :
           copies'[f].by = q =>
             copies[f].by = q /\ copies'[f].content = copies[f].content /\ (crossed' \/ copies'[f].time = copies[f].time)
  BY <1>1, <1>2, WrittenFacts
<1>4. RunsTyped'
  BY <1>1 DEF IInv, RunsTyped, Labels
<1>5. \A q \in Process \ {p} : RunInv(q)'
  BY <1>1, <1>3, OthersKeep DEF Spares, Still, IInv, RunsTyped
<1>6. RunInv(p)'
  <2>1. source[at[p]] \in Versions /\ Wanted(p) <= source[at[p]] /\ RunInv(p)
    BY Unpacked DEF RunInv, Wanted
  <2>2. QED BY <1>1, <1>3, <2>1 DEF RunInv, Wanted, Found, IInv, RunsTyped
<1>7. QED BY <1>3, <1>4, <1>5, <1>6 DEF IInv

LEMMA StampKeeps ==
  ASSUME IInv, NEW p \in Process, Stamp(p)
  PROVE  IInv'
<1>1. pc[p] = "stamp" /\ UNCHANGED <<source, failures>>
  BY DEF Stamp
<1>2. CASE Settle(p, "failed") /\ UNCHANGED <<copies, crossed>>
  <2>1. TreesTyped' /\ \A f \in Photos : CopyInv(f)'
    BY <1>1, <1>2 DEF IInv, TreesTyped, CopyInv
  <2>2. QED BY <1>1, <1>2, <2>1, SettleKeeps DEF Statuses
<1>3. CASE /\ Found(p) # NoCopy
           /\ copies' = [copies EXCEPT ![at[p]].time = Time[Wanted(p)]]
           /\ crossed' = (crossed \/ Found(p).by # p)
           /\ Settle(p, "copied")
  <2> DEFINE c == [Found(p) EXCEPT !.time = Time[Wanted(p)]]
  <2>1. Wanted(p) \in Versions /\ Time[Wanted(p)] \in Times
    BY <1>1, Unpacked DEF RunInv, Times
  <2>2. c \in Copies /\ c.content = Found(p).content /\ c.time = Time[Wanted(p)] /\ c.by = Found(p).by
    BY <2>1, Unpacked, CopyFacts
  <2>3. copies' = [copies EXCEPT ![at[p]] = c]
    BY <1>3 DEF Found
  <2> HIDE DEF c
  <2>4. c.by # Nobody
    BY <1>3, <2>2, Unpacked DEF IInv, TreesTyped, Found
  <2>5. c.content <= source[at[p]]
    BY <2>2, Unpacked DEF CopyInv, Found
  <2>6. ~crossed' => Found(p).by = p /\ Wanted(p) <= c.content
    BY <1>1, <1>3, <2>2, Unpacked DEF RunInv
  <2>7. crossed' \in BOOLEAN /\ (crossed => crossed')
    BY <1>3, Unpacked
  <2>8. c.by \in {p, Nobody} \/ (c.by = Found(p).by /\ c.content = Found(p).content /\ (crossed' \/ c.time = Found(p).time))
    BY <2>2, <2>6
  <2>9. ~crossed' => \E w \in Versions : w <= c.content /\ c.time = Time[w]
    BY <2>1, <2>2, <2>6
  <2>10. /\ TreesTyped' /\ \A f \in Photos : CopyInv(f)'
         /\ \A f \in Photos, q \in Process \ {p} :
              copies'[f].by = q =>
                copies[f].by = q /\ copies'[f].content = copies[f].content /\ (crossed' \/ copies'[f].time = copies[f].time)
    BY <1>1, <2>2, <2>3, <2>4, <2>5, <2>7, <2>8, <2>9, OneCopy
  <2>11. QED BY <1>1, <1>3, <2>7, <2>10, SettleKeeps DEF Statuses
<1>4. QED BY <1>2, <1>3 DEF Stamp

LEMMA FillTempKeeps ==
  ASSUME IInv, NEW p \in Process, FillTemp(p)
  PROVE  IInv'
<1>1. /\ pc[p] = "temp" /\ pc' = [pc EXCEPT ![p] = "rename"] /\ pending' = [pending EXCEPT ![p] = source[at[p]]]
      /\ UNCHANGED <<source, copies, options, seen, at, examined, status, crossed, failures>>
  BY DEF FillTemp, GoTo
<1>2. TreesTyped' /\ \A f \in Photos : CopyInv(f)'
  BY <1>1 DEF IInv, TreesTyped, CopyInv
<1>3. RunsTyped'
  BY <1>1, Unpacked DEF IInv, RunsTyped, Labels
<1>4. \A q \in Process \ {p} : RunInv(q)'
  BY <1>1, OthersKeep DEF Spares, Still, IInv, RunsTyped
<1>5. RunInv(p)'
  <2>1. source[at[p]] \in Versions /\ Wanted(p) <= source[at[p]] /\ RunInv(p) /\ source[at[p]] <= source[at[p]]
    BY Unpacked, ConstantFacts DEF RunInv, Wanted
  <2>2. QED BY <1>1, <2>1 DEF RunInv, Wanted, Found, IInv, RunsTyped
<1>6. QED BY <1>2, <1>3, <1>4, <1>5 DEF IInv

LEMMA ReplacedKeeps ==
  ASSUME IInv, NEW p \in Process, pc[p] = "rename", Replaced(p), NEW how \in Statuses, Settle(p, how),
         UNCHANGED source, failures' \in 0..MaxFailures
  PROVE  IInv'
<1> DEFINE c == Copy(pending[p], Time[Wanted(p)], p)
<1>1. /\ Wanted(p) \in Versions /\ Time[Wanted(p)] \in Times /\ pending[p] \in Versions
      /\ Wanted(p) <= pending[p] /\ pending[p] <= source[at[p]]
  BY Unpacked DEF RunInv, Times
<1>2. c \in Copies /\ c.content = pending[p] /\ c.time = Time[Wanted(p)] /\ c.by = p
  BY <1>1, CopyFacts
<1>3. copies' = [copies EXCEPT ![at[p]] = c] /\ crossed' \in BOOLEAN /\ (crossed => crossed')
  BY Unpacked DEF Replaced
<1> HIDE DEF c
<1>4. c.by # Nobody
  BY <1>2, ConstantFacts
<1>5. /\ TreesTyped' /\ \A f \in Photos : CopyInv(f)'
      /\ \A f \in Photos, q \in Process \ {p} :
           copies'[f].by = q =>
             copies[f].by = q /\ copies'[f].content = copies[f].content /\ (crossed' \/ copies'[f].time = copies[f].time)
  BY <1>1, <1>2, <1>3, <1>4, OneCopy
<1>6. QED BY <1>3, <1>5, SettleKeeps

LEMMA FailKeeps ==
  ASSUME IInv, NEW p \in Process, Fail(p)
  PROVE  IInv'
<1>1. Settle(p, "failed") /\ UNCHANGED source /\ failures' \in 0..MaxFailures /\ "failed" \in Statuses
  BY GoalAssumption DEF Fail, Fault, IInv, TreesTyped, Statuses, GoalAssumption
<1>2. CASE UNCHANGED <<copies, crossed>>
  <2>1. TreesTyped' /\ \A f \in Photos : CopyInv(f)'
    BY <1>1, <1>2 DEF IInv, TreesTyped, CopyInv
  <2>2. QED BY <1>1, <1>2, <2>1, SettleKeeps
<1>3. CASE pc[p] = "write" /\ copies' = [copies EXCEPT ![at[p]] = NoCopy] /\ crossed' = (crossed \/ Found(p).by # p)
  <2>1. 0 <= source[at[p]] /\ crossed' \in BOOLEAN /\ (crossed => crossed')
    BY <1>3, Unpacked, ConstantFacts
  <2>2. /\ TreesTyped' /\ \A f \in Photos : CopyInv(f)'
        /\ \A f \in Photos, q \in Process \ {p} :
             copies'[f].by = q =>
               copies[f].by = q /\ copies'[f].content = copies[f].content /\ (crossed' \/ copies'[f].time = copies[f].time)
    <3> DEFINE c == NoCopy
    <3>1. /\ c \in Copies /\ c.content = Part /\ c.time = Now /\ c.by = Nobody /\ c = NoCopy
          /\ c.content <= source[at[p]]
      BY <2>1, CopyFacts, ConstantFacts
    <3>2. copies' = [copies EXCEPT ![at[p]] = c]
      BY <1>3
    <3> HIDE DEF c
    <3>3. QED BY <1>1, <2>1, <3>1, <3>2, OneCopy
  <2>3. QED BY <1>1, <2>1, <2>2, SettleKeeps
<1>4. CASE /\ pc[p] = "write" /\ crossed' = crossed
           /\ copies' = IF Found(p).by = p THEN [copies EXCEPT ![at[p]].content = source[at[p]]] ELSE copies
  BY <1>1, <1>4, WrittenFacts, SettleKeeps
<1>5. CASE pc[p] = "rename" /\ Replaced(p)
  BY <1>1, <1>5, ReplacedKeeps
<1>6. QED BY <1>2, <1>3, <1>4, <1>5 DEF Fail

LEMMA LeaveKeeps ==
  ASSUME IInv, NEW p \in Process, WriteManifest(p) \/ Die(p)
  PROVE  IInv'
<1>1. Return(p) /\ UNCHANGED <<source, copies, crossed>> /\ failures' \in 0..MaxFailures
  BY GoalAssumption DEF WriteManifest, Die, Fault, IInv, TreesTyped, GoalAssumption
<1>2. TreesTyped' /\ \A f \in Photos : CopyInv(f)'
  BY <1>1 DEF IInv, TreesTyped, CopyInv
<1>3. QED BY <1>1, <1>2, SettleKeeps DEF Statuses

LEMMA EditKeeps ==
  ASSUME IInv, NEW f \in Photos, EditPhoto(f)
  PROVE  IInv'
<1>1. /\ UNCHANGED <<copies, crossed, failures, pc, options, seen, at, examined, pending, status>>
      /\ source' \in [Photos -> Versions]
      /\ \A g \in Photos : source[g] \in Nat /\ source'[g] \in Nat /\ source[g] <= source'[g]
  BY GoalAssumption DEF EditPhoto, runVars, IInv, TreesTyped, Versions, GoalAssumption
<1>2. RunsTyped' /\ TreesTyped'
  BY <1>1 DEF IInv, RunsTyped, TreesTyped
<1>3. \A g \in Photos : CopyInv(g)'
  <2>1. \A g \in Photos : copies[g].content \in Nat
    BY CopyFacts, ConstantFacts DEF IInv, TreesTyped, Part
  <2>2. QED BY <1>1, <2>1 DEF IInv, CopyInv
<1>4. ASSUME NEW p \in Process PROVE RunInv(p)'
  <2>1. RunInv(p) /\ at[p] \in Photos /\ pending[p] \in Nat /\ \A g \in Photos : seen[p][g] \in Nat
    <3>1. \A n \in Versions \cup {NotSeen} \cup {Part} : n \in Nat
      BY ConstantFacts
    <3>2. QED BY <3>1 DEF IInv, RunsTyped
  <2>2. QED BY <1>1, <2>1 DEF RunInv, Wanted, Found
<1>5. QED BY <1>2, <1>3, <1>4 DEF IInv

-----------------------------------------------------------------------------
(* The theorems.                                                            *)

LEMMA InitHolds == Init => IInv
<1> SUFFICES ASSUME Init PROVE IInv
  OBVIOUS
<1>1. /\ source = [f \in Photos |-> 1] /\ copies = [f \in Photos |-> NoCopy] /\ pc = [p \in Process |-> "idle"]
      /\ options = [p \in Process |-> NoFlags] /\ seen = [p \in Process |-> NothingSeen]
      /\ at = [p \in Process |-> 1] /\ examined = [p \in Process |-> NoCopy] /\ pending = [p \in Process |-> Part]
      /\ status = [p \in Process |-> Unreported] /\ crossed = FALSE /\ failures = 0
  BY DEF Init
<1>2. RunsTyped
  <2>1. NothingSeen \in [Photos -> Versions \cup {NotSeen}] /\ Unreported \in [Photos -> Statuses]
    BY DEF NothingSeen, Unreported, Statuses
  <2>2. QED BY <1>1, <2>1, ConstantFacts, CopyFacts DEF RunsTyped, Labels
<1>3. TreesTyped
  <2>1. 0 \in 0..MaxFailures
    BY GoalAssumption DEF GoalAssumption
  <2>2. QED BY <1>1, <2>1, ConstantFacts, CopyFacts DEF TreesTyped
<1>4. \A p \in Process : RunInv(p)
  BY <1>1, ConstantFacts DEF RunInv, NothingSeen
<1>5. \A f \in Photos : CopyInv(f)
  BY <1>1, ConstantFacts, CopyFacts DEF CopyInv
<1>6. QED BY <1>2, <1>3, <1>4, <1>5 DEF IInv

LEMMA StepHolds == IInv /\ [Next]_vars => IInv'
<1> SUFFICES ASSUME IInv, [Next]_vars PROVE IInv'
  OBVIOUS
<1>1. CASE UNCHANGED vars
  BY <1>1 DEF vars, runVars, IInv, RunsTyped, TreesTyped, RunInv, CopyInv, Wanted, Found
<1>2. ASSUME NEW p \in Process, (\E flags \in Flags : Start(p, flags)) \/ Step(p) \/ Fail(p) \/ Die(p) PROVE IInv'
  <2>1. CASE Rename(p)
    <3>1. /\ pc[p] = "rename" /\ Replaced(p) /\ Settle(p, "copied") /\ UNCHANGED source
          /\ failures' \in 0..MaxFailures /\ "copied" \in Statuses
      BY <2>1 DEF Rename, IInv, TreesTyped, Statuses
    <3>2. QED BY <3>1, ReplacedKeeps
  <2>2. CASE ~Rename(p)
    BY <1>2, <2>2, StartKeeps, StatKeeps, CreateKeeps, WriteKeeps, StampKeeps, FillTempKeeps, FailKeeps, LeaveKeeps DEF Step
  <2>3. QED BY <2>1, <2>2
<1>3. ASSUME NEW f \in Photos, EditPhoto(f) PROVE IInv'
  BY <1>3, EditKeeps
<1>4. QED BY <1>1, <1>2, <1>3 DEF Next

LEMMA Invariance == Spec => []IInv
BY InitHolds, StepHolds, PTL DEF Spec

\* Trees, runs and reports keep their types.
THEOREM TypeCorrect == Spec => []TypeOK
<1>1. IInv => TypeOK
  BY DEF IInv, RunsTyped, TreesTyped, TypeOK, Labels
<1>2. QED BY Invariance, <1>1, PTL

\* Content and time of a copy are taken at different moments, and the photo may be
\* edited between them: still a destination with the signature of the source has
\* content the signature cannot tell from it (sameSemanticSignature), whatever the
\* sizes and times of the versions.
THEOREM Signature == Spec => []SignatureTells
<1>1. IInv => SignatureTells
  <2>1. SUFFICES ASSUME IInv, ~crossed, NEW f \in Photos, copies[f] # NoCopy, SameSignature(source[f], copies[f])
                 PROVE  Alike(copies[f].content, source[f])
    BY DEF SignatureTells
  <2> DEFINE v == source[f]
             c == copies[f].content
  <2>2. v \in Versions /\ c \in Versions \cup {Part} /\ CopyInv(f) /\ copies[f].time = Time[v] /\ SizeOf(c) = Size[v]
    BY <2>1, CopyFacts DEF IInv, TreesTyped, SameSignature
  <2>3. c \in Versions /\ copies[f].time # Now /\ Size[c] = Size[v]
    <3>1. Size[v] # 0 /\ Time[v] \in Times
      BY <2>2, ConstantFacts DEF Times
    <3>2. Time[v] # Now
      BY <3>1, ConstantFacts
    <3>3. c # Part
      BY <2>2, <3>1 DEF SizeOf
    <3>4. QED BY <2>2, <3>2, <3>3 DEF SizeOf
  <2>4. PICK w \in Versions : w <= c /\ Time[v] = Time[w]
    BY <2>1, <2>2, <2>3, ConstantFacts DEF CopyInv
  <2>5. c <= v
    BY <2>2 DEF CopyInv
  <2>6. Time[w] <= Time[c] /\ Time[c] <= Time[v] /\ Time[c] \in Nat /\ Time[v] \in Nat
    BY <2>2, <2>3, <2>4, <2>5, ConstantFacts
  <2>7. Time[c] = Time[v]
    BY <2>4, <2>6
  <2>8. QED BY <2>3, <2>7 DEF Alike
<1>2. QED BY Invariance, <1>1, PTL

\* However many runs are at work on a photo, its finished copy is only replaced by a
\* run with --overwrite (copySemanticFile, copySemanticFileReplacing).
THEOREM Kept == Spec => CopiesKept
<1>1. IInv /\ [Next]_vars =>
        [\A f \in Photos :
           copies[f].content # Part /\ copies'[f].content # copies[f].content =>
             \/ crossed'
             \/ \E p \in Process : options[p].overwrite /\ pc[p] = "rename" /\ at[p] = f]_vars
  <2>1. SUFFICES ASSUME IInv, [Next]_vars, NEW f \in Photos, copies[f].content # Part,
                        copies'[f].content # copies[f].content, ~crossed'
                 PROVE  \E p \in Process : options[p].overwrite /\ pc[p] = "rename" /\ at[p] = f
    OBVIOUS
  <2>2. PICK p \in Process : Create(p) \/ Write(p) \/ Stamp(p) \/ Rename(p) \/ Fail(p)
    BY <2>1 DEF Next, Step, Start, Stat, FillTemp, WriteManifest, Die, EditPhoto, vars
  <2>3. at[p] \in Photos /\ RunInv(p) /\ copies \in [Photos -> Copies] /\ Found(p) = copies[at[p]] /\ copies[f] \in Copies
    BY <2>1, Unpacked DEF IInv, TreesTyped, Found
  <2>4. CASE Create(p)
    <3>1. Found(p) = NoCopy /\ copies' = [copies EXCEPT ![at[p]] = Copy(Part, Now, p)]
      BY <2>1, <2>4 DEF Create
    <3>2. at[p] # f
      BY <2>1, <2>3, <3>1, CopyFacts
    <3>3. QED BY <2>1, <2>3, <3>1, <3>2
  <2>5. CASE /\ copies' = IF Found(p).by = p THEN [copies EXCEPT ![at[p]].content = source[at[p]]] ELSE copies
             /\ pc[p] = "write"
    <3>1. Found(p).by = p
      BY <2>1, <2>5
    <3>2. Found(p).content = Part
      BY <2>3, <2>5, <3>1 DEF RunInv
    <3>3. at[p] # f
      BY <2>1, <2>3, <3>2
    <3>4. QED BY <2>1, <2>3, <2>5, <3>3
  <2>6. CASE Stamp(p)
    <3>1. copies' = [copies EXCEPT ![at[p]].time = Time[Wanted(p)]]
      BY <2>1, <2>6 DEF Stamp
    <3>2. \A t : [copies[f] EXCEPT !.time = t].content = copies[f].content
      BY <2>3 DEF Copies
    <3>3. QED BY <2>1, <2>3, <3>1, <3>2
  <2>7. CASE pc[p] = "rename" /\ Replaced(p)
    <3>1. copies' = [copies EXCEPT ![at[p]] = Copy(pending[p], Time[Wanted(p)], p)]
      BY <2>7 DEF Replaced
    <3>2. at[p] = f
      BY <2>1, <2>3, <3>1
    <3>3. QED BY <2>3, <2>7, <3>2 DEF RunInv
  <2>8. CASE pc[p] = "write" /\ copies' = [copies EXCEPT ![at[p]] = NoCopy] /\ crossed' = (crossed \/ Found(p).by # p)
    <3>1. Found(p).content = Part /\ at[p] # f
      BY <2>1, <2>3, <2>8 DEF RunInv
    <3>2. QED BY <2>1, <2>3, <2>8, <3>1
  <2>9. QED BY <2>1, <2>2, <2>4, <2>5, <2>6, <2>7, <2>8 DEF Write, Rename, Fail
<1>2. QED BY Invariance, <1>1, PTL DEF Spec, CopiesKept

-----------------------------------------------------------------------------
(* Reports.                                                                 *)

\* A copy is what a run that saw version v of its photo may report.
Replica(copy, v) == copy.content # Part /\ (copy.content >= v \/ Alike(copy.content, v))

\* What a run reports is there, from the moment it has dealt with the photo; the copy it
\* is about to replace is no later than what it replaces it with.
ReportInv(p) ==
  /\ pc[p] = "temp" => examined[p].content <= source[at[p]]
  /\ pc[p] = "rename" => examined[p].content <= pending[p]
  /\ pc[p] = "idle" => \A f \in Photos : status[p][f] = "none"
  /\ ~crossed => \A f \in Photos : status[p][f] \in {"copied", "skipped"} => Replica(copies[f], seen[p][f])

LEMMA ReportStart == ASSUME Init, NEW p \in Process PROVE ReportInv(p)
<1>1. pc[p] = "idle" /\ status[p] = Unreported
  BY DEF Init
<1>2. \A f \in Photos : status[p][f] = "none"
  BY <1>1 DEF Unreported
<1>3. QED BY <1>1, <1>2 DEF ReportInv

\* The numbers of the copies and of what was seen of a photo.
LEMMA Numbers ==
  ASSUME IInv, NEW p \in Process
  PROVE  /\ \A f \in Photos : seen[p][f] \in Nat /\ copies[f].content \in Nat /\ source[f] \in Nat
         /\ examined[p].content \in Nat /\ pending[p] \in Nat /\ at[p] \in Photos
<1>1. \A n \in Versions \cup {NotSeen} \cup {Part} : n \in Nat
  BY ConstantFacts
<1>2. examined[p] \in Copies /\ pending[p] \in Versions \cup {Part} /\ at[p] \in Photos
      /\ \A f \in Photos : copies[f] \in Copies /\ source[f] \in Versions /\ seen[p][f] \in Versions \cup {NotSeen}
  BY DEF IInv, RunsTyped, TreesTyped
<1>3. QED BY <1>1, <1>2, CopyFacts

\* A step leaves alone what was replicated, as long as nothing is crossed.
LEMMA ReplicasKept ==
  ASSUME SizesSettle, IInv, NEW q \in Process, ReportInv(q), NEW p \in Process, NEW f \in Photos,
         Create(q) \/ Write(q) \/ Stamp(q) \/ Rename(q) \/ Fail(q), ~crossed', Replica(copies[f], seen[p][f])
  PROVE  Replica(copies'[f], seen[p][f])
<1>1. CASE copies'[f].content = copies[f].content
  BY <1>1 DEF Replica
<1>2. CASE copies'[f].content # copies[f].content
  <2>1. /\ at[q] \in Photos /\ RunInv(q) /\ copies \in [Photos -> Copies] /\ Found(q) = copies[at[q]] /\ copies[f] \in Copies
        /\ copies[f].content # Part
    BY Unpacked DEF IInv, TreesTyped, Found, Replica
  <2>2. CASE Create(q)
    <3>1. Found(q) = NoCopy /\ copies' = [copies EXCEPT ![at[q]] = Copy(Part, Now, q)]
      BY <1>2, <2>2 DEF Create
    <3>2. at[q] # f
      BY <2>1, <3>1, CopyFacts
    <3>3. QED BY <1>2, <2>1, <3>1, <3>2
  <2>3. CASE /\ copies' = IF Found(q).by = q THEN [copies EXCEPT ![at[q]].content = source[at[q]]] ELSE copies
             /\ pc[q] = "write"
    <3>1. Found(q).by = q
      BY <1>2, <2>3
    <3>2. Found(q).content = Part
      BY <2>1, <2>3, <3>1 DEF RunInv
    <3>3. at[q] # f
      BY <2>1, <3>2
    <3>4. QED BY <1>2, <2>1, <2>3, <3>3
  <2>4. CASE Stamp(q)
    <3>1. copies' = [copies EXCEPT ![at[q]].time = Time[Wanted(q)]]
      BY <1>2, <2>4 DEF Stamp
    <3>2. \A t : [copies[f] EXCEPT !.time = t].content = copies[f].content
      BY <2>1 DEF Copies
    <3>3. QED BY <1>2, <2>1, <3>1, <3>2
  <2>5. CASE pc[q] = "rename" /\ Replaced(q)
    <3> DEFINE s == seen[p][f]
               u == pending[q]
               c == copies[f].content
    <3>1. copies' = [copies EXCEPT ![at[q]] = Copy(u, Time[Wanted(q)], q)] /\ crossed' = (crossed \/ Found(q) # examined[q])
      BY <2>5 DEF Replaced
    <3>2. at[q] = f
      BY <1>2, <2>1, <3>1
    <3>3. copies'[f].content = u
      BY <2>1, <3>1, <3>2 DEF Copy
    <3>4. c <= u /\ u \in Versions
      BY <2>1, <2>5, <3>1, <3>2 DEF ReportInv, RunInv
    <3>5. c \in Nat /\ s \in Nat /\ u \in Nat
      BY Numbers
    <3>6. c \in Versions
      BY <2>1, CopyFacts
    <3>7. CASE u >= s
      BY <3>3, <3>4, <3>7, ConstantFacts DEF Replica
    <3>8. CASE u < s
      <4>1. Alike(c, s) /\ s \in Versions
        <5>1. c < s
          BY <3>4, <3>5, <3>8
        <5>2. s \in Versions \cup {NotSeen} /\ s # 0
          BY <3>5, <3>8 DEF IInv, RunsTyped
        <5>3. QED BY <3>5, <5>1, <5>2, ConstantFacts DEF Replica
      <4>2. Alike(c, u)
        BY <3>4, <3>5, <3>6, <3>8, <4>1 DEF SizesSettle
      <4>3. Alike(u, s)
        BY <4>1, <4>2 DEF Alike
      <4>4. QED BY <3>3, <3>4, <4>3, ConstantFacts DEF Replica
    <3>9. QED BY <3>5, <3>7, <3>8
  <2>6. CASE pc[q] = "write" /\ copies' = [copies EXCEPT ![at[q]] = NoCopy] /\ crossed' = (crossed \/ Found(q).by # q)
    <3>1. Found(q).content = Part /\ at[q] # f
      BY <2>1, <2>6 DEF RunInv
    <3>2. QED BY <1>2, <2>1, <2>6, <3>1
  <2>7. QED BY <1>2, <2>2, <2>3, <2>4, <2>5, <2>6 DEF Write, Rename, Fail
<1>3. QED BY <1>1, <1>2
\* The end of a photo: what is reported of it is there.
LEMMA SettleReports ==
  ASSUME IInv, NEW p \in Process, ReportInv(p), NEW how \in Statuses, Settle(p, how), crossed => crossed',
         ~crossed' => \A f \in Photos : Replica(copies[f], seen[p][f]) => Replica(copies'[f], seen[p][f]),
         ~crossed' /\ how \in {"copied", "skipped"} => Replica(copies'[at[p]], Wanted(p))
  PROVE  ReportInv(p)'
<1>1. CASE Return(p)
  <2>1. pc'[p] = "idle" /\ status'[p] = Unreported
    BY <1>1 DEF Return, GoTo, IInv, RunsTyped
  <2>2. \A f \in Photos : status'[p][f] = "none"
    BY <2>1 DEF Unreported
  <2>3. QED BY <2>1, <2>2 DEF ReportInv
<1>2. CASE /\ status' = [status EXCEPT ![p][at[p]] = how]
           /\ IF at[p] < NumPhotos
              THEN at' = [at EXCEPT ![p] = @ + 1] /\ GoTo(p, "stat")
              ELSE at' = at /\ GoTo(p, "manifest")
           /\ UNCHANGED <<options, seen>>
  <2>1. pc'[p] \in {"stat", "manifest"} /\ seen'[p] = seen[p]
    BY <1>2 DEF GoTo, IInv, RunsTyped
  <2>2. \A f \in Photos : status'[p][f] = IF f = at[p] THEN how ELSE status[p][f]
    BY <1>2 DEF IInv, RunsTyped
  <2>3. ASSUME ~crossed', NEW f \in Photos, status'[p][f] \in {"copied", "skipped"}
        PROVE  Replica(copies'[f], seen[p][f])
    BY <2>2, <2>3 DEF ReportInv, Wanted
  <2>4. QED BY <2>1, <2>3 DEF ReportInv
<1>3. QED BY <1>1, <1>2 DEF Settle

\* What passes for a copy when a photo is skipped may be reported.
LEMMA SkippedIsReplica ==
  ASSUME IInv, ~crossed, NEW p \in Process, Wanted(p) # NotSeen, SameSignature(Wanted(p), Found(p))
  PROVE  Replica(Found(p), Wanted(p))
<1> DEFINE v == Wanted(p)
           c == Found(p).content
<1>1. /\ v \in Versions /\ c \in Versions \cup {Part} /\ CopyInv(at[p]) /\ Found(p) = copies[at[p]]
      /\ Found(p).time = Time[v] /\ SizeOf(c) = Size[v]
  BY Unpacked, CopyFacts DEF SameSignature, Found
<1>2. Size[v] # 0 /\ Time[v] # Now
  <2>1. Time[v] \in Times
    BY <1>1 DEF Times
  <2>2. QED BY <1>1, <2>1, ConstantFacts
<1>3. c \in Versions /\ c # Part /\ Size[c] = Size[v]
  BY <1>1, <1>2 DEF SizeOf
<1>4. PICK w \in Versions : w <= c /\ Time[v] = Time[w]
  BY <1>1, <1>2, <1>3 DEF CopyInv
<1>5. CASE c >= v
  BY <1>3, <1>5 DEF Replica
<1>6. CASE c < v
  <2>1. c \in Nat /\ v \in Nat /\ c <= v
    <3>1. c \in Nat /\ v \in Nat
      BY <1>1, <1>3, ConstantFacts
    <3> HIDE DEF c, v
    <3>2. QED BY <1>6, <3>1
  <2>2. Time[w] <= Time[c] /\ Time[c] <= Time[v] /\ Time[c] \in Nat /\ Time[v] \in Nat
    BY <1>1, <1>3, <1>4, <2>1, ConstantFacts
  <2>3. Time[c] = Time[v]
    BY <1>4, <2>2
  <2>4. QED BY <1>3, <2>3 DEF Replica, Alike
<1>7. c \in Nat /\ v \in Nat
  BY <1>1, <1>3, ConstantFacts
<1>8. QED BY <1>5, <1>6, <1>7

\* A run that goes on with the photo it is at.
LEMMA OwnReport ==
  ASSUME SizesSettle, IInv, NEW p \in Process, ReportInv(p),
         (\E flags \in Flags : Start(p, flags)) \/ Step(p) \/ Fail(p) \/ Die(p),
         crossed => crossed',
         ~crossed' => \A f \in Photos : Replica(copies[f], seen[p][f]) => Replica(copies'[f], seen[p][f])
  PROVE  ReportInv(p)'
<1>1. ASSUME NEW flags, Start(p, flags) PROVE ReportInv(p)'
  <2>1. pc[p] = "idle" /\ pc'[p] = "stat" /\ status' = status
    BY <1>1 DEF Start, GoTo, IInv, RunsTyped
  <2>2. \A f \in Photos : status'[p][f] = "none"
    BY <2>1 DEF ReportInv
  <2>3. QED BY <2>1, <2>2 DEF ReportInv
<1>2. CASE Stat(p)
  <2>1. CASE \E how \in {"none", "conflict", "planned"} : Settle(p, how)
    BY <2>1, SettleReports DEF Statuses
  <2>2. CASE Wanted(p) # NotSeen /\ SameSignature(Wanted(p), Found(p)) /\ Settle(p, "skipped")
    <3>1. copies' = copies /\ crossed' = crossed
      BY <1>2 DEF Stat
    <3>2. ~crossed' => Replica(copies'[at[p]], Wanted(p))
      BY <2>2, <3>1, SkippedIsReplica DEF Found
    <3>3. QED BY <2>2, <3>2, SettleReports DEF Statuses
  <2>3. CASE /\ GoTo(p, IF options[p].overwrite THEN "temp" ELSE "create")
             /\ examined' = [examined EXCEPT ![p] = Found(p)]
             /\ UNCHANGED <<options, seen, at, pending, status>>
    <3>1. pc[p] = "stat" /\ pc'[p] \in {"temp", "create"} /\ examined'[p] = Found(p)
          /\ UNCHANGED <<source, copies, crossed, at, seen, status>>
      BY <1>2, <2>3 DEF Stat, GoTo, IInv, RunsTyped
    <3>2. examined'[p].content <= source'[at'[p]]
      BY <3>1, Unpacked DEF CopyInv, Found
    <3>3. QED BY <3>1, <3>2 DEF ReportInv
  <2>4. QED BY <1>2, <2>1, <2>2, <2>3 DEF Stat
<1>3. CASE Create(p)
  <2>1. CASE Settle(p, "failed")
    BY <2>1, SettleReports DEF Statuses
  <2>2. CASE GoTo(p, "write") /\ UNCHANGED <<options, seen, at, examined, pending, status>>
    <3>1. pc[p] = "create" /\ pc'[p] = "write"
      BY <1>3, <2>2 DEF Create, GoTo, IInv, RunsTyped
    <3>2. QED BY <2>2, <3>1 DEF ReportInv
  <2>3. QED BY <1>3, <2>1, <2>2 DEF Create
<1>4. CASE Write(p)
  <2>1. pc'[p] = "stamp" /\ UNCHANGED <<seen, status>>
    BY <1>4 DEF Write, GoTo, IInv, RunsTyped
  <2>2. QED BY <2>1 DEF ReportInv
<1>5. CASE Stamp(p)
  <2>1. CASE Settle(p, "failed")
    BY <2>1, SettleReports DEF Statuses
  <2>2. CASE /\ Found(p) # NoCopy /\ copies' = [copies EXCEPT ![at[p]].time = Time[Wanted(p)]]
             /\ crossed' = (crossed \/ Found(p).by # p) /\ Settle(p, "copied")
    <3>1. ~crossed' => Found(p).content \in Versions /\ Wanted(p) <= Found(p).content
      BY <1>5, <2>2, Unpacked DEF Stamp, RunInv
    <3>2. copies'[at[p]].content = Found(p).content
      <4>1. [Found(p) EXCEPT !.time = Time[Wanted(p)]].content = Found(p).content
        BY Unpacked DEF Copies
      <4>2. QED BY <2>2, <4>1, Unpacked DEF Found, IInv, TreesTyped
    <3>3. ~crossed' => Replica(copies'[at[p]], Wanted(p))
      <4>1. Wanted(p) \in Nat /\ Found(p).content \in Nat
        BY Numbers DEF Wanted, Found
      <4>2. QED BY <3>1, <3>2, <4>1, ConstantFacts DEF Replica
    <3>4. QED BY <2>2, <3>3, SettleReports DEF Statuses
  <2>3. QED BY <1>5, <2>1, <2>2 DEF Stamp
<1>6. CASE FillTemp(p)
  <2>1. pc[p] = "temp" /\ pc'[p] = "rename" /\ pending'[p] = source[at[p]]
        /\ UNCHANGED <<copies, crossed, seen, status, examined>>
    BY <1>6 DEF FillTemp, GoTo, IInv, RunsTyped
  <2>2. QED BY <2>1 DEF ReportInv
<1>7. CASE Rename(p)
  <2>1. pc[p] = "rename" /\ Settle(p, "copied") /\ copies' = [copies EXCEPT ![at[p]] = Copy(pending[p], Time[Wanted(p)], p)]
    BY <1>7 DEF Rename, Replaced
  <2>2. pending[p] \in Versions /\ Wanted(p) <= pending[p] /\ Wanted(p) \in Nat /\ pending[p] \in Nat
    BY <2>1, Unpacked, Numbers DEF RunInv, Wanted
  <2>3. copies'[at[p]].content = pending[p]
    BY <2>1, Unpacked DEF Copy, IInv, TreesTyped
  <2>4. Replica(copies'[at[p]], Wanted(p))
    BY <2>2, <2>3, ConstantFacts DEF Replica
  <2>5. QED BY <2>1, <2>4, SettleReports DEF Statuses
<1>8. CASE Fail(p)
  <2>1. Settle(p, "failed")
    BY <1>8 DEF Fail
  <2>2. QED BY <2>1, SettleReports DEF Statuses
<1>9. CASE WriteManifest(p) \/ Die(p)
  <2>1. pc'[p] = "idle" /\ status'[p] = Unreported
    BY <1>9 DEF WriteManifest, Die, Return, GoTo, IInv, RunsTyped
  <2>2. \A f \in Photos : status'[p][f] = "none"
    BY <2>1 DEF Unreported
  <2>3. QED BY <2>1, <2>2 DEF ReportInv
<1>10. QED BY <1>1, <1>2, <1>3, <1>4, <1>5, <1>6, <1>7, <1>8, <1>9 DEF Step

\* A step of one run is none of another's.
LEMMA OthersUnmoved ==
  ASSUME IInv, NEW q \in Process, (\E flags \in Flags : Start(q, flags)) \/ Step(q) \/ Fail(q) \/ Die(q),
         NEW p \in Process \ {q}
  PROVE  /\ pc'[p] = pc[p] /\ at'[p] = at[p] /\ examined'[p] = examined[p] /\ pending'[p] = pending[p]
         /\ status'[p] = status[p] /\ seen'[p] = seen[p] /\ source' = source /\ (crossed => crossed')
<1>1. source' = source /\ (crossed => crossed')
  <2>1. source' = source
    BY DEF Start, Step, Stat, Create, Write, Stamp, FillTemp, Rename, WriteManifest, Fail, Die
  <2>2. crossed => crossed'
    BY DEF Start, Step, Stat, Create, Write, Stamp, FillTemp, Rename, Replaced, WriteManifest, Fail, Die
  <2>3. QED BY <2>1, <2>2
<1>2. ASSUME NEW how, Settle(q, how)
      PROVE  /\ pc'[p] = pc[p] /\ at'[p] = at[p] /\ examined'[p] = examined[p] /\ pending'[p] = pending[p]
             /\ status'[p] = status[p] /\ seen'[p] = seen[p]
  BY <1>2 DEF Settle, Return, GoTo, IInv, RunsTyped
<1>3. CASE \E how : Settle(q, how)
  BY <1>1, <1>2, <1>3
<1>4. CASE ~\E how : Settle(q, how)
  <2>1. /\ pc'[p] = pc[p] /\ at'[p] = at[p] /\ examined'[p] = examined[p] /\ pending'[p] = pending[p]
        /\ status'[p] = status[p] /\ seen'[p] = seen[p]
    BY <1>4 DEF Start, Step, Stat, Create, Write, Stamp, FillTemp, Rename, WriteManifest, Fail, Die, Return, GoTo, IInv, RunsTyped
  <2>2. QED BY <1>1, <2>1
<1>5. QED BY <1>3, <1>4

LEMMA ReportStep ==
  ASSUME SizesSettle, IInv, \A p \in Process : ReportInv(p), [Next]_vars, NEW p \in Process
  PROVE  ReportInv(p)'
<1>1. CASE UNCHANGED vars
  <2>1. UNCHANGED <<pc, examined, source, at, pending, status, seen, copies, crossed>>
    BY <1>1 DEF vars, runVars
  <2>2. QED BY <2>1 DEF ReportInv
<1>2. ASSUME NEW q \in Process, (\E flags \in Flags : Start(q, flags)) \/ Step(q) \/ Fail(q) \/ Die(q) PROVE ReportInv(p)'
  <2>1. ASSUME NEW f \in Photos, ~crossed', Replica(copies[f], seen[p][f]) PROVE Replica(copies'[f], seen[p][f])
    <3>1. CASE Create(q) \/ Write(q) \/ Stamp(q) \/ Rename(q) \/ Fail(q)
      BY <2>1, <3>1, ReplicasKept
    <3>2. CASE copies' = copies
      BY <2>1, <3>2
    <3>3. QED BY <1>2, <3>1, <3>2 DEF Start, Step, Stat, FillTemp, WriteManifest, Die
  <2>2. crossed => crossed'
    BY <1>2 DEF Start, Step, Stat, Create, Write, Stamp, FillTemp, Rename, Replaced, WriteManifest, Fail, Die
  <2>3. CASE p = q
    BY <1>2, <2>1, <2>2, <2>3, OwnReport
  <2>4. CASE p # q
    <3>1. /\ pc'[p] = pc[p] /\ at'[p] = at[p] /\ examined'[p] = examined[p] /\ pending'[p] = pending[p]
          /\ status'[p] = status[p] /\ seen'[p] = seen[p] /\ source' = source
      BY <1>2, <2>4, OthersUnmoved
    <3>2. QED BY <2>1, <2>2, <3>1 DEF ReportInv
  <2>5. QED BY <2>3, <2>4
<1>3. ASSUME NEW f \in Photos, EditPhoto(f) PROVE ReportInv(p)'
  <2>1. /\ UNCHANGED <<copies, crossed, pc, seen, at, examined, pending, status>>
        /\ \A g \in Photos : source'[g] \in Nat /\ source[g] <= source'[g]
    BY <1>3, GoalAssumption DEF EditPhoto, runVars, IInv, TreesTyped, Versions, GoalAssumption
  <2>2. at[p] \in Photos /\ examined[p].content \in Nat /\ source[at[p]] \in Nat
    BY Numbers
  <2>3. QED BY <2>1, <2>2 DEF ReportInv
<1>4. QED BY <1>1, <1>2, <1>3 DEF Next

\* A photo that a run reports as copied, or as replicated before, is at its destination in
\* the version of its scan or a later one, whatever other runs did meanwhile, when no photo comes
\* back to an earlier size within one second: what another run examined, and is about to
\* replace by a version read before that scan, is then alike with that version.
THEOREM Reported == SizesSettle => (Spec => []ReportedReplicated)
<1> SUFFICES ASSUME SizesSettle PROVE Spec => []ReportedReplicated
  OBVIOUS
<1> DEFINE Inv == \A p \in Process : ReportInv(p)
<1>1. Init => Inv
  BY ReportStart
<1>2. IInv /\ Inv /\ [Next]_vars => Inv'
  BY ReportStep
<1>3. IInv /\ Inv => ReportedReplicated
  <2> SUFFICES ASSUME IInv, Inv, ~crossed, NEW p \in Process, NEW f \in Photos, status[p][f] \in {"copied", "skipped"}
               PROVE  /\ copies[f].content # Part
                      /\ copies[f].content >= seen[p][f] \/ Alike(copies[f].content, seen[p][f])
    BY DEF ReportedReplicated
  <2>1. QED BY DEF ReportInv, Replica
<1> HIDE DEF Inv
<1>4. QED BY <1>1, <1>2, <1>3, Invariance, PTL DEF Spec
================================================================================
