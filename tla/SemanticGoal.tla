----------------------------- MODULE SemanticGoal -----------------------------
(***************************************************************************)
(* Replicating photos: RunGoal, executeSemanticPlan, copySemanticFile and  *)
(* copySemanticFileReplacing in internal/core/semantic_goal.go.  A run     *)
(* scans the source once, then takes the photos one by one: it examines    *)
(* the destination and skips it, reports a conflict, or copies.  No lock   *)
(* is taken: several runs share the two trees, a run may die anywhere, and *)
(* the photos may be edited meanwhile.                                     *)
(***************************************************************************)
EXTENDS Naturals

CONSTANTS
  Process,      \* runs at work at the same time
  NumPhotos,    \* photos 1..NumPhotos, in the order of the scan
  MaxVersion,   \* versions 1..MaxVersion of a photo over time
  Size, Time,   \* size and modification time, to the second, of each version
  Windows,      \* time windows a goal may ask for: sets of times
  MaxFailures   \* bound on errors and deaths

Photos == 1..NumPhotos
Versions == 1..MaxVersion

ASSUME GoalAssumption ==
  /\ NumPhotos \in Nat \ {0} /\ MaxVersion \in Nat \ {0} /\ MaxFailures \in Nat
  /\ Size \in [Versions -> Nat \ {0}] /\ Time \in [Versions -> Nat \ {0}]
  /\ \A v, w \in Versions : v <= w => Time[v] <= Time[w]
  /\ \A window \in Windows : window \subseteq {Time[v] : v \in Versions}
  /\ "nobody" \notin Process

VARIABLES
  source,    \* source[f]: the version of photo f
  copies,    \* copies[f]: what is at the destination of f, see Copy
  pc,        \* where each run is
  options,   \* its flags
  seen,      \* seen[p][f]: the version its scan found, NotSeen outside the window
  at,        \* the photo it works on
  examined,  \* what it found at the destination of that photo
  pending,   \* the version in its temporary file
  status,    \* status[p][f]: what it will report of each photo
  crossed,   \* history: a step hit a destination other than the one its run had
             \* examined or created
  failures

runVars == <<pc, options, seen, at, examined, pending, status>>
vars == <<source, copies, crossed, failures, runVars>>

NotSeen == 0
Nobody == "nobody"
Now == 0   \* the time of a file that was just written: no photo has it
Part == 0  \* the content of a file that is not written to the end

Copy(content, time, by) == [content |-> content, time |-> time, by |-> by]
NoCopy == Copy(Part, Now, Nobody)
Copies == [content : Versions \cup {Part}, time : {Time[v] : v \in Versions} \cup {Now}, by : Process \cup {Nobody}]

Flags == [apply : BOOLEAN, overwrite : BOOLEAN, window : Windows]
Statuses == {"none", "skipped", "conflict", "failed", "planned", "copied"}
Unreported == [f \in Photos |-> "none"]
NothingSeen == [f \in Photos |-> NotSeen]
NoFlags == [apply |-> FALSE, overwrite |-> FALSE, window |-> {}]

TypeOK ==
  /\ source \in [Photos -> Versions]
  /\ copies \in [Photos -> Copies]
  /\ \A f \in Photos : copies[f].by = Nobody => copies[f] = NoCopy
  /\ pc \in [Process -> {"idle", "stat", "create", "write", "stamp", "temp", "rename", "manifest"}]
  /\ options \in [Process -> Flags \cup {NoFlags}]
  /\ seen \in [Process -> [Photos -> Versions \cup {NotSeen}]]
  /\ at \in [Process -> Photos]
  /\ examined \in [Process -> Copies]
  /\ pending \in [Process -> Versions \cup {Part}]
  /\ status \in [Process -> [Photos -> Statuses]]
  /\ \A p \in Process : pc[p] \in {"create", "write", "stamp", "temp", "rename"} => options[p].apply
  /\ crossed \in BOOLEAN
  /\ failures \in 0..MaxFailures

Init ==
  /\ source = [f \in Photos |-> 1]
  /\ copies = [f \in Photos |-> NoCopy]
  /\ pc = [p \in Process |-> "idle"]
  /\ options = [p \in Process |-> NoFlags]
  /\ seen = [p \in Process |-> NothingSeen]
  /\ at = [p \in Process |-> 1]
  /\ examined = [p \in Process |-> NoCopy]
  /\ pending = [p \in Process |-> Part]
  /\ status = [p \in Process |-> Unreported]
  /\ crossed = FALSE
  /\ failures = 0

-----------------------------------------------------------------------------

SizeOf(content) == IF content = Part THEN 0 ELSE Size[content]

\* sameSemanticSignature: size, and time to the second.
SameSignature(version, copy) ==
  SizeOf(copy.content) = Size[version] /\ copy.time = Time[version]

\* Two versions the signature cannot tell apart.
Alike(v, w) == Size[v] = Size[w] /\ Time[v] = Time[w]

GoTo(p, label) == pc' = [pc EXCEPT ![p] = label]

Return(p) ==
  /\ GoTo(p, "idle")
  /\ options' = [options EXCEPT ![p] = NoFlags]
  /\ seen' = [seen EXCEPT ![p] = NothingSeen]
  /\ at' = [at EXCEPT ![p] = 1]
  /\ examined' = [examined EXCEPT ![p] = NoCopy]
  /\ pending' = [pending EXCEPT ![p] = Part]
  /\ status' = [status EXCEPT ![p] = Unreported]

\* The photo at hand is done: the next one, or the end of the run.
Settle(p, how) ==
  \/ /\ at[p] < NumPhotos \/ options[p].apply
     /\ status' = [status EXCEPT ![p][at[p]] = how]
     /\ pending' = [pending EXCEPT ![p] = Part]
     /\ examined' = [examined EXCEPT ![p] = NoCopy]
     /\ IF at[p] < NumPhotos
        THEN at' = [at EXCEPT ![p] = @ + 1] /\ GoTo(p, "stat")
        ELSE at' = at /\ GoTo(p, "manifest")
     /\ UNCHANGED <<options, seen>>
  \/ at[p] = NumPhotos /\ ~options[p].apply /\ Return(p)

\* scanSemanticPhotos, of one photo.
Scan(f, window) == IF Time[source[f]] \in window THEN source[f] ELSE NotSeen

\* RunGoal up to the scan.  What the scan finds of one photo does not depend on
\* another, so it is one step.
Start(p, flags) ==
  /\ pc[p] = "idle"
  /\ GoTo(p, "stat")
  /\ options' = [options EXCEPT ![p] = flags]
  /\ seen' = [seen EXCEPT ![p] = [f \in Photos |-> Scan(f, flags.window)]]
  /\ UNCHANGED <<source, copies, at, status, examined, pending, crossed, failures>>

Found(p) == copies[at[p]]
Wanted(p) == seen[p][at[p]]

\* Mutant: a run without the flag copies over a conflict.
StatCopiesConflict(p) ==
  /\ pc[p] = "stat"
  /\ \/ Wanted(p) = NotSeen /\ Settle(p, "none")
     \/ /\ Wanted(p) # NotSeen
        /\ IF Found(p) # NoCopy /\ SameSignature(Wanted(p), Found(p)) THEN Settle(p, "skipped")
           ELSE IF ~options[p].apply THEN Settle(p, "planned")
           ELSE /\ GoTo(p, "temp")
                /\ examined' = [examined EXCEPT ![p] = Found(p)]
                /\ UNCHANGED <<options, seen, at, pending, status>>
  /\ UNCHANGED <<source, copies, crossed, failures>>

\* The switch of executeSemanticPlan.
Stat(p) ==
  /\ pc[p] = "stat"
  /\ \/ Wanted(p) = NotSeen /\ Settle(p, "none")
     \/ /\ Wanted(p) # NotSeen
        /\ IF Found(p) # NoCopy /\ SameSignature(Wanted(p), Found(p)) THEN Settle(p, "skipped")
           ELSE IF Found(p) # NoCopy /\ ~options[p].overwrite THEN Settle(p, "conflict")
           ELSE IF ~options[p].apply THEN Settle(p, "planned")
           ELSE /\ GoTo(p, IF options[p].overwrite THEN "temp" ELSE "create")
                /\ examined' = [examined EXCEPT ![p] = Found(p)]
                /\ UNCHANGED <<options, seen, at, pending, status>>
  /\ UNCHANGED <<source, copies, crossed, failures>>

-----------------------------------------------------------------------------
(* copySemanticFile without --overwrite: an exclusive create, the copy, and *)
(* the time, each on whatever the path names by then.                       *)

\* Mutant: a file that is there by now counts as copied.
CreateOrCopied(p) ==
  /\ pc[p] = "create"
  /\ IF Found(p) = NoCopy
     THEN /\ copies' = [copies EXCEPT ![at[p]] = Copy(Part, Now, p)]
          /\ GoTo(p, "write")
          /\ UNCHANGED <<options, seen, at, examined, pending, status>>
     ELSE Settle(p, "copied") /\ UNCHANGED copies
  /\ UNCHANGED <<source, crossed, failures>>

Create(p) ==
  /\ pc[p] = "create"
  /\ IF Found(p) = NoCopy
     THEN /\ copies' = [copies EXCEPT ![at[p]] = Copy(Part, Now, p)]
          /\ GoTo(p, "write")
          /\ UNCHANGED <<options, seen, at, examined, pending, status>>
     ELSE Settle(p, "failed") /\ UNCHANGED copies
  /\ UNCHANGED <<source, crossed, failures>>

\* The bytes go to the file that was opened; the path may name another by now.
Write(p) ==
  /\ pc[p] = "write"
  /\ copies' = IF Found(p).by = p THEN [copies EXCEPT ![at[p]].content = source[at[p]]] ELSE copies
  /\ GoTo(p, "stamp")
  /\ UNCHANGED <<source, options, seen, at, examined, pending, status, crossed, failures>>

\* Mutant: the time of the photo is read again.
StampCurrent(p) ==
  /\ pc[p] = "stamp"
  /\ IF Found(p) = NoCopy
     THEN Settle(p, "failed") /\ UNCHANGED <<copies, crossed>>
     ELSE /\ copies' = [copies EXCEPT ![at[p]].time = Time[source[at[p]]]]
          /\ crossed' = (crossed \/ Found(p).by # p)
          /\ Settle(p, "copied")
  /\ UNCHANGED <<source, failures>>

\* os.Chtimes by path; a missing file is an error.
Stamp(p) ==
  /\ pc[p] = "stamp"
  /\ IF Found(p) = NoCopy
     THEN Settle(p, "failed") /\ UNCHANGED <<copies, crossed>>
     ELSE /\ copies' = [copies EXCEPT ![at[p]].time = Time[Wanted(p)]]
          /\ crossed' = (crossed \/ Found(p).by # p)
          /\ Settle(p, "copied")
  /\ UNCHANGED <<source, failures>>

-----------------------------------------------------------------------------
(* copySemanticFileReplacing: a temporary file with content and time, and   *)
(* a rename over the destination.                                           *)

FillTemp(p) ==
  /\ pc[p] = "temp"
  /\ pending' = [pending EXCEPT ![p] = source[at[p]]]
  /\ GoTo(p, "rename")
  /\ UNCHANGED <<source, copies, options, seen, at, examined, status, crossed, failures>>

\* Mutant: the temporary file is not given the time of the photo.
ReplacedUnstamped(p) ==
  /\ copies' = [copies EXCEPT ![at[p]] = Copy(pending[p], Now, p)]
  /\ crossed' = (crossed \/ Found(p) # examined[p])

Replaced(p) ==
  /\ copies' = [copies EXCEPT ![at[p]] = Copy(pending[p], Time[Wanted(p)], p)]
  /\ crossed' = (crossed \/ Found(p) # examined[p])

Rename(p) ==
  /\ pc[p] = "rename"
  /\ Replaced(p)
  /\ Settle(p, "copied")
  /\ UNCHANGED <<source, failures>>

-----------------------------------------------------------------------------

\* writeSemanticManifest stores what the run reports, and the run returns it.  The
\* file is replaced atomically and never read again.
WriteManifest(p) ==
  /\ pc[p] = "manifest"
  /\ Return(p)
  /\ UNCHANGED <<source, copies, crossed, failures>>

Fault == failures < MaxFailures /\ failures' = failures + 1

\* An error the code reports.  A copy that breaks off is removed, by path; one
\* that cannot be closed, or given its time, stays; a directory that cannot be
\* synced fails a photo that was replaced.
Fail(p) ==
  /\ Fault
  /\ \/ pc[p] \in {"stat", "create", "stamp", "temp", "rename"} /\ UNCHANGED <<copies, crossed>>
     \/ /\ pc[p] = "write"
        /\ copies' = [copies EXCEPT ![at[p]] = NoCopy]
        /\ crossed' = (crossed \/ Found(p).by # p)
     \/ /\ pc[p] = "write"
        /\ copies' = IF Found(p).by = p THEN [copies EXCEPT ![at[p]].content = source[at[p]]] ELSE copies
        /\ UNCHANGED crossed
     \/ pc[p] = "rename" /\ Replaced(p)
  /\ Settle(p, "failed")
  /\ UNCHANGED source

\* The process dies: what it created stays as it is.
Die(p) ==
  /\ pc[p] # "idle"
  /\ Fault
  /\ Return(p)
  /\ UNCHANGED <<source, copies, crossed>>

EditPhoto(f) ==
  /\ source[f] < MaxVersion
  /\ source' = [source EXCEPT ![f] = @ + 1]
  /\ UNCHANGED <<copies, crossed, failures, runVars>>

-----------------------------------------------------------------------------

Step(p) ==
  \/ Stat(p) \/ Create(p) \/ Write(p) \/ Stamp(p)
  \/ FillTemp(p) \/ Rename(p) \/ WriteManifest(p)

Next ==
  \/ \E p \in Process :
       \/ \E flags \in Flags : Start(p, flags)
       \/ Step(p) \/ Fail(p) \/ Die(p)
  \/ \E f \in Photos : EditPhoto(f)

Spec == Init /\ [][Next]_vars

\* A run goes on, and the goal is asked for again with --apply --overwrite.
Repair(p) ==
  \E window \in Windows :
    /\ \A v \in Versions : Time[v] \in window
    /\ Start(p, [apply |-> TRUE, overwrite |-> TRUE, window |-> window])

FairSpec ==
  /\ Spec
  /\ \A p \in Process : WF_vars(Step(p))
  /\ \E p \in Process : SF_vars(Repair(p))

-----------------------------------------------------------------------------

\* What passes for a copy of the photo is one: a destination with the signature
\* of the source has content the signature cannot tell from it, although content
\* and time are taken at different moments.
SignatureTells ==
  ~crossed => \A f \in Photos :
    copies[f] # NoCopy /\ SameSignature(source[f], copies[f]) => Alike(copies[f].content, source[f])

\* No photo leaves a size and comes back to it within one second.
SizesSettle == \A u, v, w \in Versions : u <= v /\ v <= w /\ Alike(u, w) => Alike(u, v)

\* A photo a run reports as copied or already replicated is at its destination,
\* in the version of the scan or a later one, when the manifest is written.
ReportedReplicated ==
  ~crossed => \A p \in Process, f \in Photos :
    pc[p] = "manifest" /\ status[p][f] \in {"copied", "skipped"} =>
      /\ copies[f].content # Part
      /\ copies[f].content >= seen[p][f] \/ Alike(copies[f].content, seen[p][f])

\* A finished copy is only replaced by a run with --overwrite, whichever other
\* runs are at work on the same photo.
CopiesKept ==
  [][\A f \in Photos :
       copies[f].content # Part /\ copies'[f].content # copies[f].content =>
         \/ crossed'
         \/ \E p \in Process : options[p].overwrite /\ pc[p] = "rename" /\ at[p] = f]_vars

\* When the photos are no longer edited and nothing fails any more, runs with
\* --overwrite complete the replica whatever earlier runs left, and it stays so.
Converges ==
  <>[](\A f \in Photos : copies[f] # NoCopy /\ SameSignature(source[f], copies[f]))
=============================================================================
