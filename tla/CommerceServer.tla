----------------------------- MODULE CommerceServer -----------------------------
(***************************************************************************)
(* A client of the commerce HTTP server that wants a pack installed        *)
(* (internal/core/commerce_http.go, serveCommerceHTTP in cli.go), next to  *)
(* everything Commerce has.  A handler runs in a goroutine of its own; the *)
(* server stops writing an answer after 30 seconds while the handler goes  *)
(* on, and a client that hangs up cancels the context the handler works    *)
(* under (Interrupt).  So a client that sees an error, or nothing, repeats *)
(* its request at any time, before or after the first has come to its end, *)
(* in whatever way.                                                        *)
(***************************************************************************)
EXTENDS Commerce

CONSTANT Wanted   \* the pack the client asks for

ASSUME CommerceServerAssumption == Wanted \in Packs

VARIABLES
  asked,       \* the calls made for the client, first and repeated
  disturbed    \* since then the registry or another command has changed a skill

serverVars == <<vars, asked, disturbed>>

ServerInit == Init /\ asked = {} /\ disturbed = FALSE

\* POST /v1/commerce/install-pack, confirmed.  409 lock_busy changes nothing.
Post(p) ==
  /\ BeginPack(p, Wanted)
  /\ asked' = asked \cup {calls'}
  /\ UNCHANGED disturbed

\* Everyone else, the handlers of other clients included.
Meanwhile ==
  /\ Next
  /\ disturbed' = (disturbed \/ (asked # {} /\ (offered' # offered \/ (holder = "free" /\ installed' # installed))))
  /\ UNCHANGED asked

ServerNext == (\E p \in Procs : Post(p)) \/ Meanwhile

ServerSpec == ServerInit /\ [][ServerNext]_serverVars

-----------------------------------------------------------------------------

\* However often a client repeats an install whose answer was an error or was lost, the
\* install is billed once: no meter has two bills from the client's calls for a pack
\* whose skills nobody else touched.
RetryBillsOnce ==
  ~disturbed =>
    \A meter \in Meters : Cardinality({b \in bills : b.id \in asked /\ b.meter = meter}) <= 1
=============================================================================
