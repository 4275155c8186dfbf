----------------------------- MODULE Completion -----------------------------
(***************************************************************************)
(* What every asynchronous request of the library promises its caller.    *)
(*                                                                         *)
(* A caller of inkwell_resolve_start(), inkwell_tcp_connector_start() or   *)
(* inkwell_fetch_start() either has the request refused by the return      *)
(* value, and then hears nothing more, or has it accepted, and then hears  *)
(* of it exactly once through the callback it gave, unless it cancels the  *)
(* request first.  One request is outstanding at a time.                   *)
(*                                                                         *)
(* The state is what the caller can see: the return values it was given,   *)
(* the cancellations it asked for and the callbacks it received.           *)
(***************************************************************************)
EXTENDS Naturals

CONSTANT Requests   \* the requests a caller makes in a behaviour

VARIABLES
    phase,          \* what the calls that concern a request have returned
    calls           \* how often the callback of a request has run

vars == <<phase, calls>>

Phases == {"unused", "refused", "accepted", "cancelled"}

\* An answer is still owed for r.
Outstanding(r) == phase[r] = "accepted" /\ calls[r] = 0

Init ==
    /\ phase = [r \in Requests |-> "unused"]
    /\ calls = [r \in Requests |-> 0]

\* start() returned 0.
Accept(r) ==
    /\ phase[r] = "unused"
    /\ \A q \in Requests : ~Outstanding(q)
    /\ phase' = [phase EXCEPT ![r] = "accepted"]
    /\ UNCHANGED calls

\* start() returned an error.
Refuse(r) ==
    /\ phase[r] = "unused"
    /\ phase' = [phase EXCEPT ![r] = "refused"]
    /\ UNCHANGED calls

\* The callback ran.
Answer(r) ==
    /\ Outstanding(r)
    /\ calls' = [calls EXCEPT ![r] = 1]
    /\ UNCHANGED phase

\* cancel() or shutdown() returned.
Cancel(r) ==
    /\ Outstanding(r)
    /\ phase' = [phase EXCEPT ![r] = "cancelled"]
    /\ UNCHANGED calls

Settle(r) == Answer(r) \/ Cancel(r)

Next == \E r \in Requests : Accept(r) \/ Refuse(r) \/ Settle(r)

SafeSpec == Init /\ [][Next]_vars

Spec == SafeSpec /\ \A r \in Requests : WF_vars(Settle(r))
=============================================================================
