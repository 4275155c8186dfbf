------------------------------ MODULE Resolve ------------------------------
(***************************************************************************)
(* The Linux hostname resolver, src/net/resolve.c.                         *)
(*                                                                         *)
(* A lookup is a forked child that blocks in getaddrinfo(), writes one     *)
(* record to a pipe and exits.  The parent reads the pipe from its event   *)
(* loop and reaps the child from there or from the tick.  The child runs   *)
(* concurrently with the parent: its write, the closing of its end of the  *)
(* pipe and the moment it can be reaped are three separate events, and     *)
(* the parent's read and its waitpid() are two.                            *)
(*                                                                         *)
(* A lookup's number stands for its pid, its pipe and its callback.  0 is  *)
(* the code's -1 for `child` and `child_fd` and its NULL for `on_done`.    *)
(***************************************************************************)
EXTENDS Integers

CONSTANTS
    Lookups,        \* the lookups the caller asks for
    Timeout,        \* INKWELL_RESOLVE_TIMEOUT_MS, in steps of the clock
    Faults          \* which calls of the parent may fail: "start", "read"

ASSUME LookupsAssumption == Lookups \subseteq Nat \ {0}
ASSUME TimeoutAssumption == Timeout \in Nat \ {0}
ASSUME FaultsAssumption  == Faults \subseteq {"start", "read"}

VARIABLES
    proc,           \* the state of each lookup's child process
    answer,         \* the record each child has written, or NoRecord
    pipe,           \* what is in the pipe that child_fd reads
    child,          \* resolve->child
    child_fd,       \* resolve->child_fd, open and registered with the loop
    record,         \* resolve->record; NoRecord while record_len is short
    failure,        \* resolve->failure
    age,            \* how long ago the lookup started, up to Timeout
    on_done,        \* resolve->on_done
    pc,             \* where the parent is
    caller,         \* whether the code at pc was entered from the tick
    phase, calls,   \* what the caller of the resolver has seen
    verdict         \* the outcome each callback was given

kernel == <<proc, answer, pipe>>
lookup == <<child, child_fd, record, failure, age, on_done>>
flow   == <<pc, caller>>
seen   == <<phase, calls, verdict>>
vars   == <<kernel, lookup, flow, seen>>

-----------------------------------------------------------------------------
(* The record. *)

\* The getaddrinfo() results resolve_outcome_of() tells apart, and how many
\* addresses came with them.
Records ==
    [error : {"0"}, count : {0, 1}]
      \cup [error : {"EAI_NONAME", "EAI_NODATA", "EAI_AGAIN"}, count : {0}]

NoRecord == [error |-> "none", count |-> 0]

Outcomes == {"OK", "NOT_FOUND", "FAILED", "TIMED_OUT"}

\* Mutant: the getaddrinfo() code is handed over as the outcome.
CodeAsOutcome(r) == IF r.error = "0" THEN "OK" ELSE r.error

resolve_outcome_of(r) ==
    IF r.error = "0"
    THEN IF r.count > 0 THEN "OK" ELSE "NOT_FOUND"
    ELSE IF r.error \in {"EAI_NONAME", "EAI_NODATA"}
         THEN "NOT_FOUND" ELSE "FAILED"

\* Mutant: no check that the whole record has arrived; the buffer is all zero.
OutcomeOfShortRecord ==
    IF failure # "OK" THEN failure
    ELSE resolve_outcome_of(IF record = NoRecord
                            THEN [error |-> "0", count |-> 0] ELSE record)

\* How try_finish() decides the outcome of a child that has exited.
ReapedOutcome ==
    IF failure # "OK" THEN failure
    ELSE IF record = NoRecord THEN "FAILED"
    ELSE resolve_outcome_of(record)

-----------------------------------------------------------------------------
\* The child processes, the resolver, the parent's thread and its caller.
TypeOK ==
    /\ proc \in [Lookups -> {"none", "looking", "exiting", "zombie", "gone"}]
    /\ answer \in [Lookups -> Records \cup {NoRecord}]
    /\ pipe \in Records \cup {NoRecord}
    /\ child \in Lookups \cup {0}
    /\ child_fd \in Lookups \cup {0}
    /\ record \in Records \cup {NoRecord}
    /\ failure \in {"OK", "FAILED"}
    /\ age \in 0 .. Timeout
    /\ on_done \in Lookups \cup {0}
    /\ pc \in {"app", "finish", "reap", "deadline", "callback"}
    /\ caller \in {"loop", "tick"}
    /\ phase \in [Lookups -> {"unused", "refused", "accepted", "cancelled"}]
    /\ calls \in [Lookups -> Nat]
    /\ verdict \in [Lookups -> Outcomes \cup {"none"}]

Init ==
    /\ proc = [l \in Lookups |-> "none"]
    /\ answer = [l \in Lookups |-> NoRecord]
    /\ pipe = NoRecord
    /\ child = 0 /\ child_fd = 0 /\ on_done = 0
    /\ record = NoRecord
    /\ failure = "OK"
    /\ age = 0
    /\ pc = "app" /\ caller = "loop"
    /\ phase = [l \in Lookups |-> "unused"]
    /\ calls = [l \in Lookups |-> 0]
    /\ verdict = [l \in Lookups |-> "none"]

-----------------------------------------------------------------------------
(* The child process.  It may be slow for ever, and it may die at any point. *)

\* getaddrinfo() returned and the record went down the pipe in one write.
ChildWrites(l) ==
    /\ proc[l] = "looking"
    /\ answer[l] = NoRecord
    /\ \E r \in Records :
          /\ answer' = [answer EXCEPT ![l] = r]
          /\ pipe' = IF child_fd = l THEN r ELSE pipe
    /\ UNCHANGED <<proc, lookup, flow, seen>>

\* _exit(), or a signal: the kernel closes the child's end of the pipe ...
ChildCloses(l) ==
    /\ proc[l] = "looking"
    /\ proc' = [proc EXCEPT ![l] = "exiting"]
    /\ UNCHANGED <<answer, pipe, lookup, flow, seen>>

\* ... and only then can the child be reaped.
ChildExits(l) ==
    /\ proc[l] = "exiting"
    /\ proc' = [proc EXCEPT ![l] = "zombie"]
    /\ UNCHANGED <<answer, pipe, lookup, flow, seen>>

\* Time passes.  A handler's `now_ms` is read once, so not within a handler.
Clock ==
    /\ pc = "app"
    /\ child # 0
    /\ age < Timeout
    /\ age' = age + 1
    /\ UNCHANGED <<kernel, child, child_fd, record, failure, on_done, flow, seen>>

-----------------------------------------------------------------------------
(* The parent's helpers. *)

\* Mutant: the child is killed and never waited for.
KillOnly(l) == proc' = [proc EXCEPT ![l] = "zombie"]

\* kill(), if the child still runs, and waitpid(): the child is gone.
KillAndReap(l) == proc' = [proc EXCEPT ![l] = "gone"]

\* resolve_drain(): TRUE while there may be more to read.
Drain(more) ==
    \/ /\ child_fd = 0 \/ record # NoRecord
       /\ more = FALSE
       /\ UNCHANGED <<record, pipe, failure>>
    \/ /\ child_fd # 0 /\ record = NoRecord
       /\ pipe # NoRecord
       /\ more = FALSE
       /\ record' = pipe /\ pipe' = NoRecord
       /\ UNCHANGED failure
    \/ /\ child_fd # 0 /\ record = NoRecord
       /\ pipe = NoRecord
       /\ more = (proc[child_fd] = "looking")
       /\ UNCHANGED <<record, pipe, failure>>
    \/ /\ child_fd # 0 /\ record = NoRecord
       /\ "read" \in Faults
       /\ more = FALSE
       /\ failure' = "FAILED"
       /\ UNCHANGED <<record, pipe>>

\* Mutant: the callback runs while the resolver still holds the lookup.
CompleteKeepingChild(outcome) ==
    /\ child_fd' = 0
    /\ pipe' = NoRecord
    /\ calls' = [calls EXCEPT ![on_done] = @ + 1]
    /\ verdict' = [verdict EXCEPT ![on_done] = outcome]
    /\ pc' = "callback"
    /\ UNCHANGED <<child, on_done, record, failure, phase>>

\* resolve_complete(): the resolver is left idle before the callback runs.
Complete(outcome) ==
    /\ child' = 0 /\ child_fd' = 0 /\ on_done' = 0
    /\ pipe' = NoRecord
    /\ record' = NoRecord
    /\ failure' = "OK"
    /\ calls' = [calls EXCEPT ![on_done] = @ + 1]
    /\ verdict' = [verdict EXCEPT ![on_done] = outcome]
    /\ pc' = "callback"
    /\ UNCHANGED phase

-----------------------------------------------------------------------------
(* The calls the application makes, from its loop or from a callback. *)

AtRest == pc \in {"app", "callback"}

\* inkwell_resolve_start() finds a lookup running: -EBUSY.
StartBusy(l) ==
    /\ AtRest
    /\ phase[l] = "unused"
    /\ child # 0
    /\ phase' = [phase EXCEPT ![l] = "refused"]
    /\ UNCHANGED <<kernel, lookup, flow, calls, verdict>>

\* pipe(), fork(), fcntl() or the registration with the loop fails.  A child
\* that was already forked is killed and reaped before start() returns.
StartFails(l) ==
    /\ AtRest
    /\ phase[l] = "unused"
    /\ child = 0
    /\ "start" \in Faults
    /\ phase' = [phase EXCEPT ![l] = "refused"]
    /\ \/ KillAndReap(l)
       \/ UNCHANGED proc
    /\ UNCHANGED <<answer, pipe, lookup, flow, calls, verdict>>

StartOk(l) ==
    /\ AtRest
    /\ phase[l] = "unused"
    /\ child = 0
    /\ proc' = [proc EXCEPT ![l] = "looking"]
    /\ child' = l /\ child_fd' = l /\ on_done' = l
    /\ record' = NoRecord
    /\ failure' = "OK"
    /\ age' = 0
    /\ phase' = [phase EXCEPT ![l] = "accepted"]
    /\ UNCHANGED <<answer, pipe, flow, calls, verdict>>

\* inkwell_resolve_cancel() and inkwell_resolve_shutdown(): resolve_discard().
\* What the caller has outstanding is cancelled, whatever the resolver holds.
Cancel ==
    /\ AtRest
    /\ \E l \in Lookups : phase[l] = "accepted" /\ calls[l] = 0
    /\ IF child # 0 THEN KillAndReap(child) ELSE UNCHANGED proc
    /\ child' = 0 /\ child_fd' = 0 /\ on_done' = 0
    /\ pipe' = NoRecord
    /\ record' = NoRecord
    /\ failure' = "OK"
    /\ phase' = [l \in Lookups |->
                    IF phase[l] = "accepted" /\ calls[l] = 0
                    THEN "cancelled" ELSE phase[l]]
    /\ UNCHANGED <<answer, age, flow, calls, verdict>>

\* The callback returns to the handler that completed the lookup.
CallbackReturns ==
    /\ pc = "callback"
    /\ pc' = IF caller = "tick" THEN "deadline" ELSE "app"
    /\ UNCHANGED <<kernel, lookup, caller, seen>>

-----------------------------------------------------------------------------
(* The handlers. *)

\* resolve_on_child_output(), which the loop may also call for an event that
\* is already stale.
OnChildOutput ==
    /\ pc = "app"
    /\ child_fd # 0
    /\ \E more \in BOOLEAN :
          /\ Drain(more)
          /\ pc' = IF more THEN "app" ELSE "finish"
    /\ caller' = "loop"
    /\ UNCHANGED <<proc, answer, child, child_fd, age, on_done, seen>>

\* inkwell_resolve_tick(), up to its call of resolve_try_finish().
Tick ==
    /\ pc = "app"
    /\ IF child = 0 THEN UNCHANGED flow ELSE pc' = "finish" /\ caller' = "tick"
    /\ UNCHANGED <<kernel, lookup, seen>>

\* Mutant: the descriptor stays registered at the end of the file, and the loop
\* reports it for ever.
TryFinishKeepingFd ==
    /\ pc = "finish"
    /\ \E more \in BOOLEAN : Drain(more)
    /\ pc' = "reap"
    /\ UNCHANGED <<proc, answer, child, child_fd, age, on_done, caller, seen>>

\* resolve_try_finish(): drain, and release the descriptor at the end of it.
TryFinish ==
    /\ pc = "finish"
    /\ \E more \in BOOLEAN :
          /\ Drain(more)
          /\ child_fd' = IF more THEN child_fd ELSE 0
    /\ pc' = "reap"
    /\ UNCHANGED <<proc, answer, child, age, on_done, caller, seen>>

\* resolve_try_finish(): waitpid(WNOHANG) and what follows from it.
Reap ==
    /\ pc = "reap"
    /\ \/ /\ proc[child] = "zombie"
          /\ KillAndReap(child)
          /\ Complete(ReapedOutcome)
       \/ /\ proc[child] # "zombie"
          /\ failure # "OK"
          /\ KillAndReap(child)
          /\ Complete(failure)
       \/ /\ proc[child] # "zombie"
          /\ failure = "OK"
          /\ pc' = IF caller = "tick" THEN "deadline" ELSE "app"
          /\ UNCHANGED <<proc, pipe, child, child_fd, record, failure, on_done, seen>>
    /\ UNCHANGED <<answer, age, caller>>

\* inkwell_resolve_tick(), after resolve_try_finish(): a callback may have
\* started the next lookup meanwhile, and it is that one's deadline then.
Deadline ==
    /\ pc = "deadline"
    /\ caller' = "loop"
    /\ IF child # 0 /\ age >= Timeout
       THEN KillAndReap(child) /\ Complete("TIMED_OUT")
       ELSE /\ pc' = "app"
            /\ UNCHANGED <<proc, pipe, child, child_fd, record, failure, on_done, seen>>
    /\ UNCHANGED <<answer, age>>

-----------------------------------------------------------------------------
Child == \E l \in Lookups : ChildWrites(l) \/ ChildCloses(l) \/ ChildExits(l)

App ==
    \/ \E l \in Lookups : StartBusy(l) \/ StartFails(l) \/ StartOk(l)
    \/ Cancel

Parent ==
    \/ OnChildOutput \/ Tick \/ TryFinish \/ Reap \/ Deadline \/ CallbackReturns

Next == Child \/ Clock \/ App \/ Parent

\* The application keeps calling the tick and returns from its callbacks, and
\* time passes (strongly fair, because the model holds it during a handler).
\* Nothing is assumed of the child or of the loop's events.
Fairness ==
    /\ WF_vars(Tick) /\ WF_vars(TryFinish) /\ WF_vars(Reap)
    /\ WF_vars(Deadline) /\ WF_vars(CallbackReturns)
    /\ SF_vars(Clock)

SafeSpec == Init /\ [][Next]_vars

Spec == SafeSpec /\ Fairness

-----------------------------------------------------------------------------
(* Properties. *)

\* The callback is owed for l: start() returned 0, nobody cancelled, and the
\* callback has not run.
Outstanding(l) == phase[l] = "accepted" /\ calls[l] = 0

\* No child is left running or unreaped by any path out of a lookup (answer,
\* timeout, read error, cancellation, failed start), and the pipe's descriptor
\* never outlives the child it reads from.
NothingLeaks ==
    /\ \A l \in Lookups : proc[l] \in {"looking", "exiting", "zombie"} => child = l
    /\ child_fd # 0 => child_fd = child

\* inkwell_resolve_busy() is true exactly while a callback is owed, in every
\* intermediate state of the handlers: a start() from inside a callback is
\* never refused for the lookup that has just ended, and none is overwritten.
BusyIffOwed == \A l \in Lookups : child = l <=> Outstanding(l)

\* The caller is told that a name resolves, or does not exist, only if the
\* child of that very lookup said so: a killed child, a short record or what is
\* left of an earlier lookup is never taken for an answer about the name.
VerdictFaithful ==
    \A l \in Lookups :
        verdict[l] \in {"OK", "NOT_FOUND"} =>
            /\ answer[l] # NoRecord
            /\ verdict[l] = resolve_outcome_of(answer[l])

\* "reaping without draining would throw away an answer that had already
\* arrived": when no read fails, a lookup whose child wrote its answer ends
\* with that answer or with the timeout.
AnswerNotLost ==
    \A l \in Lookups :
        calls[l] > 0 /\ answer[l] # NoRecord
            => verdict[l] \in {resolve_outcome_of(answer[l]), "TIMED_OUT"}

\* The resolver implements the one-shot request: exactly one callback for an
\* accepted lookup that is not cancelled, none for any other, and every
\* accepted lookup is settled in the end, even if its child hangs.
C == INSTANCE Completion WITH Requests <- Lookups

Completes == C!Spec
=============================================================================
