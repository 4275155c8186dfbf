--------------------------- MODULE ResolveProofs ---------------------------
(***************************************************************************)
(* Proofs about the resolver, for every set of lookups, every timeout and  *)
(* every choice of faults: its types, that no child and no descriptor      *)
(* leaks, that it is busy exactly while a callback is owed, that no        *)
(* verdict is made up, and that it implements the one-shot request.        *)
(***************************************************************************)
EXTENDS Resolve, TLAPS

\* What ties the fields of the resolver together: the callback it holds is that
\* of its child, there is a child wherever the code looks at one, and what has
\* been read is what that child wrote.
Consistent ==
    /\ on_done = child
    /\ pc \in {"finish", "reap"} => child # 0
    /\ pipe # NoRecord => child # 0 /\ pipe = answer[child]
    /\ record # NoRecord => child # 0 /\ record = answer[child]

\* What the caller has seen of each lookup, against what became of its child.
Counted ==
    \A l \in Lookups :
        /\ calls[l] \in {0, 1}
        /\ calls[l] = 1 => phase[l] = "accepted"
        /\ phase[l] = "unused" => answer[l] = NoRecord

\* The inductive invariant.
Inv == TypeOK /\ NothingLeaks /\ BusyIffOwed /\ VerdictFaithful /\ Consistent /\ Counted

\* 0, the code's -1, is no lookup.
LEMMA NoLookupIsZero == 0 \notin Lookups
BY LookupsAssumption

\* The verdict of a lookup is one of the outcomes.
LEMMA OutcomeTyped == ASSUME NEW r PROVE resolve_outcome_of(r) \in Outcomes
BY DEF resolve_outcome_of, Outcomes

\* The invariant holds before the first lookup.
LEMMA InitInv == Init => Inv
BY NoLookupIsZero, TimeoutAssumption
DEF Init, Inv, TypeOK, NothingLeaks, BusyIffOwed, Outstanding, VerdictFaithful, Consistent,
    Counted, Outcomes

\* Nothing the child does disturbs it.
LEMMA ChildInv == ASSUME Inv, Child PROVE Inv'
<1>1. PICK l \in Lookups : ChildWrites(l) \/ ChildCloses(l) \/ ChildExits(l)
  BY DEF Child
<1>2. CASE ChildWrites(l)
  <2>1. PICK r \in Records : /\ answer' = [answer EXCEPT ![l] = r]
                             /\ pipe' = IF child_fd = l THEN r ELSE pipe
    BY <1>2 DEF ChildWrites
  <2>2. UNCHANGED <<proc, child, child_fd, record, failure, age, on_done, pc, caller,
                    phase, calls, verdict>> /\ answer[l] = NoRecord /\ proc[l] = "looking"
    BY <1>2 DEF ChildWrites, lookup, flow, seen
  <2>3. TypeOK'
    BY <2>1, <2>2 DEF Inv, TypeOK
  <2>4. child = l /\ phase[l] # "unused"
    BY <2>2 DEF Inv, NothingLeaks, BusyIffOwed, Outstanding
  <2>5. NothingLeaks' /\ BusyIffOwed'
    BY <2>2 DEF Inv, NothingLeaks, BusyIffOwed, Outstanding
  <2>6. VerdictFaithful'
    BY <2>1, <2>2 DEF Inv, TypeOK, VerdictFaithful
  <2>7. Consistent'
    BY <2>1, <2>2, <2>4, NoLookupIsZero DEF Inv, TypeOK, Consistent, NothingLeaks
  <2>8. Counted'
    BY <2>1, <2>2, <2>4 DEF Inv, TypeOK, Counted
  <2> QED BY <2>3, <2>5, <2>6, <2>7, <2>8 DEF Inv
<1>3. CASE ChildCloses(l) \/ ChildExits(l)
  <2>1. /\ UNCHANGED <<answer, pipe, child, child_fd, record, failure, age, on_done, pc,
                       caller, phase, calls, verdict>>
        /\ proc[l] \in {"looking", "exiting"}
        /\ \E s \in {"exiting", "zombie"} : proc' = [proc EXCEPT ![l] = s]
    BY <1>3 DEF ChildCloses, ChildExits, lookup, flow, seen
  <2>2. TypeOK'
    BY <2>1 DEF Inv, TypeOK
  <2>3. NothingLeaks'
    BY <2>1 DEF Inv, TypeOK, NothingLeaks
  <2>4. BusyIffOwed' /\ VerdictFaithful' /\ Consistent' /\ Counted'
    BY <2>1 DEF Inv, BusyIffOwed, Outstanding, VerdictFaithful, Consistent, Counted
  <2> QED BY <2>2, <2>3, <2>4 DEF Inv
<1> QED BY <1>1, <1>2, <1>3

\* Every step that ends a lookup kills and reaps its child, leaves the resolver
\* idle and calls back: it keeps the invariant if its outcome is honest.
LEMMA CompleteInv ==
    ASSUME NEW outcome \in Outcomes, Inv, child # 0,
           KillAndReap(child), Complete(outcome),
           answer' = answer, age' = age, caller' \in {"loop", "tick"},
           outcome \in {"OK", "NOT_FOUND"} =>
               answer[child] # NoRecord /\ outcome = resolve_outcome_of(answer[child])
    PROVE  Inv'
<1>1. child \in Lookups /\ on_done = child
  BY DEF Inv, TypeOK, Consistent
<1>2. TypeOK'
  BY <1>1 DEF Inv, TypeOK, KillAndReap, Complete, NoRecord, Counted
<1>3. NothingLeaks'
  BY <1>1 DEF Inv, TypeOK, KillAndReap, Complete, NothingLeaks
<1>4. BusyIffOwed'
  BY <1>1, NoLookupIsZero DEF Inv, TypeOK, Complete, BusyIffOwed, Outstanding, Counted
<1>5. VerdictFaithful'
  BY <1>1 DEF Inv, TypeOK, Complete, VerdictFaithful
<1>6. Consistent' /\ Counted'
  BY <1>1 DEF Inv, TypeOK, Complete, Consistent, Counted, BusyIffOwed, Outstanding
<1> QED BY <1>2, <1>3, <1>4, <1>5, <1>6 DEF Inv

\* Reading the pipe keeps the record the child's own, whether or not the
\* descriptor is then released.
LEMMA DrainInv ==
    ASSUME NEW more \in BOOLEAN, Inv, Drain(more), child # 0,
           child_fd' \in {child_fd, 0},
           pc' \in {"app", "finish", "reap"}, caller' \in {"loop", "tick"},
           UNCHANGED <<proc, answer, child, age, on_done, phase, calls, verdict>>
    PROVE  Inv'
<1>1. TypeOK'
  BY DEF Inv, TypeOK, Drain
<1>2. NothingLeaks' /\ BusyIffOwed' /\ VerdictFaithful' /\ Counted'
  BY DEF Inv, NothingLeaks, BusyIffOwed, Outstanding, VerdictFaithful, Counted
<1>3. Consistent'
  BY DEF Inv, Drain, Consistent
<1> QED BY <1>1, <1>2, <1>3 DEF Inv

\* No call of the application disturbs the invariant, from a callback or not.
LEMMA AppInv == ASSUME Inv, App PROVE Inv'
<1>1. CASE \E l \in Lookups : StartBusy(l) \/ StartFails(l)
  <2>1. PICK l \in Lookups : StartBusy(l) \/ StartFails(l)
    BY <1>1
  <2>2. /\ phase[l] = "unused" /\ phase' = [phase EXCEPT ![l] = "refused"]
        /\ proc' = proc \/ proc' = [proc EXCEPT ![l] = "gone"]
        /\ UNCHANGED <<answer, pipe, child, child_fd, record, failure, age, on_done, pc,
                       caller, calls, verdict>>
    BY <2>1 DEF StartBusy, StartFails, KillAndReap, kernel, lookup, flow
  <2>3. TypeOK'
    BY <2>2 DEF Inv, TypeOK
  <2>4. NothingLeaks' /\ VerdictFaithful' /\ Consistent'
    BY <2>2 DEF Inv, TypeOK, NothingLeaks, VerdictFaithful, Consistent
  <2>5. BusyIffOwed' /\ Counted'
    BY <2>2 DEF Inv, TypeOK, BusyIffOwed, Outstanding, Counted
  <2> QED BY <2>3, <2>4, <2>5 DEF Inv
<1>2. CASE \E l \in Lookups : StartOk(l)
  <2>1. PICK l \in Lookups : StartOk(l)
    BY <1>2
  <2>2. TypeOK'
    BY <2>1, TimeoutAssumption DEF Inv, TypeOK, StartOk, flow
  <2>3. NothingLeaks' /\ VerdictFaithful' /\ Consistent'
    BY <2>1, NoLookupIsZero
    DEF Inv, TypeOK, StartOk, flow, NothingLeaks, VerdictFaithful, Consistent
  <2>4. BusyIffOwed' /\ Counted'
    BY <2>1, NoLookupIsZero DEF Inv, TypeOK, StartOk, BusyIffOwed, Outstanding, Counted
  <2> QED BY <2>2, <2>3, <2>4 DEF Inv
<1>3. CASE Cancel
  <2>1. proc' = [l \in Lookups |-> IF l = child THEN "gone" ELSE proc[l]]
    BY <1>3, NoLookupIsZero DEF Inv, TypeOK, Cancel, KillAndReap
  <2>2. TypeOK'
    BY <1>3, <2>1 DEF Inv, TypeOK, Cancel, flow
  <2>3. NothingLeaks' /\ VerdictFaithful' /\ Consistent'
    BY <1>3, <2>1
    DEF Inv, TypeOK, Cancel, AtRest, flow, NothingLeaks, VerdictFaithful, Consistent
  <2>4. BusyIffOwed' /\ Counted'
    BY <1>3, NoLookupIsZero DEF Inv, TypeOK, Cancel, BusyIffOwed, Outstanding, Counted
  <2> QED BY <2>2, <2>3, <2>4 DEF Inv
<1> QED BY <1>1, <1>2, <1>3 DEF App

\* None of the handlers does.
LEMMA ParentInv == ASSUME Inv, Parent PROVE Inv'
<1>1. CASE OnChildOutput
  <2>1. child # 0
    BY <1>1 DEF OnChildOutput, Inv, NothingLeaks
  <2>2. PICK more \in BOOLEAN : Drain(more) /\ pc' = IF more THEN "app" ELSE "finish"
    BY <1>1 DEF OnChildOutput
  <2> QED BY <1>1, <2>1, <2>2, DrainInv DEF OnChildOutput, seen
<1>2. CASE TryFinish
  <2>1. child # 0
    BY <1>2 DEF TryFinish, Inv, Consistent
  <2>2. PICK more \in BOOLEAN : Drain(more) /\ child_fd' = IF more THEN child_fd ELSE 0
    BY <1>2 DEF TryFinish
  <2>3. caller' \in {"loop", "tick"}
    BY <1>2 DEF TryFinish, Inv, TypeOK
  <2> QED BY <1>2, <2>1, <2>2, <2>3, DrainInv DEF TryFinish, seen
<1>3. CASE Reap
  <2>1. child # 0 /\ caller' \in {"loop", "tick"} /\ answer' = answer /\ age' = age
    BY <1>3 DEF Reap, Inv, TypeOK, Consistent
  <2>2. CASE KillAndReap(child) /\ Complete(ReapedOutcome)
    <3>1. ReapedOutcome \in Outcomes
      BY OutcomeTyped DEF ReapedOutcome, Inv, TypeOK, Outcomes
    <3>2. ReapedOutcome \in {"OK", "NOT_FOUND"} =>
             answer[child] # NoRecord /\ ReapedOutcome = resolve_outcome_of(answer[child])
      BY DEF ReapedOutcome, Inv, TypeOK, Consistent
    <3> QED BY <2>1, <2>2, <3>1, <3>2, CompleteInv
  <2>3. CASE failure # "OK" /\ KillAndReap(child) /\ Complete(failure)
    <3>1. failure = "FAILED" /\ failure \in Outcomes
      BY <2>3 DEF Inv, TypeOK, Outcomes
    <3> QED BY <2>1, <2>3, <3>1, CompleteInv
  <2>4. CASE /\ pc' = IF caller = "tick" THEN "deadline" ELSE "app"
             /\ UNCHANGED <<proc, pipe, child, child_fd, record, failure, on_done, seen>>
    <3>1. TypeOK'
      BY <1>3, <2>1, <2>4 DEF Inv, TypeOK, seen
    <3>2. NothingLeaks' /\ BusyIffOwed' /\ VerdictFaithful' /\ Consistent' /\ Counted'
      BY <2>1, <2>4
      DEF Inv, NothingLeaks, BusyIffOwed, Outstanding, VerdictFaithful, Consistent, Counted, seen
    <3> QED BY <3>1, <3>2 DEF Inv
  <2> QED BY <1>3, <2>2, <2>3, <2>4 DEF Reap
<1>4. CASE Deadline
  <2>1. CASE child # 0 /\ age >= Timeout
    <3>1. "TIMED_OUT" \in Outcomes
      BY DEF Outcomes
    <3> QED BY <1>4, <2>1, <3>1, CompleteInv DEF Deadline
  <2>2. CASE ~(child # 0 /\ age >= Timeout)
    <3>1. pc' = "app" /\ caller' = "loop" /\ answer' = answer /\ age' = age
          /\ UNCHANGED <<proc, pipe, child, child_fd, record, failure, on_done,
                         phase, calls, verdict>>
      BY <1>4, <2>2 DEF Deadline, seen
    <3>2. TypeOK'
      BY <3>1 DEF Inv, TypeOK
    <3>3. NothingLeaks' /\ BusyIffOwed' /\ VerdictFaithful' /\ Consistent' /\ Counted'
      BY <3>1
      DEF Inv, NothingLeaks, BusyIffOwed, Outstanding, VerdictFaithful, Consistent, Counted
    <3> QED BY <3>2, <3>3 DEF Inv
  <2> QED BY <2>1, <2>2
<1>5. CASE Tick \/ CallbackReturns
  <2>1. /\ pc' \in {"app", "callback", "deadline"} \/ (pc' = "finish" /\ child # 0)
           \/ pc' = pc
        /\ caller' \in {"loop", "tick"}
        /\ UNCHANGED <<proc, answer, pipe, child, child_fd, record, failure, age, on_done,
                       phase, calls, verdict>>
    BY <1>5 DEF Tick, CallbackReturns, Inv, TypeOK, flow, kernel, lookup, seen
  <2>2. TypeOK'
    BY <2>1 DEF Inv, TypeOK
  <2>3. NothingLeaks' /\ BusyIffOwed' /\ VerdictFaithful' /\ Consistent' /\ Counted'
    BY <2>1
    DEF Inv, NothingLeaks, BusyIffOwed, Outstanding, VerdictFaithful, Consistent, Counted
  <2> QED BY <2>2, <2>3 DEF Inv
<1> QED BY <1>1, <1>2, <1>3, <1>4, <1>5 DEF Parent

\* Neither does the clock, nor a step that changes nothing.
LEMMA QuietInv == ASSUME Inv, Clock \/ UNCHANGED vars PROVE Inv'
<1>1. /\ age' \in 0 .. Timeout
      /\ UNCHANGED <<proc, answer, pipe, child, child_fd, record, failure, on_done, pc,
                     caller, phase, calls, verdict>>
  BY TimeoutAssumption DEF Inv, TypeOK, Clock, vars, kernel, lookup, flow, seen
<1>2. TypeOK'
  BY <1>1 DEF Inv, TypeOK
<1>3. NothingLeaks' /\ BusyIffOwed' /\ VerdictFaithful' /\ Consistent' /\ Counted'
  BY <1>1
  DEF Inv, NothingLeaks, BusyIffOwed, Outstanding, VerdictFaithful, Consistent, Counted
<1> QED BY <1>2, <1>3 DEF Inv

\* The invariant is one of the resolver.
THEOREM Invariant == SafeSpec => []Inv
<1>1. Inv /\ [Next]_vars => Inv'
  BY ChildInv, AppInv, ParentInv, QuietInv DEF Next
<1> QED BY <1>1, InitInv, PTL DEF SafeSpec

\* The resolver keeps the types of its state.
THEOREM TypeCorrect == SafeSpec => []TypeOK
BY Invariant, PTL DEF Inv

\* resolve_discard(), resolve_complete() and a failed start leave no child
\* unreaped and no descriptor open, however many lookups there are.
THEOREM NoLeak == SafeSpec => []NothingLeaks
BY Invariant, PTL DEF Inv

\* inkwell_resolve_busy() says exactly whether a callback is owed.
THEOREM BusyExact == SafeSpec => []BusyIffOwed
BY Invariant, PTL DEF Inv

\* No verdict about a name is made up: resolve_complete() passes on what the
\* child of that lookup wrote.
THEOREM VerdictsFaithful == SafeSpec => []VerdictFaithful
BY Invariant, PTL DEF Inv

-----------------------------------------------------------------------------
(* The resolver implements the one-shot request. *)

\* A callback is an answer to the one request that is outstanding.
LEMMA CompleteAnswers ==
    ASSUME Inv, child # 0, NEW outcome, Complete(outcome)
    PROVE  C!Next
<1>1. child \in Lookups /\ on_done = child /\ Outstanding(child)
  BY DEF Inv, TypeOK, Consistent, BusyIffOwed
<1>2. calls' = [calls EXCEPT ![child] = 1]
  BY <1>1 DEF Complete, Outstanding, Inv, TypeOK
<1>3. C!Answer(child)
  BY <1>1, <1>2 DEF Complete, C!Answer, C!Outstanding, Outstanding
<1> QED BY <1>1, <1>3 DEF C!Next, C!Settle

\* Every step of the resolver is a step of the request, or is not seen.
LEMMA StepRefines == ASSUME Inv, [Next]_vars PROVE [C!Next]_(C!vars)
<1>1. CASE Child \/ Clock \/ UNCHANGED vars
  <2>1. UNCHANGED <<phase, calls>>
    BY <1>1 DEF Child, ChildWrites, ChildCloses, ChildExits, Clock, vars, seen
  <2> QED BY <2>1 DEF C!vars
<1>2. CASE \E l \in Lookups : StartBusy(l) \/ StartFails(l)
  <2>1. PICK l \in Lookups : C!Refuse(l)
    BY <1>2 DEF StartBusy, StartFails, C!Refuse
  <2> QED BY <2>1 DEF C!Next
<1>3. CASE \E l \in Lookups : StartOk(l)
  <2>1. PICK l \in Lookups : StartOk(l)
    BY <1>3
  <2>2. \A q \in Lookups : ~C!Outstanding(q)
    BY <2>1, NoLookupIsZero DEF StartOk, Inv, BusyIffOwed, Outstanding, C!Outstanding
  <2>3. C!Accept(l)
    BY <2>1, <2>2 DEF StartOk, C!Accept
  <2> QED BY <2>3 DEF C!Next
<1>4. CASE Cancel
  <2>1. PICK l \in Lookups : Outstanding(l)
    BY <1>4 DEF Cancel, Outstanding
  <2>2. \A k \in Lookups : Outstanding(k) <=> k = l
    BY <2>1 DEF Inv, BusyIffOwed
  <2>3. phase' = [phase EXCEPT ![l] = "cancelled"]
    BY <1>4, <2>2 DEF Cancel, Outstanding, Inv, TypeOK
  <2>4. C!Cancel(l)
    BY <1>4, <2>1, <2>3 DEF Cancel, C!Cancel, C!Outstanding, Outstanding
  <2> QED BY <2>4 DEF C!Next, C!Settle
<1>5. CASE OnChildOutput \/ Tick \/ TryFinish \/ CallbackReturns
  <2>1. UNCHANGED <<phase, calls>>
    BY <1>5 DEF OnChildOutput, Tick, TryFinish, CallbackReturns, seen
  <2> QED BY <2>1 DEF C!vars
<1>6. CASE Reap
  <2>1. child # 0
    BY <1>6 DEF Reap, Inv, Consistent
  <2>2. CASE Complete(ReapedOutcome) \/ Complete(failure)
    BY <2>1, <2>2, CompleteAnswers
  <2>3. CASE UNCHANGED <<proc, pipe, child, child_fd, record, failure, on_done, seen>>
    BY <2>3 DEF C!vars, seen
  <2> QED BY <1>6, <2>2, <2>3 DEF Reap
<1>7. CASE Deadline
  <2>1. CASE child # 0 /\ age >= Timeout
    BY <1>7, <2>1, CompleteAnswers DEF Deadline
  <2>2. CASE ~(child # 0 /\ age >= Timeout)
    BY <1>7, <2>2 DEF Deadline, C!vars, seen
  <2> QED BY <2>1, <2>2
<1> QED BY <1>1, <1>2, <1>3, <1>4, <1>5, <1>6, <1>7 DEF Next, App, Parent

\* The callback of an accepted lookup runs exactly once unless it is cancelled,
\* that of a refused one never, and one lookup is outstanding at a time: the
\* safety half of Completes, for every value of the constants.
THEOREM Implements == SafeSpec => C!SafeSpec
<1>1. Init => C!Init
  BY DEF Init, C!Init
<1> QED BY <1>1, StepRefines, Invariant, PTL DEF SafeSpec, C!SafeSpec

=============================================================================
