------------------------- MODULE TcpConnectorProofs -------------------------
(***************************************************************************)
(* Proofs about the TCP connector, for every set of attempts and every     *)
(* timeout: that each socket, watch and lookup has its one owner on every  *)
(* path out of an attempt, and that the connector implements the one-shot  *)
(* request.                                                                *)
(***************************************************************************)
EXTENDS TcpConnector, TLAPS

\* start() is on the stack and has not returned yet, so that the caller of the
\* attempt knows nothing of it.
InStart == pc = "connect" /\ from = "start"

\* How the fields of the connector go together: a callback is held while there
\* is an attempt, the socket is the attempt's, and the loop's watch is on it.
Fields ==
    /\ on_done = 0 <=> state = "IDLE"
    /\ state = "CONNECTING" => socket = on_done
    /\ state # "CONNECTING" => socket = 0
    /\ token = IF loop THEN socket ELSE 0
    /\ pc \in {"connect", "finish"} => state = "CONNECTING"

\* What the caller has seen of each attempt.
Counted ==
    \A a \in Attempts :
        /\ calls[a] \in {0, 1}
        /\ calls[a] = 1 => phase[a] = "accepted"
        /\ result[a] # "none" => calls[a] = 1

\* The callback the connector holds is the one that is owed.
HoldsOwed ==
    \A a \in Attempts :
        /\ phase[a] = "accepted" /\ calls[a] = 0 <=> on_done = a /\ ~InStart
        /\ on_done = a /\ InStart => phase[a] = "unused"

\* The inductive invariant.
Inv == ResourcesOwned /\ Fields /\ Counted /\ HoldsOwed

\* 0, the code's "none", is no attempt.
LEMMA NoAttemptIsZero == 0 \notin Attempts
BY AttemptsAssumption

\* The connector as it is initialised.
LEMMA InitInv == Init => Inv
<1> SUFFICES ASSUME Init PROVE Inv
  OBVIOUS
<1>1. TypeOK
  BY TcpTimeoutAssumption DEF Init, TypeOK
<1>2. SocketsOwned /\ WatchedWhileConnecting /\ LookupIffResolving
  BY NoAttemptIsZero
  DEF Init, SocketsOwned, WatchedWhileConnecting, LookupIffResolving
<1>3. Fields /\ Counted /\ HoldsOwed
  BY NoAttemptIsZero DEF Init, Fields, Counted, HoldsOwed, InStart
<1> QED BY <1>1, <1>2, <1>3 DEF Inv, ResourcesOwned

\* The attempt whose callback the connector holds has had no answer.
LEMMA HeldIsOpen ==
    ASSUME Inv, state # "IDLE"
    PROVE  /\ on_done \in Attempts
           /\ calls[on_done] = 0
           /\ result[on_done] = "none"
           /\ ~InStart => phase[on_done] = "accepted"
<1>1. on_done \in Attempts
  BY DEF Inv, ResourcesOwned, TypeOK, Fields
<1>2. calls[on_done] = 0
  BY <1>1 DEF Inv, Counted, HoldsOwed, InStart
<1> QED BY <1>1, <1>2 DEF Inv, ResourcesOwned, TypeOK, Counted, HoldsOwed

\* Every step that tells the callback of a failure closes the socket, if there
\* is one, and leaves the connector idle.
LEMMA FailureInv ==
    ASSUME Inv, state # "IDLE", ~InStart, complete_failure,
           lookup' = FALSE, loop' = loop, conn' = conn, caller' \in {"loop", "tick"}
    PROVE  Inv'
<1>1. on_done \in Attempts /\ calls[on_done] = 0 /\ phase[on_done] = "accepted"
  BY HeldIsOpen
<1>2. TypeOK'
  <2>1. open' \in SUBSET Attempts
    BY DEF Inv, ResourcesOwned, TypeOK, complete_failure, drop_socket
  <2>2. calls' \in [Attempts -> Nat] /\ result' \in [Attempts -> {"none", "connected", "failed"}]
    BY <1>1 DEF Inv, ResourcesOwned, TypeOK, complete_failure, Call
  <2>3. lookup' \in BOOLEAN /\ nested' \in BOOLEAN
    BY DEF complete_failure, Call
  <2> QED
    BY <2>1, <2>2, <2>3
    DEF Inv, ResourcesOwned, TypeOK, complete_failure, drop_socket, clear_attempt, Call
<1>3. SocketsOwned'
  BY <1>1, HeldIsOpen, NoAttemptIsZero
  DEF Inv, ResourcesOwned, TypeOK, SocketsOwned, complete_failure, drop_socket,
      clear_attempt, Call, Fields
<1>4. WatchedWhileConnecting' /\ LookupIffResolving'
  BY DEF WatchedWhileConnecting, LookupIffResolving, complete_failure, drop_socket,
         clear_attempt
<1>6. Fields'
  BY DEF Fields, complete_failure, drop_socket, clear_attempt, Call
<1>7. Counted'
  BY <1>1 DEF Inv, ResourcesOwned, TypeOK, Counted, complete_failure, Call
<1>8. HoldsOwed'
  BY <1>1, NoAttemptIsZero
  DEF Inv, ResourcesOwned, TypeOK, HoldsOwed, InStart, complete_failure, clear_attempt, Call
<1> QED BY <1>2, <1>3, <1>4, <1>6, <1>7, <1>8 DEF Inv, ResourcesOwned

\* A step that tells it of a success hands over the attempt's socket.
LEMMA SuccessInv ==
    ASSUME Inv, state = "CONNECTING", ~InStart, complete_success,
           lookup' = lookup, loop' = loop, conn' = conn, caller' \in {"loop", "tick"}
    PROVE  Inv'
<1>1. /\ on_done \in Attempts /\ calls[on_done] = 0 /\ phase[on_done] = "accepted"
      /\ socket = on_done
  BY HeldIsOpen DEF Inv, Fields
<1>2. TypeOK'
  BY <1>1 DEF Inv, ResourcesOwned, TypeOK, complete_success, clear_attempt, Call, Unarmed
<1>3. SocketsOwned'
  BY <1>1, NoAttemptIsZero
  DEF Inv, ResourcesOwned, TypeOK, SocketsOwned, complete_success, clear_attempt, Call
<1>4. WatchedWhileConnecting' /\ LookupIffResolving'
  BY DEF Inv, ResourcesOwned, WatchedWhileConnecting, LookupIffResolving, complete_success,
         clear_attempt
<1>6. Fields'
  BY DEF Fields, complete_success, clear_attempt, Call
<1>7. Counted'
  BY <1>1 DEF Inv, ResourcesOwned, TypeOK, Counted, complete_success, Call
<1>8. HoldsOwed'
  BY <1>1, NoAttemptIsZero
  DEF Inv, ResourcesOwned, TypeOK, HoldsOwed, InStart, complete_success, clear_attempt, Call
<1> QED BY <1>2, <1>3, <1>4, <1>6, <1>7, <1>8 DEF Inv, ResourcesOwned

\* tcp_finish_connect(), however the connect() stands.
LEMMA FinishInv ==
    ASSUME Inv, state = "CONNECTING", ~InStart,
           finish_connect, UNCHANGED <<loop, lookup, conn, caller>>
    PROVE  Inv'
<1>1. lookup' = FALSE /\ caller' \in {"loop", "tick"}
  BY DEF Inv, ResourcesOwned, TypeOK, LookupIffResolving
<1> QED BY <1>1, FailureInv, SuccessInv DEF finish_connect, PendingError

-----------------------------------------------------------------------------
(* The calls of the application. *)

\* A refused start() changes nothing but what its caller knows.
LEMMA RefusedInv ==
    ASSUME Inv, NEW a \in Attempts, StartBusy(a) \/ StartFails(a)
    PROVE  Inv'
<1>1. /\ AtRest /\ phase[a] = "unused" /\ phase' = [phase EXCEPT ![a] = "refused"]
      /\ UNCHANGED <<loop, state, socket, token, on_done, lookup, open, conn, pc, from,
                     caller, nested, calls, result>>
      /\ timer' \in {timer, Unarmed}
  BY DEF StartBusy, StartFails, clear_attempt, attempt, world, flow, Inv, Fields
<1>2. TypeOK'
  BY <1>1 DEF Inv, ResourcesOwned, TypeOK
<1>3. /\ SocketsOwned' /\ WatchedWhileConnecting' /\ LookupIffResolving'
      /\ Fields'
  BY <1>1
  DEF Inv, ResourcesOwned, SocketsOwned, WatchedWhileConnecting, AtRest, LookupIffResolving,
      Fields
<1>4. Counted' /\ HoldsOwed'
  BY <1>1 DEF Inv, ResourcesOwned, TypeOK, Counted, HoldsOwed, InStart, AtRest
<1> QED BY <1>2, <1>3, <1>4 DEF Inv, ResourcesOwned

\* start() with a numeric address, up to its connect().
LEMMA StartLiteralInv == ASSUME Inv, NEW a \in Attempts, StartLiteral(a) PROVE Inv'
<1>1. calls[a] = 0 /\ result[a] = "none" /\ socket = 0 /\ on_done = 0 /\ ~InStart
  BY DEF Inv, ResourcesOwned, TypeOK, StartLiteral, Counted, Fields, InStart, AtRest
<1>2. open' = open \cup {a} /\ open' \in SUBSET Attempts
  BY DEF Inv, ResourcesOwned, TypeOK, StartLiteral, open_socket
<1>3. TypeOK'
  BY <1>2, TcpTimeoutAssumption
  DEF Inv, ResourcesOwned, TypeOK, StartLiteral, open_socket, seen
<1>4. SocketsOwned'
  BY <1>1, <1>2, NoAttemptIsZero
  DEF Inv, ResourcesOwned, SocketsOwned, StartLiteral, open_socket, seen
<1>5. WatchedWhileConnecting' /\ LookupIffResolving'
  BY DEF Inv, ResourcesOwned, WatchedWhileConnecting, AtRest, LookupIffResolving,
         StartLiteral, open_socket
<1>6. Fields' /\ Counted'
  BY NoAttemptIsZero DEF Inv, Fields, Counted, StartLiteral, open_socket, seen
<1>7. HoldsOwed'
  BY <1>1, NoAttemptIsZero DEF Inv, HoldsOwed, InStart, StartLiteral, open_socket, seen
<1> QED BY <1>3, <1>4, <1>5, <1>6, <1>7 DEF Inv, ResourcesOwned

\* start() with a name.
LEMMA StartNameInv == ASSUME Inv, NEW a \in Attempts, StartName(a) PROVE Inv'
<1>1. calls[a] = 0 /\ result[a] = "none" /\ socket = 0 /\ on_done = 0 /\ ~InStart /\ ~InStart'
  BY DEF Inv, ResourcesOwned, TypeOK, StartName, Counted, Fields, InStart, AtRest, flow
<1>2. TypeOK'
  BY DEF Inv, ResourcesOwned, TypeOK, StartName, world, flow
<1>3. SocketsOwned'
  BY DEF Inv, ResourcesOwned, SocketsOwned, StartName, world
<1>4. WatchedWhileConnecting' /\ LookupIffResolving'
  BY <1>1
  DEF Inv, ResourcesOwned, WatchedWhileConnecting, LookupIffResolving, StartName, Fields
<1>5. Fields' /\ Counted'
  BY <1>1, NoAttemptIsZero
  DEF Inv, ResourcesOwned, TypeOK, Fields, Counted, StartName, AtRest, flow, world
<1>6. HoldsOwed'
  BY <1>1, NoAttemptIsZero
  DEF Inv, ResourcesOwned, TypeOK, HoldsOwed, StartName
<1> QED BY <1>2, <1>3, <1>4, <1>5, <1>6 DEF Inv, ResourcesOwned

\* cancel() and shutdown() end the attempt in any state it can be in.
LEMMA CancelInv == ASSUME Inv, Cancel \/ Shutdown PROVE Inv'
<1>1. /\ pc \in {"app", "callback"} /\ pc' \in {"app", "callback", "down"}
      /\ lookup' = FALSE /\ loop' \in {loop, FALSE} /\ drop_socket /\ clear_attempt
      /\ UNCHANGED <<conn, from, caller, nested, calls, result>>
      /\ phase' = [a \in Attempts |-> IF phase[a] = "accepted" /\ calls[a] = 0
                                      THEN "cancelled" ELSE phase[a]]
  BY DEF Cancel, Shutdown, AtRest, flow
<1>2. open' = open \ {socket} /\ open' \in SUBSET Attempts
  BY <1>1 DEF Inv, ResourcesOwned, TypeOK, drop_socket
<1>3. loop' \in BOOLEAN /\ lookup' \in BOOLEAN
  BY <1>1 DEF Inv, ResourcesOwned, TypeOK
<1>4. TypeOK'
  BY <1>1, <1>2, <1>3 DEF Inv, ResourcesOwned, TypeOK, drop_socket, clear_attempt
<1>5. SocketsOwned'
  BY <1>1, <1>2, NoAttemptIsZero
  DEF Inv, ResourcesOwned, SocketsOwned, drop_socket
<1>6. WatchedWhileConnecting' /\ LookupIffResolving' /\ Fields'
  BY <1>1
  DEF WatchedWhileConnecting, LookupIffResolving, Fields, drop_socket, clear_attempt
<1>7. Counted' /\ HoldsOwed'
  BY <1>1, NoAttemptIsZero
  DEF Inv, ResourcesOwned, TypeOK, Counted, HoldsOwed, InStart, clear_attempt
<1> QED BY <1>4, <1>5, <1>6, <1>7 DEF Inv, ResourcesOwned

-----------------------------------------------------------------------------
(* The rest of tcp_open(). *)

\* connect() fails: a refusal to start(), a failure to the resolver.
LEMMA ConnectFailsInv == ASSUME Inv, ConnectFails PROVE Inv'
<1>1. state = "CONNECTING" /\ on_done \in Attempts /\ socket = on_done /\ lookup = FALSE
  BY DEF Inv, ResourcesOwned, TypeOK, LookupIffResolving, Fields, ConnectFails
<1>2. CASE from = "start"
  <2>1. /\ drop_socket /\ clear_attempt /\ phase' = [phase EXCEPT ![on_done] = "refused"]
        /\ pc' = Resume /\ UNCHANGED <<loop, lookup, conn, from, caller, nested, calls, result>>
        /\ InStart /\ phase[on_done] = "unused"
    BY <1>1, <1>2 DEF ConnectFails, InStart, Inv, HoldsOwed
  <2>2. pc' \in {"app", "callback", "deadline"}
    BY <2>1 DEF Resume
  <2>3. open' = open \ {socket} /\ open' \in SUBSET Attempts
    BY <2>1 DEF Inv, ResourcesOwned, TypeOK, drop_socket
  <2>4. TypeOK'
    BY <1>1, <2>1, <2>2, <2>3 DEF Inv, ResourcesOwned, TypeOK, drop_socket, clear_attempt
  <2>5. SocketsOwned'
    BY <2>1, <2>3, NoAttemptIsZero
    DEF Inv, ResourcesOwned, SocketsOwned, drop_socket
  <2>6. WatchedWhileConnecting' /\ LookupIffResolving' /\ Fields'
    BY <1>1, <2>1, <2>2
    DEF WatchedWhileConnecting, LookupIffResolving, Fields, drop_socket, clear_attempt
  <2>7. Counted' /\ HoldsOwed'
    BY <1>1, <2>1, <2>2, NoAttemptIsZero
    DEF Inv, ResourcesOwned, TypeOK, Counted, HoldsOwed, InStart, clear_attempt
  <2> QED BY <2>4, <2>5, <2>6, <2>7 DEF Inv, ResourcesOwned
<1>3. CASE from # "start"
  BY <1>1, <1>3, FailureInv DEF ConnectFails, InStart, Inv, ResourcesOwned, TypeOK
<1> QED BY <1>2, <1>3

\* connect() is under way, or through: start() has accepted the attempt.
LEMMA ConnectGoesOnInv == ASSUME Inv, ConnectPending \/ ConnectAtOnce PROVE Inv'
<1>1. PICK c \in {"pending", "ok"} :
         /\ conn' = [conn EXCEPT ![socket] = c]
         /\ pc' \in {"app", "callback", "deadline", "finish"}
         /\ pc' = "finish" => c = "ok"
  BY DEF ConnectPending, ConnectAtOnce, Resume
<1>2. /\ pc = "connect" /\ Accepted
      /\ UNCHANGED <<loop, state, socket, token, timer, on_done, lookup, open, from, caller,
                     nested, calls, result>>
  BY DEF ConnectPending, ConnectAtOnce, attempt
<1>3. /\ state = "CONNECTING" /\ on_done \in Attempts /\ socket = on_done
      /\ calls[on_done] = 0 /\ result[on_done] = "none"
  BY <1>2, HeldIsOpen DEF Inv, Fields
<1>4. phase' = [phase EXCEPT ![on_done] = "accepted"]
  BY <1>2, <1>3, HeldIsOpen DEF Accepted, InStart, Inv, ResourcesOwned, TypeOK
<1>5. TypeOK'
  BY <1>1, <1>2, <1>3, <1>4 DEF Inv, ResourcesOwned, TypeOK
<1>6. SocketsOwned'
  BY <1>1, <1>2, <1>3
  DEF Inv, ResourcesOwned, TypeOK, SocketsOwned
<1>7. WatchedWhileConnecting' /\ LookupIffResolving' /\ Fields'
  BY <1>1, <1>2, <1>3, NoAttemptIsZero
  DEF Inv, ResourcesOwned, TypeOK, WatchedWhileConnecting, LookupIffResolving, Fields
<1>8. Counted' /\ HoldsOwed'
  BY <1>1, <1>2, <1>3, <1>4
  DEF Inv, ResourcesOwned, TypeOK, Counted, HoldsOwed, InStart
<1> QED BY <1>5, <1>6, <1>7, <1>8 DEF Inv, ResourcesOwned

-----------------------------------------------------------------------------
(* What the loop and the tick bring. *)

\* The resolver calls back: the connect begins, or the attempt fails.
LEMMA OnResolvedInv == ASSUME Inv, NEW ok \in BOOLEAN, OnResolved(ok) PROVE Inv'
<1>1. /\ state = "RESOLVING" /\ socket = 0 /\ loop' = loop /\ lookup' = FALSE
      /\ conn' = conn /\ caller' = caller /\ ~InStart
  BY DEF OnResolved, Inv, ResourcesOwned, LookupIffResolving, Fields, InStart
<1>2. on_done \in Attempts /\ result[on_done] = "none" /\ on_done # 0
  BY <1>1, HeldIsOpen, NoAttemptIsZero
<1>3. CASE ok
  <2>1. /\ open_socket(on_done) /\ timer' = Unarmed /\ from' = "resolver"
        /\ UNCHANGED <<on_done, nested, phase, calls, result>>
    BY <1>1, <1>3 DEF OnResolved, seen
  <2>2. open' = open \cup {on_done} /\ open' \in SUBSET Attempts
    BY <1>2, <2>1 DEF Inv, ResourcesOwned, TypeOK, open_socket
  <2>3. TypeOK'
    BY <1>1, <1>2, <2>1, <2>2 DEF Inv, ResourcesOwned, TypeOK, open_socket
  <2>4. SocketsOwned'
    BY <1>1, <1>2, <2>1, <2>2, NoAttemptIsZero
    DEF Inv, ResourcesOwned, SocketsOwned, open_socket
  <2>5. WatchedWhileConnecting' /\ LookupIffResolving' /\ Fields'
    BY <1>1, <1>2, <2>1
    DEF WatchedWhileConnecting, AtRest, LookupIffResolving, Fields, open_socket
  <2>6. Counted' /\ HoldsOwed'
    BY <1>1, <2>1 DEF Inv, Counted, HoldsOwed, InStart, open_socket
  <2> QED BY <2>3, <2>4, <2>5, <2>6 DEF Inv, ResourcesOwned
<1>4. CASE ~ok
  <2>1. complete_failure
    BY <1>1, <1>4 DEF OnResolved
  <2> QED BY <1>1, <2>1, FailureInv DEF Inv, ResourcesOwned, TypeOK
<1> QED BY <1>3, <1>4

\* Steps that change neither an attempt nor what its caller knows: the thread
\* moves, time passes, or the deadline is set.
LEMMA QuietInv ==
    ASSUME Inv,
           UNCHANGED <<loop, state, socket, token, on_done, lookup, open, conn, from, phase,
                       calls, result>>,
           timer' \in (0 .. Timeout) \cup {Unarmed},
           \/ pc' = pc
           \/ pc # "connect" /\ pc' \in {"app", "resolve_tick", "deadline"},
           caller' \in {"loop", "tick"}, nested' \in BOOLEAN
    PROVE  Inv'
<1>1. TypeOK'
  BY DEF Inv, ResourcesOwned, TypeOK
<1>2. SocketsOwned' /\ WatchedWhileConnecting' /\ LookupIffResolving'
  BY NoAttemptIsZero
  DEF Inv, ResourcesOwned, TypeOK, SocketsOwned, WatchedWhileConnecting,
      LookupIffResolving, Fields
<1>3. Fields' /\ Counted' /\ HoldsOwed'
  BY DEF Inv, Fields, Counted, HoldsOwed, InStart
<1> QED BY <1>1, <1>2, <1>3 DEF Inv, ResourcesOwned

\* The network settles a connect(), of this attempt or of one handed over.
LEMMA NetworkInv == ASSUME Inv, NEW a \in Attempts, Network(a) PROVE Inv'
<1>1. PICK c \in {"ok", "refused"} : conn' = [conn EXCEPT ![a] = c]
  BY DEF Network
<1>2. /\ conn[a] = "pending"
      /\ UNCHANGED <<loop, state, socket, token, timer, on_done, lookup, open, pc, from,
                     caller, nested, phase, calls, result>>
  BY DEF Network, attempt, flow, seen
<1>3. TypeOK'
  BY <1>1, <1>2 DEF Inv, ResourcesOwned, TypeOK
<1>4. SocketsOwned' /\ WatchedWhileConnecting' /\ LookupIffResolving'
  BY <1>2
  DEF Inv, ResourcesOwned, SocketsOwned, WatchedWhileConnecting, AtRest, LookupIffResolving
<1>5. Fields'
  BY <1>1, <1>2 DEF Inv, ResourcesOwned, TypeOK, Fields
<1>6. Counted' /\ HoldsOwed'
  BY <1>2 DEF Inv, Counted, HoldsOwed, InStart
<1> QED BY <1>3, <1>4, <1>5, <1>6 DEF Inv, ResourcesOwned

\* No handler disturbs the invariant.
LEMMA HandlerInv == ASSUME Inv, Handler PROVE Inv'
<1>1. CASE ConnectFails
  BY <1>1, ConnectFailsInv
<1>2. CASE ConnectPending \/ ConnectAtOnce
  BY <1>2, ConnectGoesOnInv
<1>3. CASE Finish
  <2>1. state = "CONNECTING" /\ ~InStart
    BY <1>3 DEF Finish, Inv, Fields, InStart
  <2> QED BY <1>3, <2>1, FinishInv DEF Finish
<1>4. CASE OnFd
  <2>1. state = "CONNECTING" /\ ~InStart
    BY <1>4 DEF OnFd, Inv, ResourcesOwned, WatchedWhileConnecting, InStart
  <2> QED BY <1>4, <2>1, FinishInv DEF OnFd
<1>5. CASE Deadline
  <2>1. ~InStart /\ loop' = loop /\ lookup' = lookup /\ conn' = conn /\ caller' = "loop"
    BY <1>5 DEF Deadline, InStart
  <2>2. CASE state = "CONNECTING" /\ timer = 0 /\ complete_failure
    BY <2>1, <2>2, FailureInv DEF Inv, ResourcesOwned, TypeOK, LookupIffResolving
  <2>3. CASE ~(state = "CONNECTING" /\ timer = 0)
    <3>1. /\ UNCHANGED <<state, socket, token, on_done, open, from, phase, calls, result>>
          /\ nested' = nested
          /\ timer' \in {Timeout, timer} /\ pc' = "app" /\ pc = "deadline"
      BY <1>5, <2>3 DEF Deadline, attempt, seen
    <3> QED BY <2>1, <3>1, QuietInv, TcpTimeoutAssumption DEF Inv, ResourcesOwned, TypeOK
  <2>4. state = "CONNECTING" /\ timer = 0 => complete_failure
    BY <1>5 DEF Deadline, Unarmed
  <2> QED BY <2>2, <2>3, <2>4
<1>6. CASE CallbackReturns \/ Tick \/ ResolveTickQuiet
  <2>1. /\ UNCHANGED <<loop, state, socket, token, timer, on_done, lookup, open, conn, from,
                       phase, calls, result>>
        /\ pc # "connect" /\ pc' \in {"app", "resolve_tick", "deadline"}
        /\ caller' \in {"loop", "tick"} /\ nested' \in BOOLEAN
    BY <1>6 DEF CallbackReturns, Tick, ResolveTickQuiet, attempt, world, seen, Inv,
                ResourcesOwned, TypeOK
  <2> QED BY <2>1, QuietInv DEF Inv, ResourcesOwned, TypeOK
<1>7. CASE \E ok \in BOOLEAN : OnResolved(ok)
  BY <1>7, OnResolvedInv
<1> QED BY <1>1, <1>2, <1>3, <1>4, <1>5, <1>6, <1>7 DEF Handler

\* Nor does the clock, nor a step that changes nothing.
LEMMA ClockInv == ASSUME Inv, Clock \/ UNCHANGED vars PROVE Inv'
<1>1. /\ UNCHANGED <<loop, state, socket, token, on_done, lookup, open, conn, from, phase,
                     calls, result>>
      /\ pc' = pc /\ caller' = caller /\ nested' = nested
      /\ timer' = timer \/ (timer > 0 /\ timer' = timer - 1)
  <2>1. CASE Clock
    BY <2>1 DEF Clock, world, flow, seen
  <2>2. CASE UNCHANGED vars
    BY <2>2 DEF vars, attempt, world, flow, seen
  <2> QED BY <2>1, <2>2
<1>2. timer' \in (0 .. Timeout) \cup {Unarmed}
  BY <1>1, TcpTimeoutAssumption DEF Inv, ResourcesOwned, TypeOK, Unarmed
<1> QED BY <1>1, <1>2, QuietInv DEF Inv, ResourcesOwned, TypeOK

\* The invariant is one of the connector.
THEOREM Invariant == SafeSpec => []Inv
<1>1. Inv /\ [Next \/ Done]_vars => Inv'
  BY RefusedInv, StartLiteralInv, StartNameInv, CancelInv, HandlerInv, ClockInv, NetworkInv
  DEF Next, App, Done
<1> QED BY <1>1, InitInv, PTL DEF SafeSpec

\* On no path through tcp_open(), tcp_finish_connect(), the deadline, a
\* cancellation or a shutdown is a socket lost or kept twice, a watch left behind
\* or a lookup forgotten, whichever events of the loop come when.
THEOREM OwnsResources == SafeSpec => []ResourcesOwned
BY Invariant, PTL DEF Inv

-----------------------------------------------------------------------------
(* The connector implements the one-shot request. *)

\* A callback is an answer to the one attempt that is outstanding.
LEMMA CallAnswers ==
    ASSUME Inv, state # "IDLE", ~InStart, NEW what, Call(what)
    PROVE  C!Next
<1>1. on_done \in Attempts /\ calls[on_done] = 0 /\ phase[on_done] = "accepted"
  BY HeldIsOpen
<1>2. calls' = [calls EXCEPT ![on_done] = 1]
  BY <1>1 DEF Call, Inv, ResourcesOwned, TypeOK
<1>3. C!Answer(on_done)
  BY <1>1, <1>2 DEF Call, C!Answer, C!Outstanding
<1> QED BY <1>1, <1>3 DEF C!Next, C!Settle

\* start() returns 0 only when no other attempt is outstanding.
LEMMA AcceptRefines ==
    ASSUME Inv, NEW a \in Attempts, phase[a] = "unused",
           \A q \in Attempts : ~(phase[q] = "accepted" /\ calls[q] = 0),
           phase' = [phase EXCEPT ![a] = "accepted"], calls' = calls
    PROVE  C!Next
<1>1. C!Accept(a)
  BY DEF C!Accept, C!Outstanding
<1> QED BY <1>1 DEF C!Next

\* cancel() and shutdown() withdraw the one attempt that is outstanding, if any.
LEMMA CancelRefines == ASSUME Inv, Cancel \/ Shutdown PROVE [C!Next]_(C!vars)
<1>1. /\ calls' = calls
      /\ phase' = [a \in Attempts |-> IF phase[a] = "accepted" /\ calls[a] = 0
                                      THEN "cancelled" ELSE phase[a]]
      /\ ~InStart
  BY DEF Cancel, Shutdown, InStart, AtRest
<1>2. CASE state = "IDLE"
  <2>1. \A a \in Attempts : ~(phase[a] = "accepted" /\ calls[a] = 0)
    BY <1>2, NoAttemptIsZero DEF Inv, Fields, HoldsOwed
  <2>2. phase' = phase
    BY <1>1, <2>1 DEF Inv, ResourcesOwned, TypeOK
  <2> QED BY <1>1, <2>2 DEF C!vars
<1>3. CASE state # "IDLE"
  <2>1. on_done \in Attempts /\ calls[on_done] = 0 /\ phase[on_done] = "accepted"
    BY <1>1, <1>3, HeldIsOpen
  <2>2. phase' = [phase EXCEPT ![on_done] = "cancelled"]
    BY <1>1, <2>1 DEF Inv, ResourcesOwned, TypeOK, HoldsOwed
  <2>3. C!Cancel(on_done)
    BY <1>1, <2>1, <2>2 DEF C!Cancel, C!Outstanding
  <2> QED BY <2>1, <2>3 DEF C!Next, C!Settle
<1> QED BY <1>2, <1>3

\* The rest of tcp_open(), inside start() or inside the resolver's callback.
LEMMA OpenRefines ==
    ASSUME Inv, ConnectFails \/ ConnectPending \/ ConnectAtOnce
    PROVE  [C!Next]_(C!vars)
<1>1. pc = "connect" /\ state = "CONNECTING" /\ on_done \in Attempts
  BY HeldIsOpen DEF ConnectFails, ConnectPending, ConnectAtOnce, Inv, Fields
<1>2. CASE from = "start"
  <2>1. /\ phase[on_done] = "unused"
        /\ \A q \in Attempts : ~(phase[q] = "accepted" /\ calls[q] = 0)
    BY <1>1, <1>2 DEF Inv, HoldsOwed, InStart
  <2>2. CASE ConnectFails
    <3>1. C!Refuse(on_done)
      BY <1>2, <2>1, <2>2 DEF ConnectFails, C!Refuse
    <3> QED BY <1>1, <3>1 DEF C!Next
  <2>3. CASE ConnectPending \/ ConnectAtOnce
    <3>1. phase' = [phase EXCEPT ![on_done] = "accepted"] /\ calls' = calls
      BY <1>2, <2>3 DEF ConnectPending, ConnectAtOnce, Accepted
    <3> QED BY <1>1, <2>1, <3>1, AcceptRefines
  <2> QED BY <2>2, <2>3
<1>3. CASE from # "start"
  <2>1. CASE ConnectFails
    BY <1>1, <1>3, <2>1, CallAnswers DEF ConnectFails, complete_failure, InStart
  <2>2. CASE ConnectPending \/ ConnectAtOnce
    BY <1>3, <2>2 DEF ConnectPending, ConnectAtOnce, Accepted, C!vars
  <2> QED BY <2>1, <2>2
<1> QED BY <1>2, <1>3

\* Every step of the connector is a step of the request, or is not seen.
LEMMA StepRefines == ASSUME Inv, [Next \/ Done]_vars PROVE [C!Next]_(C!vars)
<1>1. CASE \E a \in Attempts : StartBusy(a) \/ StartFails(a)
  <2>1. PICK a \in Attempts : C!Refuse(a)
    BY <1>1 DEF StartBusy, StartFails, C!Refuse
  <2> QED BY <2>1 DEF C!Next
<1>2. CASE \E a \in Attempts : StartLiteral(a)
  BY <1>2 DEF StartLiteral, seen, C!vars
<1>3. CASE \E a \in Attempts : StartName(a)
  <2>1. PICK a \in Attempts : StartName(a)
    BY <1>3
  <2>2. \A q \in Attempts : ~(phase[q] = "accepted" /\ calls[q] = 0)
    BY <2>1, NoAttemptIsZero DEF StartName, Inv, Fields, HoldsOwed
  <2> QED BY <2>1, <2>2, AcceptRefines DEF StartName
<1>4. CASE Cancel \/ Shutdown
  BY <1>4, CancelRefines
<1>5. CASE ConnectFails \/ ConnectPending \/ ConnectAtOnce
  BY <1>5, OpenRefines
<1>6. CASE Finish \/ OnFd
  <2>1. state # "IDLE" /\ ~InStart /\ finish_connect
    BY <1>6 DEF Finish, OnFd, InStart, Inv, Fields
  <2> QED
    BY <2>1, CallAnswers DEF finish_connect, complete_failure, complete_success
<1>7. CASE Deadline
  <2>1. CASE state = "CONNECTING" /\ timer = 0 /\ complete_failure
    <3>1. ~InStart
      BY <1>7 DEF Deadline, InStart
    <3> QED BY <2>1, <3>1, CallAnswers DEF complete_failure
  <2>2. CASE UNCHANGED seen
    BY <2>2 DEF seen, C!vars
  <2> QED BY <1>7, <2>1, <2>2 DEF Deadline
<1>8. CASE \E ok \in BOOLEAN : OnResolved(ok)
  <2>1. PICK ok \in BOOLEAN : OnResolved(ok)
    BY <1>8
  <2>2. CASE state = "RESOLVING" /\ complete_failure
    <3>1. ~InStart
      BY <2>1 DEF OnResolved, InStart
    <3> QED BY <2>2, <3>1, CallAnswers DEF complete_failure
  <2>3. CASE UNCHANGED seen
    BY <2>3 DEF seen, C!vars
  <2> QED BY <2>1, <2>2, <2>3 DEF OnResolved
<1>9. CASE CallbackReturns \/ Tick \/ ResolveTickQuiet \/ Clock
  BY <1>9 DEF CallbackReturns, Tick, ResolveTickQuiet, Clock, seen, C!vars
<1>10. CASE (\E a \in Attempts : Network(a)) \/ UNCHANGED vars
  BY <1>10 DEF Network, vars, seen, C!vars
<1> QED
  BY <1>1, <1>2, <1>3, <1>4, <1>5, <1>6, <1>7, <1>8, <1>9, <1>10
  DEF Next, App, Handler, Done

\* The callback of an accepted attempt runs exactly once unless it is cancelled,
\* that of a refused one never, even if it is started from a callback: the safety
\* half of Completes, for every set of attempts.
THEOREM Implements == SafeSpec => C!SafeSpec
<1>1. Init => C!Init
  BY DEF Init, C!Init
<1> QED BY <1>1, StepRefines, Invariant, PTL DEF SafeSpec, C!SafeSpec

=============================================================================
