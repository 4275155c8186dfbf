---------------------------- MODULE TcpConnector ----------------------------
(***************************************************************************)
(* The TCP connector, src/net/tcp.c: a host and a port become a connected  *)
(* socket, by way of a lookup for a name, with a deadline on the connect.  *)
(*                                                                         *)
(* The resolver inside it is the one of module Resolve, here by what that  *)
(* module shows of it: at most one lookup, which calls back once, from the *)
(* loop or from the tick, unless it is cancelled.  The caller's callback   *)
(* may run inside start() and may start the next attempt from within.      *)
(* A callback inside a callback returns into the outer one and has nothing *)
(* left to do there, so the model keeps one level.                         *)
(*                                                                         *)
(* An attempt's number stands for its socket and its callback.  0 is the   *)
(* code's INKWELL_SOCKET_INVALID, its token -1 and its NULL callback.      *)
(***************************************************************************)
EXTENDS Integers

CONSTANTS
    Attempts,       \* the attempts the caller makes
    Timeout         \* options.timeout_ms, in steps of the clock

ASSUME AttemptsAssumption == Attempts \subseteq Nat \ {0}
ASSUME TcpTimeoutAssumption == Timeout \in Nat \ {0}

VARIABLES
    loop,           \* connector->loop is not NULL
    state,          \* connector->state
    socket,         \* connector->socket
    token,          \* connector->registration_token
    timer,          \* time left before deadline_ms; Unarmed for deadline_ms 0
    on_done,        \* connector->on_done
    lookup,         \* connector->resolve has a lookup in flight
    open,           \* the sockets the process holds
    conn,           \* what the network has made of each connect()
    pc,             \* where the thread is
    from,           \* which caller of tcp_open() is waiting for it
    caller,         \* whether the handler was entered from the tick
    nested,         \* a callback of the application is on the stack
    phase, calls,   \* what the caller of the connector has seen
    result          \* what each callback was told

attempt == <<state, socket, token, timer, on_done>>
world   == <<open, conn>>
flow    == <<pc, from, caller, nested>>
seen    == <<phase, calls, result>>
vars    == <<loop, attempt, lookup, world, flow, seen>>

Unarmed == 0 - 1

\* The connector, its resolver, the network and the thread.
TypeOK ==
    /\ loop \in BOOLEAN
    /\ state \in {"IDLE", "RESOLVING", "CONNECTING"}
    /\ socket \in Attempts \cup {0}
    /\ token \in Attempts \cup {0}
    /\ timer \in (0 .. Timeout) \cup {Unarmed}
    /\ on_done \in Attempts \cup {0}
    /\ lookup \in BOOLEAN
    /\ open \in SUBSET Attempts
    /\ conn \in [Attempts -> {"none", "pending", "ok", "refused"}]
    /\ pc \in {"app", "callback", "connect", "finish", "resolve_tick", "deadline", "down"}
    /\ from \in {"start", "resolver"}
    /\ caller \in {"loop", "tick"}
    /\ nested \in BOOLEAN
    /\ phase \in [Attempts -> {"unused", "refused", "accepted", "cancelled"}]
    /\ calls \in [Attempts -> Nat]
    /\ result \in [Attempts -> {"none", "connected", "failed"}]

\* inkwell_tcp_connector_init(); the loop may be NULL.
Init ==
    /\ loop \in BOOLEAN
    /\ state = "IDLE"
    /\ socket = 0 /\ token = 0 /\ on_done = 0
    /\ timer = Unarmed
    /\ lookup = FALSE
    /\ open = {}
    /\ conn = [a \in Attempts |-> "none"]
    /\ pc = "app" /\ from = "start" /\ caller = "loop" /\ nested = FALSE
    /\ phase = [a \in Attempts |-> "unused"]
    /\ calls = [a \in Attempts |-> 0]
    /\ result = [a \in Attempts |-> "none"]

-----------------------------------------------------------------------------
(* The helpers. *)

\* Where a call made by the application, or by a handler, returns to.
Resume ==
    IF nested THEN "callback" ELSE IF caller = "tick" THEN "deadline" ELSE "app"

\* Mutant: the connector forgets the socket without closing it.
drop_socket_without_close == socket' = 0 /\ token' = 0 /\ UNCHANGED open

\* tcp_drop_socket().
drop_socket ==
    /\ socket' = 0
    /\ token' = 0
    /\ open' = open \ {socket}

\* tcp_clear_attempt().
clear_attempt ==
    /\ state' = "IDLE"
    /\ timer' = Unarmed
    /\ on_done' = 0

\* The callback, with what it is told.
Call(what) ==
    /\ calls' = [calls EXCEPT ![on_done] = @ + 1]
    /\ result' = [result EXCEPT ![on_done] = what]
    /\ pc' = "callback"
    /\ nested' = TRUE
    /\ UNCHANGED <<phase, from>>

\* tcp_complete_failure().
complete_failure ==
    /\ drop_socket
    /\ clear_attempt
    /\ Call("failed")

\* tcp_complete_success(): unwatched, and handed to the callback.
complete_success ==
    /\ socket' = 0
    /\ token' = 0
    /\ UNCHANGED open
    /\ clear_attempt
    /\ Call("connected")

\* inkwell_socket_pending_error(): the error of a connect() that failed.
\* A connect() still in progress has none.
PendingError == conn[socket] = "refused"

\* tcp_finish_connect().
finish_connect == IF PendingError THEN complete_failure ELSE complete_success

-----------------------------------------------------------------------------
(* Starting and ending an attempt. *)

AtRest == pc \in {"app", "callback"}

\* inkwell_tcp_connector_start() while another attempt is under way: -EBUSY.
StartBusy(a) ==
    /\ AtRest
    /\ phase[a] = "unused"
    /\ state # "IDLE"
    /\ phase' = [phase EXCEPT ![a] = "refused"]
    /\ UNCHANGED <<loop, attempt, lookup, world, flow, calls, result>>

\* tcp_open() up to connect(): the socket, and the watch if there is a loop.
open_socket(a) ==
    /\ open' = open \cup {a}
    /\ socket' = a
    /\ token' = IF loop THEN a ELSE 0
    /\ state' = "CONNECTING"
    /\ pc' = "connect"

\* start() with a numeric address.
StartLiteral(a) ==
    /\ AtRest
    /\ phase[a] = "unused"
    /\ state = "IDLE"
    /\ open_socket(a)
    /\ on_done' = a
    /\ timer' = Timeout
    /\ from' = "start"
    /\ UNCHANGED <<loop, lookup, conn, caller, nested, seen>>

\* start() with a name.  The resolver refuses without a loop, when it is busy,
\* and when it cannot fork.
StartName(a) ==
    /\ AtRest
    /\ phase[a] = "unused"
    /\ state = "IDLE"
    /\ loop /\ ~lookup
    /\ lookup' = TRUE
    /\ state' = "RESOLVING"
    /\ on_done' = a
    /\ phase' = [phase EXCEPT ![a] = "accepted"]
    /\ UNCHANGED <<loop, socket, token, timer, world, flow, calls, result>>

\* start() refused: the lookup, the socket or the watch could not be had.
StartFails(a) ==
    /\ AtRest
    /\ phase[a] = "unused"
    /\ state = "IDLE"
    /\ clear_attempt
    /\ phase' = [phase EXCEPT ![a] = "refused"]
    /\ UNCHANGED <<loop, socket, token, lookup, world, flow, calls, result>>

\* tcp_open(): connect() fails, or would block with no loop to wait in.  To
\* start() that is a refusal; to the resolver's callback, a failed attempt.
ConnectFails ==
    /\ pc = "connect"
    /\ IF from = "start"
       THEN /\ drop_socket
            /\ clear_attempt
            /\ phase' = [phase EXCEPT ![on_done] = "refused"]
            /\ pc' = Resume
            /\ UNCHANGED <<from, nested, calls, result>>
       ELSE complete_failure
    /\ UNCHANGED <<loop, lookup, conn, caller>>

\* start() is about to return 0, if it is what called tcp_open().
Accepted ==
    phase' = IF from = "start" THEN [phase EXCEPT ![on_done] = "accepted"] ELSE phase

\* tcp_open(): connect() is under way.
ConnectPending ==
    /\ pc = "connect"
    /\ loop
    /\ conn' = [conn EXCEPT ![socket] = "pending"]
    /\ Accepted
    /\ pc' = Resume
    /\ UNCHANGED <<loop, attempt, lookup, open, from, caller, nested, calls, result>>

\* tcp_open(): connect() succeeded at once, and tcp_finish_connect() follows.
ConnectAtOnce ==
    /\ pc = "connect"
    /\ conn' = [conn EXCEPT ![socket] = "ok"]
    /\ Accepted
    /\ pc' = "finish"
    /\ UNCHANGED <<loop, attempt, lookup, open, from, caller, nested, calls, result>>

Finish ==
    /\ pc = "finish"
    /\ finish_connect
    /\ UNCHANGED <<loop, lookup, conn, caller>>

\* inkwell_tcp_connector_cancel().
Cancel ==
    /\ AtRest
    /\ lookup' = FALSE
    /\ drop_socket
    /\ clear_attempt
    /\ phase' = [a \in Attempts |->
                    IF phase[a] = "accepted" /\ calls[a] = 0
                    THEN "cancelled" ELSE phase[a]]
    /\ UNCHANGED <<loop, conn, flow, calls, result>>

\* inkwell_tcp_connector_shutdown(), after which the connector is not used.
Shutdown ==
    /\ pc = "app"
    /\ lookup' = FALSE
    /\ drop_socket
    /\ clear_attempt
    /\ loop' = FALSE
    /\ pc' = "down"
    /\ phase' = [a \in Attempts |->
                    IF phase[a] = "accepted" /\ calls[a] = 0
                    THEN "cancelled" ELSE phase[a]]
    /\ UNCHANGED <<conn, from, caller, nested, calls, result>>

CallbackReturns ==
    /\ pc = "callback"
    /\ nested' = FALSE
    /\ pc' = IF caller = "tick" THEN "deadline" ELSE "app"
    /\ UNCHANGED <<loop, attempt, lookup, world, from, caller, seen>>

-----------------------------------------------------------------------------
(* What the loop and the tick bring. *)

\* tcp_on_resolved(), called by the resolver from the loop or from its tick.
\* The socket or its watch may be refused like any other failed open.
OnResolved(ok) ==
    /\ pc \in {"app", "resolve_tick"}
    /\ lookup
    /\ lookup' = FALSE
    /\ IF state # "RESOLVING"
       THEN /\ pc' = Resume
            /\ UNCHANGED <<attempt, open, from, nested, seen>>
       ELSE IF ok
            THEN /\ open_socket(on_done)
                 /\ timer' = Unarmed
                 /\ from' = "resolver"
                 /\ UNCHANGED <<on_done, nested, seen>>
            ELSE complete_failure
    /\ UNCHANGED <<loop, conn, caller>>

\* The network settles a connect() that is under way, or never does.
Network(a) ==
    /\ a \in open
    /\ conn[a] = "pending"
    /\ \E c \in {"ok", "refused"} : conn' = [conn EXCEPT ![a] = c]
    /\ UNCHANGED <<loop, attempt, lookup, open, flow, seen>>

\* tcp_on_fd(): the loop reports the watched socket writable or in error.  The
\* event need not be about this connect(): it may be one of the batch in which
\* the socket was opened, about the source that had its slot and its number
\* before (module Loop, NoStaleEvent), and tcp_on_fd() cannot tell.
OnFd ==
    /\ pc = "app"
    /\ token # 0
    /\ state = "CONNECTING"
    /\ finish_connect
    /\ UNCHANGED <<loop, lookup, conn, caller>>

\* inkwell_tcp_connector_tick(): the resolver's tick, ...
Tick ==
    /\ pc = "app"
    /\ pc' = "resolve_tick"
    /\ caller' = "tick"
    /\ UNCHANGED <<loop, attempt, lookup, world, from, nested, seen>>

ResolveTickQuiet ==
    /\ pc = "resolve_tick"
    /\ pc' = "deadline"
    /\ UNCHANGED <<loop, attempt, lookup, world, from, caller, nested, seen>>

\* Mutant: the deadline of a connect that followed a lookup is never set.
DeadlineNeverArmed ==
    /\ pc = "deadline"
    /\ IF state = "CONNECTING" /\ timer = 0
       THEN complete_failure
       ELSE /\ pc' = "app"
            /\ UNCHANGED <<attempt, open, from, nested, seen>>
    /\ caller' = "loop"
    /\ UNCHANGED <<loop, lookup, conn>>

\* ... and then the deadline: the first tick after a lookup sets it.
Deadline ==
    /\ pc = "deadline"
    /\ \/ /\ state = "CONNECTING" /\ timer = 0
          /\ complete_failure
       \/ /\ state = "CONNECTING" /\ timer = Unarmed
          /\ timer' = Timeout
          /\ pc' = "app"
          /\ UNCHANGED <<state, socket, token, on_done, open, from, nested, seen>>
       \/ /\ state # "CONNECTING" \/ timer > 0
          /\ pc' = "app"
          /\ UNCHANGED <<attempt, open, from, nested, seen>>
    /\ caller' = "loop"
    /\ UNCHANGED <<loop, lookup, conn>>

\* The deadline comes closer, or has passed.
Clock ==
    /\ pc = "app"
    /\ timer > 0
    /\ timer' = timer - 1
    /\ UNCHANGED <<loop, state, socket, token, on_done, lookup, world, flow, seen>>

-----------------------------------------------------------------------------
App ==
    \/ \E a \in Attempts :
          StartBusy(a) \/ StartLiteral(a) \/ StartName(a) \/ StartFails(a)
    \/ Cancel \/ Shutdown

Handler ==
    \/ ConnectFails \/ ConnectPending \/ ConnectAtOnce \/ Finish
    \/ CallbackReturns
    \/ Tick \/ ResolveTickQuiet \/ Deadline
    \/ OnFd \/ \E ok \in BOOLEAN : OnResolved(ok)

Next == App \/ Handler \/ Clock \/ \E a \in Attempts : Network(a)

\* Once the connector is shut down nothing more happens to it.
Done == pc = "down" /\ UNCHANGED vars

SafeSpec == Init /\ [][Next \/ Done]_vars

\* The application calls the tick and returns from its callbacks, calls return,
\* time passes, and the resolver calls back (module Resolve: Completes).  The
\* network may leave a connect() undecided for ever.
Fairness ==
    /\ WF_vars(ConnectFails \/ ConnectPending \/ ConnectAtOnce)
    /\ WF_vars(Finish)
    /\ WF_vars(CallbackReturns)
    /\ WF_vars(Tick) /\ WF_vars(ResolveTickQuiet) /\ WF_vars(Deadline)
    /\ SF_vars(\E ok \in BOOLEAN : OnResolved(ok))
    /\ SF_vars(Clock)

Spec == SafeSpec /\ Fairness

-----------------------------------------------------------------------------
(* Properties. *)

\* A socket the process holds belongs to the connector, for the attempt under
\* way, or was handed to the callback of an attempt that succeeded.  No other
\* path (a failed watch, a refused or timed-out connect, a cancellation, a
\* shutdown) leaves one open, and none is both handed over and kept.
SocketsOwned ==
    \A a \in Attempts :
        /\ a \in open <=> (socket = a \/ result[a] = "connected")
        /\ ~(socket = a /\ result[a] = "connected")

\* The loop watches the connector's socket while a connect is under way, and
\* only then: a socket that was handed over or closed is not watched any more.
WatchedWhileConnecting ==
    /\ token # 0 => token = socket
    /\ AtRest /\ loop => (state = "CONNECTING" <=> token # 0)

\* An idle connector has no lookup in flight, so that the next start() is not
\* refused because of the attempt before it, and no lookup of a cancelled
\* attempt can call back into the next one.
LookupIffResolving == lookup <=> state = "RESOLVING"

\* Every resource of an attempt has its one owner: sockets, the watch on one,
\* and the lookup.
ResourcesOwned ==
    TypeOK /\ SocketsOwned /\ WatchedWhileConnecting /\ LookupIffResolving

\* tcp.h on what the callback is given: "On success, a connected non-blocking
\* socket now owned by the callback".  It does not hold: tcp_finish_connect()
\* asks for the socket's pending error only, which is 0 while connect() is
\* still under way, and an event of somebody else's gets it there too early.
SuccessIsConnected == \A a \in Attempts : result[a] = "connected" => conn[a] = "ok"

\* The connector implements the one-shot request: "An accepted attempt calls
\* on_done exactly once unless cancelled", even when the network never answers.
C == INSTANCE Completion WITH Requests <- Attempts

Completes == C!Spec
=============================================================================
