----------------------------- MODULE MqttClient -----------------------------
(***************************************************************************)
(* The connection lifecycle of the MQTT client (src/net/mqtt.c): one       *)
(* attempt after another until the application stops it, each with its     *)
(* lookup, socket, TLS session, deadline and retry, and the on_state and   *)
(* on_message callbacks, from inside which the application may start() or  *)
(* stop() the very client that is calling it.                              *)
(*                                                                         *)
(* Bytes are left to module MqttWriteQueue: here a read yields a packet or *)
(* an error, and a write works or does not.  A callback that arises while  *)
(* the application is already inside one ends in code that does nothing    *)
(* more, so one level of callback and one pending continuation say         *)
(* everything.                                                             *)
(***************************************************************************)
EXTENDS Integers

CONSTANTS
    MaxFailures,    \* where the count of consecutive failures saturates
    MaxStarts       \* how often the application starts the client

ASSUME MaxFailuresAssumption == MaxFailures \in Nat \ {0}
ASSUME MaxStartsAssumption == MaxStarts \in Nat

VARIABLES
    state,          \* proxy->state
    conn,           \* what mqtt_close() releases and resets
    config,         \* proxy->config, as far as it decides the way taken
    held,           \* how many sockets the kernel holds for this client
    retry,          \* proxy->retry_at_ms
    failures,       \* proxy->failures
    failure,        \* proxy->failure
    pc,             \* what the one thread is doing
    cont,           \* what follows the callback it is in
    replaced,       \* whether that callback has moved proxy->generation
    ticking,        \* whether all this happens inside tick()
    wanted,         \* whether the application wants a connection
    starts          \* how often it has started the client

thread == <<pc, cont, replaced, ticking>>
vars == <<state, conn, config, held, retry, failures, failure, thread, wanted, starts>>

States    == {"OFF", "RESOLVING", "CONNECTING", "SECURING", "GREETING", "READY", "WAITING"}
Underway  == {"RESOLVING", "CONNECTING", "SECURING", "GREETING"}
Reasons   == {"lookup", "unreachable", "tls", "no_tls", "timed_out", "closed",
              "bad_address", "protocol", "refused"}
Timers    == {"unset", "ahead", "passed"}
Configs   == [tls : BOOLEAN, literal : BOOLEAN]

\* The fields mqtt_close() resets.
Connections ==
    [lookup : BOOLEAN, socket : BOOLEAN, tls : BOOLEAN, deadline : Timers,
     heard : Timers, more_to_read : BOOLEAN]

NoConnection ==
    [lookup |-> FALSE, socket |-> FALSE, tls |-> FALSE, deadline |-> "unset",
     heard |-> "unset", more_to_read |-> FALSE]

\* The state of the client, the application's intent and the thread.
TypeOK ==
    /\ state \in States
    /\ conn \in Connections
    /\ config \in Configs
    /\ held \in Nat
    /\ retry \in Timers
    /\ failures \in 0 .. MaxFailures
    /\ failure \in Reasons \cup {"none"}
    /\ pc \in {"idle", "callback", "reading", "ticking"}
    /\ cont \in {"none", "secure", "connack", "read"}
    /\ replaced \in BOOLEAN
    /\ ticking \in BOOLEAN
    /\ wanted \in BOOLEAN
    /\ starts \in 0 .. MaxStarts

\* inkwell_mqtt_client_init().
Init ==
    /\ state = "OFF"
    /\ conn = NoConnection
    /\ config \in Configs
    /\ held = 0
    /\ retry = "unset"
    /\ failures = 0
    /\ failure = "none"
    /\ pc = "idle" /\ cont = "none" /\ replaced = FALSE /\ ticking = FALSE
    /\ wanted = FALSE
    /\ starts = 0

-----------------------------------------------------------------------------
(* The thread. *)

\* Where the thread goes when a handler is through: to the rest of tick(), if
\* that is where it was called from.
Through == IF ticking THEN "ticking" ELSE "idle"

\* mqtt_set_state() from a handler, with `next` to follow the callback.
Transition(s, next) ==
    /\ state' = s
    /\ replaced' = FALSE
    /\ ticking' = ticking
    /\ IF s # state THEN pc' = "callback" /\ cont' = next
                    ELSE pc' = Through /\ cont' = "none"

\* mqtt_set_state() from a call the application makes.  Inside a callback the
\* handler that called back finds the generation moved, or not.
AppTransition(s, moved) ==
    /\ state' = s
    /\ UNCHANGED ticking
    /\ IF pc = "callback"
       THEN replaced' = (replaced \/ moved) /\ UNCHANGED <<pc, cont>>
       ELSE /\ pc' = IF s # state THEN "callback" ELSE "idle"
            /\ cont' = "none" /\ replaced' = FALSE

-----------------------------------------------------------------------------
(* Ending an attempt. *)

Sockets(c) == IF c.socket THEN 1 ELSE 0

\* mqtt_close() of the connection c, with h sockets in the kernel.
mqtt_close(c, h) == conn' = NoConnection /\ held' = h - Sockets(c)

\* One more consecutive failure.
OneMore(f) == IF f < MaxFailures THEN f + 1 ELSE f

\* mqtt_back_off(), up to the change of state.
mqtt_back_off ==
    /\ mqtt_close(conn, held)
    /\ failures' = OneMore(failures)
    /\ retry' = "ahead"

\* The first reason wins until it is read.
Noted(why) == IF failure = "none" THEN why ELSE failure

\* mqtt_fail_net(), mqtt_fail_own() and mqtt_fail_tls() in a handler.
Fail(why) ==
    /\ mqtt_back_off
    /\ failure' = Noted(why)
    /\ Transition("WAITING", "none")
    /\ UNCHANGED <<config, wanted, starts>>

-----------------------------------------------------------------------------
(* Making an attempt. *)

\* Mutant: the connect is given no deadline.
OpeningForever == [NoConnection EXCEPT !.socket = TRUE]

\* The connection mqtt_open() leaves behind when connect() is under way.
Opening == [NoConnection EXCEPT !.socket = TRUE, !.deadline = "ahead"]

\* What mqtt_attempt() may lead to, with h sockets in the kernel, f failures and
\* a retry r from before: a connect to a literal address, a lookup, or a failure
\* at once.
mqtt_attempt(h, how, f, r) ==
    {[state |-> IF how.literal THEN "CONNECTING" ELSE "RESOLVING",
      conn  |-> IF how.literal THEN Opening ELSE [NoConnection EXCEPT !.lookup = TRUE],
      held  |-> IF how.literal THEN h + 1 ELSE h,
      failure |-> "none", failures |-> f, retry |-> r],
     [state |-> "WAITING", conn |-> NoConnection, held |-> h,
      failure |-> IF how.literal THEN "unreachable" ELSE "lookup",
      failures |-> OneMore(f), retry |-> "ahead"]}

\* The attempt o is what happened.
Attempted(o) ==
    /\ conn' = o.conn /\ held' = o.held
    /\ failure' = o.failure /\ failures' = o.failures /\ retry' = o.retry

\* Whether the backoff has run out.
RetryDue == retry = "passed"

\* inkwell_mqtt_client_tick() in WAITING.
TickRetry ==
    /\ pc = "idle"
    /\ state = "WAITING"
    /\ RetryDue
    /\ \E o \in mqtt_attempt(held, config, failures, retry) :
         Attempted(o) /\ Transition(o.state, "none")
    /\ UNCHANGED <<config, wanted, starts>>

\* mqtt_on_resolved(), called by the loop or by the tick of the resolver.  What
\* is left of tick() after it does nothing, since every timer is fresh.
Resolved ==
    /\ pc = "idle"
    /\ conn.lookup
    /\ state = "RESOLVING"
    /\ \/ /\ conn' = Opening /\ held' = held + 1
          /\ Transition("CONNECTING", "none")
          /\ UNCHANGED <<config, retry, failures, failure, wanted, starts>>
       \/ \E why \in {"lookup", "unreachable"} : Fail(why)

\* mqtt_send_connect() on the connection c.
SendConnect(c) ==
    \/ /\ conn' = [c EXCEPT !.deadline = "ahead", !.heard = "ahead"]
       /\ Transition("GREETING", "none")
       /\ UNCHANGED <<config, held, retry, failures, failure, wanted, starts>>
    \/ \E why \in {"bad_address", "unreachable"} : Fail(why)

\* mqtt_secure().
Secure ==
    \/ /\ pc' = Through /\ cont' = "none"
       /\ UNCHANGED <<state, conn, config, held, retry, failures, failure,
                      replaced, ticking, wanted, starts>>
    \/ Fail("tls")
    \/ SendConnect(conn)

\* mqtt_fd_callback() in CONNECTING: mqtt_finish_connect().
FinishConnect ==
    /\ pc = "idle"
    /\ state = "CONNECTING"
    /\ \/ Fail("unreachable")
       \/ ~config.tls /\ SendConnect(conn)
       \/ /\ config.tls
          /\ \E why \in {"tls", "no_tls"} : Fail(why)
       \/ /\ config.tls
          /\ conn' = [conn EXCEPT !.tls = TRUE, !.deadline = "ahead"]
          /\ Transition("SECURING", "secure")
          /\ UNCHANGED <<config, held, retry, failures, failure, wanted, starts>>

\* mqtt_fd_callback() in SECURING.
Handshake ==
    /\ pc = "idle"
    /\ state = "SECURING"
    /\ Secure

\* mqtt_fd_callback(): the socket has hung up, or a flush fails.
SocketFails ==
    /\ pc = "idle"
    /\ conn.socket
    /\ state # "CONNECTING"
    /\ Fail("closed")

-----------------------------------------------------------------------------
(* Reading. *)

StartReading ==
    /\ pc' = "reading"
    /\ conn' = [conn EXCEPT !.more_to_read = FALSE]
    /\ UNCHANGED <<state, config, held, retry, failures, failure, cont, replaced,
                   wanted, starts>>

\* mqtt_fd_callback() with something to read.
Readable ==
    /\ pc = "idle"
    /\ state \in {"GREETING", "READY"}
    /\ StartReading
    /\ UNCHANGED ticking

\* mqtt_read_ready() is through: nothing is left, or the budget is spent.
ReadDone ==
    /\ pc = "reading"
    /\ pc' = Through
    /\ \E more \in BOOLEAN : conn' = [conn EXCEPT !.more_to_read = more]
    /\ UNCHANGED <<state, config, held, retry, failures, failure, cont, replaced,
                   ticking, wanted, starts>>

\* mqtt_read_ready(): the read fails.
ReadFails ==
    /\ pc = "reading"
    /\ \E why \in {"closed", "unreachable", "tls"} : Fail(why)

\* Mutant: the backoff starts over though the broker has not accepted us.
ConnackRefusedForgiven ==
    /\ pc = "reading"
    /\ state = "GREETING"
    /\ mqtt_close(conn, held)
    /\ failures' = 1
    /\ retry' = "ahead"
    /\ failure' = Noted("refused")
    /\ Transition("WAITING", "none")
    /\ UNCHANGED <<config, wanted, starts>>

\* mqtt_on_connack(): the broker says no.
ConnackRefused ==
    /\ pc = "reading"
    /\ state = "GREETING"
    /\ Fail("refused")

\* mqtt_on_connack(): the broker says yes.
ConnackAccepted ==
    /\ pc = "reading"
    /\ state = "GREETING"
    /\ failures' = 0
    /\ failure' = "none"
    /\ conn' = [conn EXCEPT !.deadline = "unset", !.heard = "ahead"]
    /\ Transition("READY", "connack")
    /\ UNCHANGED <<config, held, retry, wanted, starts>>

\* mqtt_consume(), mqtt_handle(): a malformed packet or one out of place.
ProtocolError ==
    /\ pc = "reading"
    /\ Fail("protocol")

\* mqtt_on_publish(), which calls on_message.
Message ==
    /\ pc = "reading"
    /\ pc' = "callback" /\ cont' = "read" /\ replaced' = FALSE
    /\ conn' = [conn EXCEPT !.heard = "ahead"]
    /\ UNCHANGED <<state, config, held, retry, failures, failure, ticking,
                   wanted, starts>>

\* A SUBACK or a packet that is of no interest.  The SUBSCRIBE that follows a
\* SUBACK may fail to go out.
OtherPacket ==
    /\ pc = "reading"
    /\ \/ /\ conn' = [conn EXCEPT !.heard = "ahead"]
          /\ UNCHANGED <<state, config, held, retry, failures, failure, thread,
                         wanted, starts>>
       \/ state = "READY" /\ Fail("closed")

\* Mutant: the handler goes on whenever there is a socket to go on with.
StillOurs_AnySocket == conn.socket

\* What mqtt_set_state() and mqtt_consume() ask after a callback: the session
\* has not been replaced, and the connection has not been dropped.
StillOurs == ~replaced /\ conn.socket

\* A callback returns, and the handler that called it goes on.
Return ==
    /\ pc = "callback"
    /\ \/ /\ cont = "none" \/ ~StillOurs
          /\ pc' = Through /\ cont' = "none" /\ replaced' = FALSE
          /\ UNCHANGED <<state, conn, config, held, retry, failures, failure,
                         ticking, wanted, starts>>
       \/ cont = "secure" /\ StillOurs /\ Secure
       \/ /\ cont = "connack" /\ StillOurs
          /\ Fail("closed")
       \/ /\ cont \in {"connack", "read"} /\ StillOurs
          /\ pc' = "reading" /\ cont' = "none" /\ replaced' = FALSE
          /\ UNCHANGED <<state, conn, config, held, retry, failures, failure,
                         ticking, wanted, starts>>

-----------------------------------------------------------------------------
(* The rest of inkwell_mqtt_client_tick(). *)

DeadlineDue == conn.deadline = "passed"

TickDeadline ==
    /\ pc = "idle"
    /\ state \in Underway \cup {"READY"}
    /\ DeadlineDue
    /\ Fail("timed_out")

TickRead ==
    /\ pc = "idle"
    /\ state \in {"GREETING", "READY"}
    /\ ~DeadlineDue
    /\ conn.more_to_read
    /\ StartReading
    /\ ticking' = TRUE

\* A tick with nothing to read goes straight to its last part.
TickOn ==
    /\ pc = "idle"
    /\ state = "READY"
    /\ ~DeadlineDue
    /\ ~conn.more_to_read
    /\ pc' = "ticking" /\ ticking' = TRUE
    /\ UNCHANGED <<state, conn, config, held, retry, failures, failure, cont,
                   replaced, wanted, starts>>

\* The silence of the broker, and the ping.
TickEnd ==
    /\ pc = "ticking"
    /\ ticking' = FALSE
    /\ \/ /\ state = "READY"
          /\ \E why \in {"timed_out", "closed"} :
               /\ why = "timed_out" => conn.heard = "passed"
               /\ why = "closed" => conn.heard # "passed"
               /\ failure' = Noted(why)
          /\ mqtt_back_off
          /\ state' = "WAITING"
          /\ pc' = "callback" /\ cont' = "none" /\ replaced' = FALSE
          /\ UNCHANGED <<config, wanted, starts>>
       \/ /\ state = "READY" => conn.heard # "passed"
          /\ pc' = "idle"
          /\ UNCHANGED <<state, conn, config, held, retry, failures, failure, cont,
                         replaced, wanted, starts>>

-----------------------------------------------------------------------------
(* The application, from the loop or from inside a callback. *)

AppRuns == pc \in {"idle", "callback"}

\* inkwell_mqtt_client_start(), with a configuration that can be used.
Start ==
    /\ AppRuns
    /\ starts < MaxStarts
    /\ starts' = starts + 1
    /\ wanted' = TRUE
    /\ \E how \in Configs :
         /\ config' = how
         /\ \E o \in mqtt_attempt(held - Sockets(conn), how, 0, "unset") :
              Attempted(o) /\ AppTransition(o.state, TRUE)

\* inkwell_mqtt_client_stop().
Stop ==
    /\ AppRuns
    /\ state # "OFF"
    /\ wanted' = FALSE
    /\ mqtt_close(conn, held)
    /\ failures' = 0 /\ retry' = "unset" /\ failure' = "none"
    /\ AppTransition("OFF", TRUE)
    /\ UNCHANGED <<config, starts>>

\* inkwell_mqtt_client_shutdown(), which reports nothing.
Shutdown ==
    /\ AppRuns
    /\ wanted' = FALSE
    /\ mqtt_close(conn, held)
    /\ state' = "OFF"
    /\ replaced' = (pc = "callback")
    /\ UNCHANGED <<config, retry, failures, failure, pc, cont, ticking, starts>>

\* inkwell_mqtt_client_publish() or subscribe() on a socket that is gone.
WriteFails ==
    /\ AppRuns
    /\ state = "READY"
    /\ mqtt_back_off
    /\ failure' = Noted("closed")
    /\ AppTransition("WAITING", FALSE)
    /\ UNCHANGED <<config, wanted, starts>>

-----------------------------------------------------------------------------
(* Time. *)

DeadlinePasses ==
    /\ pc = "idle"
    /\ conn.deadline = "ahead"
    /\ conn' = [conn EXCEPT !.deadline = "passed"]
    /\ UNCHANGED <<state, config, held, retry, failures, failure, thread, wanted, starts>>

SilencePasses ==
    /\ pc = "idle"
    /\ conn.heard = "ahead"
    /\ conn' = [conn EXCEPT !.heard = "passed"]
    /\ UNCHANGED <<state, config, held, retry, failures, failure, thread, wanted, starts>>

RetryPasses ==
    /\ pc = "idle"
    /\ retry = "ahead"
    /\ retry' = "passed"
    /\ UNCHANGED <<state, conn, config, held, failures, failure, thread, wanted, starts>>

-----------------------------------------------------------------------------

Next ==
    \/ TickRetry \/ Resolved \/ FinishConnect \/ Handshake \/ SocketFails
    \/ Readable \/ ReadDone \/ ReadFails \/ ConnackRefused \/ ConnackAccepted
    \/ ProtocolError \/ Message \/ OtherPacket \/ Return
    \/ TickDeadline \/ TickRead \/ TickOn \/ TickEnd
    \/ Start \/ Stop \/ Shutdown \/ WriteFails
    \/ DeadlinePasses \/ SilencePasses \/ RetryPasses

SafeSpec == Init /\ [][Next]_vars

\* Time passes and the application ticks the client, however busy the socket
\* is; every lookup ends (Resolve); a callback returns; a read is cut short by
\* its budget.
Fairness ==
    /\ SF_vars(DeadlinePasses) /\ SF_vars(RetryPasses)
    /\ SF_vars(TickRetry) /\ SF_vars(TickDeadline) /\ SF_vars(TickRead)
    /\ WF_vars(TickEnd)
    /\ SF_vars(Resolved)
    /\ WF_vars(Return) /\ SF_vars(ReadDone)

Spec == SafeSpec /\ Fairness

-----------------------------------------------------------------------------
(* Properties. *)

\* Whenever the thread is back in the loop, a client that is wanted is on its
\* way to a connection and something will move it on: a lookup, a connect or
\* handshake with a deadline, a broker whose silence is timed, or an armed
\* retry.  "A close without a retry is a proxy that is silently off with the
\* setting still on, which is the failure this shape exists to make impossible"
\* (the comment on mqtt_has_failure()).
Attended ==
    pc = "idle" =>
      /\ wanted <=> state # "OFF"
      /\ state \in {"OFF", "WAITING"} => conn = NoConnection
      /\ state = "WAITING" => retry # "unset"
      /\ state = "RESOLVING" => conn.lookup
      /\ state \in {"CONNECTING", "SECURING", "GREETING"} => conn.deadline # "unset"
      /\ state = "READY" => conn.heard # "unset"

\* The client holds the one socket of its connection and no other: none is
\* left behind by a failed attempt, a restart or a stop.
SocketsOwned ==
    /\ held = Sockets(conn)
    /\ conn.socket <=> state \in {"CONNECTING", "SECURING", "GREETING", "READY"}

\* A client that is waiting to retry can say why (inkwell_mqtt_client_failure()).
WaitingSaysWhy == state = "WAITING" => failure # "none"

\* A handler that goes on after a callback goes on with the connection it had:
\* it never reads from one that a callback has put in its place.
ReadsOwnConnection ==
    pc = "reading" => conn.socket /\ state \in {"GREETING", "READY"}

\* The client and its connection belong together: attended, with one socket, a
\* reason while it waits, and no handler at work on another connection.
ConnectionOwned ==
    TypeOK /\ Attended /\ SocketsOwned /\ WaitingSaysWhy /\ ReadsOwnConnection

\* A refused session is no progress: the count behind the backoff falls only
\* with a CONNACK that accepts us, or when the application starts over.
BackoffNotForgiven ==
    [][failures' < failures => \/ state' = "READY"
                               \/ state' = "OFF"
                               \/ starts' = starts + 1]_vars

\* No attempt lasts for ever: it ends in a session, a backoff or a stop, however
\* often the broker speaks without saying yes.
AttemptEnds == state \in Underway ~> state \notin Underway
=============================================================================
