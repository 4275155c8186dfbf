----------------------------- MODULE MqttProofs -----------------------------
(***************************************************************************)
(* Proofs about three sides of the MQTT client of src/net/mqtt.c.          *)
(*                                                                         *)
(* The life cycle (MqttClient), for every number of starts and every limit *)
(* on the failures counted: a client which is wanted is attended to at     *)
(* every moment, whatever its callbacks do to it, it holds the one socket  *)
(* of its connection, no handler goes on with a connection it did not have *)
(* before, and only a session the broker accepts ends the backoff.         *)
(*                                                                         *)
(* The write buffer (MqttWriteQueue), for every number of packets and      *)
(* every size of the buffer: no byte is lost, repeated or reordered by     *)
(* partial writes, appended packets and mqtt_compact_out(), and a TLS      *)
(* write which blocked is always retried as it was.                        *)
(*                                                                         *)
(* The receiving side (MqttSession), for every size of the in buffer,      *)
(* radix of the lengths, set of filters and of messages, and every number  *)
(* of reads in a turn: what the reader has handled is what the broker has  *)
(* sent, up to a point, however the stream is cut, and no filter is passed *)
(* over or stuck behind one that was never answered.                       *)
(***************************************************************************)
EXTENDS MqttClient, MqttWriteQueue, MqttSession, WellFoundedInduction, FiniteSetTheorems,
        SequenceTheorems, TLAPS

-----------------------------------------------------------------------------
(* The life cycle. *)

\* What Attended says of a client whose thread is back in the loop holds at
\* every step, inside handlers and callbacks as well.
AlwaysAttended ==
    /\ wanted <=> state # "OFF"
    /\ state \in {"OFF", "WAITING"} => conn = NoConnection
    /\ state = "WAITING" => retry # "unset"
    /\ state = "RESOLVING" => conn.lookup
    /\ state \in {"CONNECTING", "SECURING", "GREETING"} => conn.deadline # "unset"
    /\ state = "READY" => conn.heard # "unset"

\* A handler that finds its connection untouched after a callback is in the
\* state in which it called back.
Resumable ==
    pc = "callback" /\ StillOurs =>
      /\ cont = "secure" => state = "SECURING"
      /\ cont = "connack" => state = "READY"
      /\ cont = "read" => state \in {"GREETING", "READY"}

\* The inductive invariant.  SocketsOwned says which states have a socket.
Inv ==
    /\ TypeOK
    /\ AlwaysAttended
    /\ SocketsOwned
    /\ WaitingSaysWhy
    /\ ReadsOwnConnection
    /\ Resumable

\* It says more than the invariant the runs check.
LEMMA InvIsEnough == Inv => ConnectionOwned
BY DEF Inv, AlwaysAttended, ConnectionOwned, Attended

-----------------------------------------------------------------------------
(* What handlers have in common. *)

\* One more failure never passes the limit, and never forgets one.
LEMMA OneMoreBounded ==
    ASSUME NEW f \in 0 .. MaxFailures
    PROVE  OneMore(f) \in 0 .. MaxFailures /\ OneMore(f) >= f
BY MaxFailuresAssumption DEF OneMore

\* No connection holds no socket.
LEMMA NoConnectionIsOne ==
    /\ NoConnection \in Connections /\ ~NoConnection.socket /\ Sockets(NoConnection) = 0
BY DEF NoConnection, Connections, Timers, Sockets

\* The client as it is initialised.
LEMMA InitInv == Init => Inv
<1> SUFFICES ASSUME Init PROVE Inv
  OBVIOUS
<1>1. TypeOK
  <2>1. 0 \in 0 .. MaxFailures /\ 0 \in 0 .. MaxStarts
    BY MaxFailuresAssumption, MaxStartsAssumption
  <2> QED BY <2>1, NoConnectionIsOne DEF Init, TypeOK, States, Timers
<1>2. AlwaysAttended /\ WaitingSaysWhy /\ ReadsOwnConnection
  BY DEF Init, AlwaysAttended, WaitingSaysWhy, ReadsOwnConnection
<1>3. SocketsOwned /\ Resumable
  BY NoConnectionIsOne DEF Init, SocketsOwned, Resumable
<1> QED BY <1>1, <1>2, <1>3 DEF Inv

\* Where mqtt_set_state() of a handler leaves the thread.
LEMMA TransitionEffect ==
    ASSUME TypeOK, NEW s \in States, NEW next \in {"none", "secure", "connack", "read"},
           Transition(s, next)
    PROVE  /\ state' = s /\ ticking' = ticking /\ replaced' = FALSE
           /\ pc' \in {"callback", "idle", "ticking"}
           /\ cont' \in {"none", next}
BY DEF Transition, Through

\* The parts of the invariant that are about an attempt which is not at work.
LEMMA AtRestInv ==
    ASSUME TypeOK', conn' = NoConnection, held' = 0,
           \/ state' = "OFF" /\ ~wanted'
           \/ state' = "WAITING" /\ wanted' /\ retry' # "unset" /\ failure' # "none",
           pc' # "reading"
    PROVE  Inv'
<1>1. AlwaysAttended' /\ WaitingSaysWhy' /\ ReadsOwnConnection'
  BY DEF AlwaysAttended, WaitingSaysWhy, ReadsOwnConnection
<1>2. SocketsOwned' /\ Resumable'
  BY NoConnectionIsOne DEF SocketsOwned, Resumable, StillOurs, Sockets
<1> QED BY <1>1, <1>2 DEF Inv

\* mqtt_close() of the one socket there is.
LEMMA CloseLeavesNone == ASSUME Inv PROVE held - Sockets(conn) = 0
BY DEF Inv, TypeOK, SocketsOwned, Sockets

\* mqtt_fail_net() and its like, from any handler: the connection is gone, the
\* retry armed and the reason kept.
LEMMA FailInv == ASSUME Inv, state # "OFF", NEW reason \in Reasons, Fail(reason) PROVE Inv'
<1>1. /\ conn' = NoConnection /\ held' = 0
      /\ failures' = OneMore(failures) /\ retry' = "ahead" /\ failure' = Noted(reason)
      /\ UNCHANGED <<config, wanted, starts>>
  BY CloseLeavesNone DEF Fail, mqtt_back_off, mqtt_close
<1>2. /\ state' = "WAITING" /\ ticking' = ticking /\ replaced' = FALSE
      /\ pc' \in {"callback", "idle", "ticking"} /\ cont' = "none"
  BY TransitionEffect DEF Fail, States, Inv
<1>3. failure' \in Reasons /\ failure' # "none"
  BY <1>1 DEF Noted, Inv, TypeOK, Reasons
<1>4. TypeOK'
  BY <1>1, <1>2, <1>3, OneMoreBounded, NoConnectionIsOne DEF Inv, TypeOK, States, Timers
<1>5. wanted'
  BY <1>1 DEF Inv, AlwaysAttended
<1> QED BY <1>1, <1>2, <1>3, <1>4, <1>5, AtRestInv

\* A handler moves on to the state s with the connection k, whose socket is the
\* one it had, and calls back with `next` to follow.
LEMMA MoveInv ==
    ASSUME Inv, state # "OFF", NEW s \in {"CONNECTING", "SECURING", "GREETING", "READY"},
           NEW k \in Connections, k.socket,
           NEW next \in {"none", "secure", "connack"},
           next = "secure" => s = "SECURING", next = "connack" => s = "READY",
           s = "READY" => k.heard # "unset", s # "READY" => k.deadline # "unset",
           conn' = k, held' = 1, Transition(s, next),
           failures' \in 0 .. MaxFailures, failure' \in Reasons \cup {"none"},
           UNCHANGED <<config, retry, wanted, starts>>
    PROVE  Inv'
<1>1. /\ state' = s /\ ticking' = ticking /\ replaced' = FALSE
      /\ pc' \in {"callback", "idle", "ticking"} /\ cont' \in {"none", next}
  BY TransitionEffect DEF States, Inv
<1>2. TypeOK'
  BY <1>1 DEF Inv, TypeOK, States
<1>3. AlwaysAttended' /\ WaitingSaysWhy' /\ ReadsOwnConnection'
  BY <1>1 DEF Inv, AlwaysAttended, WaitingSaysWhy, ReadsOwnConnection
<1>4. SocketsOwned' /\ Resumable'
  BY <1>1 DEF SocketsOwned, Sockets, Resumable
<1> QED BY <1>2, <1>3, <1>4 DEF Inv

\* Steps that leave the client and its socket alone, and may touch its timers:
\* the thread moves, a packet is noted, time passes.
LEMMA QuietInv ==
    ASSUME Inv,
           UNCHANGED <<state, config, held, failures, failure, wanted, starts>>,
           conn' \in Connections, conn'.socket = conn.socket, conn'.lookup = conn.lookup,
           conn.deadline # "unset" => conn'.deadline # "unset",
           conn.heard # "unset" => conn'.heard # "unset",
           state \in {"OFF", "WAITING"} => conn' = conn,
           retry' \in Timers, retry # "unset" => retry' # "unset",
           ticking' \in BOOLEAN, replaced' \in BOOLEAN,
           pc' \in {"idle", "callback", "reading", "ticking"},
           cont' \in {"none", "secure", "connack", "read"},
           pc' = "reading" => conn.socket /\ state \in {"GREETING", "READY"},
           pc' = "callback" /\ ~replaced' =>
               \/ cont' = "none"
               \/ pc = "callback" /\ ~replaced /\ cont' = cont
               \/ cont' = "read" /\ state \in {"GREETING", "READY"}
    PROVE  Inv'
<1>1. TypeOK'
  BY DEF Inv, TypeOK
<1>2. AlwaysAttended' /\ WaitingSaysWhy'
  BY DEF Inv, AlwaysAttended, WaitingSaysWhy
<1>3. SocketsOwned' /\ ReadsOwnConnection'
  BY DEF Inv, SocketsOwned, Sockets, ReadsOwnConnection
<1>4. Resumable'
  BY DEF Inv, Resumable, StillOurs
<1> QED BY <1>1, <1>2, <1>3, <1>4 DEF Inv

-----------------------------------------------------------------------------
(* The attempt. *)

\* What mqtt_attempt() leads to, when no socket is held before it.
LEMMA AttemptOutcomes ==
    ASSUME NEW how \in Configs, NEW f \in 0 .. MaxFailures, NEW r \in Timers,
           NEW o \in mqtt_attempt(0, how, f, r)
    PROVE  /\ o.conn \in Connections /\ o.held = Sockets(o.conn)
           /\ o.failures \in 0 .. MaxFailures /\ o.retry \in Timers
           /\ \/ o.state = "CONNECTING" /\ o.conn = Opening /\ o.failure = "none"
              \/ /\ o.state = "RESOLVING" /\ o.conn = [NoConnection EXCEPT !.lookup = TRUE]
                 /\ o.failure = "none"
              \/ /\ o.state = "WAITING" /\ o.conn = NoConnection /\ o.retry = "ahead"
                 /\ o.failure \in {"unreachable", "lookup"}
<1> DEFINE looking == [NoConnection EXCEPT !.lookup = TRUE]
<1>1. /\ Opening \in Connections /\ Sockets(Opening) = 1
      /\ looking \in Connections /\ Sockets(looking) = 0
  BY DEF Opening, NoConnection, Connections, Timers, Sockets
<1>2. CASE o.state = "WAITING"
  BY <1>2, OneMoreBounded, NoConnectionIsOne DEF mqtt_attempt, Timers
<1>3. CASE o.state # "WAITING" /\ how.literal
  BY <1>1, <1>3 DEF mqtt_attempt
<1>4. CASE o.state # "WAITING" /\ ~how.literal
  <2>1. o = [state |-> "RESOLVING", conn |-> looking, held |-> 0, failure |-> "none",
             failures |-> f, retry |-> r]
    BY <1>4 DEF mqtt_attempt
  <2> HIDE DEF looking
  <2>2. /\ o.state = "RESOLVING" /\ o.conn = looking /\ o.held = 0 /\ o.failure = "none"
        /\ o.failures = f /\ o.retry = r
    BY <2>1
  <2>3. looking \in Connections /\ Sockets(looking) = 0
    BY <1>1
  <2> QED BY <2>2, <2>3 DEF looking
<1> QED BY <1>2, <1>3, <1>4

\* The attempt keeps the invariant, wherever it leaves the thread.
LEMMA AttemptInv ==
    ASSUME Inv, NEW how \in Configs, NEW f \in 0 .. MaxFailures, NEW r \in Timers,
           NEW o \in mqtt_attempt(0, how, f, r), Attempted(o), state' = o.state,
           config' \in Configs, wanted', starts' \in 0 .. MaxStarts,
           ticking' \in BOOLEAN, replaced' \in BOOLEAN,
           pc' \in {"idle", "callback", "ticking"},
           cont' \in {"none", "secure", "connack", "read"},
           pc' = "callback" => replaced' \/ cont' = "none"
    PROVE  Inv'
<1>1. TypeOK'
  BY AttemptOutcomes DEF Attempted, Inv, TypeOK, States, Reasons, Sockets
<1>2. AlwaysAttended' /\ WaitingSaysWhy'
  BY AttemptOutcomes
  DEF Attempted, AlwaysAttended, WaitingSaysWhy, Opening, NoConnection
<1>3. SocketsOwned'
  <2>1. held' = Sockets(conn')
    BY AttemptOutcomes DEF Attempted, Sockets
  <2>2. conn'.socket <=> state' = "CONNECTING"
    <3>1. /\ Opening.socket /\ ~NoConnection.socket
          /\ ~[NoConnection EXCEPT !.lookup = TRUE].socket
      BY DEF Opening, NoConnection
    <3> QED BY <3>1, AttemptOutcomes DEF Attempted
  <2>3. state' \in {"CONNECTING", "RESOLVING", "WAITING"}
    BY AttemptOutcomes
  <2> QED BY <2>1, <2>2, <2>3 DEF SocketsOwned, Sockets
<1>4. ReadsOwnConnection' /\ Resumable'
  BY DEF ReadsOwnConnection, Resumable, StillOurs
<1> QED BY <1>1, <1>2, <1>3, <1>4 DEF Inv

\* inkwell_mqtt_client_tick() makes the next attempt.
LEMMA TickRetryInv == ASSUME Inv, TickRetry PROVE Inv'
<1>1. PICK o \in mqtt_attempt(held, config, failures, retry) :
         Attempted(o) /\ Transition(o.state, "none")
  BY DEF TickRetry
<1>2. held = 0 /\ state = "WAITING" /\ UNCHANGED <<config, wanted, starts>>
  BY DEF TickRetry, Inv, SocketsOwned, Sockets
<1>3. /\ config \in Configs /\ failures \in 0 .. MaxFailures /\ retry \in Timers
      /\ wanted /\ starts \in 0 .. MaxStarts /\ ticking \in BOOLEAN
  BY <1>2 DEF Inv, TypeOK, AlwaysAttended
<1>4. o.state \in States
  BY <1>1, <1>2, <1>3, AttemptOutcomes DEF States
<1>5. /\ state' = o.state /\ ticking' = ticking /\ replaced' = FALSE
      /\ pc' \in {"callback", "idle", "ticking"} /\ cont' = "none"
  BY <1>1, <1>4, TransitionEffect DEF Inv
<1> QED BY <1>1, <1>2, <1>3, <1>5, AttemptInv

\* inkwell_mqtt_client_start(), from the loop or from a callback.
LEMMA StartInv == ASSUME Inv, Start PROVE Inv'
<1>1. PICK how \in Configs :
         /\ config' = how
         /\ \E o \in mqtt_attempt(held - Sockets(conn), how, 0, "unset") :
              Attempted(o) /\ AppTransition(o.state, TRUE)
  BY DEF Start
<1>2. PICK o \in mqtt_attempt(0, how, 0, "unset") :
         Attempted(o) /\ AppTransition(o.state, TRUE)
  BY <1>1, CloseLeavesNone
<1>3. pc \in {"idle", "callback"} /\ starts' \in 0 .. MaxStarts /\ wanted'
  BY MaxStartsAssumption DEF Start, AppRuns, Inv, TypeOK
<1>4. /\ state' = o.state /\ ticking' \in BOOLEAN /\ replaced' \in BOOLEAN
      /\ pc' \in {"idle", "callback"} /\ cont' \in {"none", "secure", "connack", "read"}
      /\ pc' = "callback" => replaced' \/ cont' = "none"
  BY <1>2, <1>3 DEF AppTransition, Inv, TypeOK
<1>5. 0 \in 0 .. MaxFailures /\ "unset" \in Timers
  BY MaxFailuresAssumption DEF Timers
<1> QED BY <1>1, <1>2, <1>3, <1>4, <1>5, AttemptInv

\* mqtt_on_resolved().
LEMMA ResolvedInv == ASSUME Inv, Resolved PROVE Inv'
<1>1. state = "RESOLVING" /\ held = 0
  BY DEF Resolved, Inv, SocketsOwned, Sockets
<1>2. CASE \E reason \in {"lookup", "unreachable"} : Fail(reason)
  BY <1>1, <1>2, FailInv DEF Reasons
<1>3. CASE /\ conn' = Opening /\ held' = held + 1 /\ Transition("CONNECTING", "none")
           /\ UNCHANGED <<config, retry, failures, failure, wanted, starts>>
  <2>1. Opening \in Connections /\ Opening.socket /\ Opening.deadline # "unset"
    BY DEF Opening, NoConnection, Connections, Timers
  <2> QED BY <1>1, <1>3, <2>1, MoveInv DEF Inv, TypeOK
<1> QED BY <1>2, <1>3 DEF Resolved

\* mqtt_send_connect() on a connection that is there.
LEMMA SendConnectInv ==
    ASSUME Inv, state \in {"CONNECTING", "SECURING"}, SendConnect(conn)
    PROVE  Inv'
<1>1. conn \in Connections /\ conn.socket /\ held = 1
  BY DEF Inv, TypeOK, SocketsOwned, Sockets
<1>2. CASE \E reason \in {"bad_address", "unreachable"} : Fail(reason)
  BY <1>2, FailInv DEF Reasons
<1>3. CASE /\ conn' = [conn EXCEPT !.deadline = "ahead", !.heard = "ahead"]
           /\ Transition("GREETING", "none")
           /\ UNCHANGED <<config, held, retry, failures, failure, wanted, starts>>
  <2> DEFINE k == [conn EXCEPT !.deadline = "ahead", !.heard = "ahead"]
  <2>1. k \in Connections /\ k.socket /\ k.deadline # "unset"
    BY <1>1 DEF Connections, Timers
  <2> QED BY <1>1, <1>3, <2>1, MoveInv DEF Inv, TypeOK
<1> QED BY <1>2, <1>3 DEF SendConnect

\* mqtt_secure(), from the loop or behind the callback of SECURING.
LEMMA SecureInv == ASSUME Inv, state = "SECURING", Secure PROVE Inv'
<1>1. CASE /\ pc' = Through /\ cont' = "none"
           /\ UNCHANGED <<state, conn, config, held, retry, failures, failure,
                          replaced, ticking, wanted, starts>>
  BY <1>1, QuietInv DEF Through, Inv, TypeOK
<1>2. CASE Fail("tls")
  BY <1>2, FailInv DEF Reasons
<1>3. CASE SendConnect(conn)
  BY <1>3, SendConnectInv
<1> QED BY <1>1, <1>2, <1>3 DEF Secure

\* mqtt_finish_connect().
LEMMA FinishConnectInv == ASSUME Inv, FinishConnect PROVE Inv'
<1>1. state = "CONNECTING" /\ conn \in Connections /\ conn.socket /\ held = 1
  BY DEF FinishConnect, Inv, TypeOK, SocketsOwned, Sockets
<1>2. CASE \E reason \in {"unreachable", "tls", "no_tls"} : Fail(reason)
  BY <1>1, <1>2, FailInv DEF Reasons
<1>3. CASE SendConnect(conn)
  BY <1>1, <1>3, SendConnectInv
<1>4. CASE /\ conn' = [conn EXCEPT !.tls = TRUE, !.deadline = "ahead"]
           /\ Transition("SECURING", "secure")
           /\ UNCHANGED <<config, held, retry, failures, failure, wanted, starts>>
  <2> DEFINE k == [conn EXCEPT !.tls = TRUE, !.deadline = "ahead"]
  <2>1. k \in Connections /\ k.socket /\ k.deadline # "unset"
    BY <1>1 DEF Connections, Timers
  <2> QED BY <1>1, <1>4, <2>1, MoveInv DEF Inv, TypeOK
<1> QED BY <1>2, <1>3, <1>4 DEF FinishConnect

-----------------------------------------------------------------------------
(* Reading. *)

\* A packet, an error or the end of mqtt_read_ready().
LEMMA ReadingInv ==
    ASSUME Inv,
           \/ ReadDone \/ ReadFails \/ ConnackRefused \/ ConnackAccepted
           \/ ProtocolError \/ Message \/ OtherPacket
    PROVE  Inv'
<1>1. /\ pc = "reading" /\ state \in {"GREETING", "READY"} /\ conn.socket
      /\ conn \in Connections /\ held = 1
  BY DEF ReadDone, ReadFails, ConnackRefused, ConnackAccepted, ProtocolError, Message,
         OtherPacket, Inv, TypeOK, ReadsOwnConnection, SocketsOwned, Sockets
<1>2. CASE \E reason \in Reasons : Fail(reason)
  BY <1>1, <1>2, FailInv
<1>3. CASE ConnackAccepted
  <2> DEFINE k == [conn EXCEPT !.deadline = "unset", !.heard = "ahead"]
  <2>1. k \in Connections /\ k.socket /\ k.heard # "unset"
    BY <1>1 DEF Connections, Timers
  <2>2. failures' \in 0 .. MaxFailures
    BY <1>3, MaxFailuresAssumption DEF ConnackAccepted
  <2> QED BY <1>1, <1>3, <2>1, <2>2, MoveInv DEF ConnackAccepted
<1>4. CASE ReadDone
  <2>1. PICK more \in BOOLEAN : conn' = [conn EXCEPT !.more_to_read = more]
    BY <1>4 DEF ReadDone
  <2>2. /\ conn' \in Connections /\ conn'.socket = conn.socket /\ conn'.lookup = conn.lookup
        /\ conn'.deadline = conn.deadline /\ conn'.heard = conn.heard
    BY <1>1, <2>1 DEF Connections
  <2> QED BY <1>1, <1>4, <2>2, QuietInv DEF ReadDone, Through, Inv, TypeOK
<1>5. CASE Message \/ conn' = [conn EXCEPT !.heard = "ahead"]
  <2>1. conn' = [conn EXCEPT !.heard = "ahead"]
    BY <1>5 DEF Message
  <2>2. /\ conn' \in Connections /\ conn'.socket = conn.socket /\ conn'.lookup = conn.lookup
        /\ conn'.deadline = conn.deadline /\ conn'.heard = "ahead"
    BY <1>1, <2>1 DEF Connections, Timers
  <2>3. CASE Message
    BY <1>1, <2>2, <2>3, QuietInv DEF Message, Inv, TypeOK
  <2>4. CASE UNCHANGED <<state, config, held, retry, failures, failure, thread, wanted,
                         starts>>
    BY <1>1, <2>2, <2>4, QuietInv DEF thread, Inv, TypeOK
  <2> QED BY <1>2, <1>3, <1>4, <2>3, <2>4
          DEF ReadFails, ConnackRefused, ProtocolError, OtherPacket, Reasons
<1> QED
  BY <1>2, <1>3, <1>4, <1>5
  DEF ReadFails, ConnackRefused, ProtocolError, OtherPacket, Reasons

\* mqtt_read_ready() is entered, from the loop or from tick().
LEMMA StartReadingInv ==
    ASSUME Inv, state \in {"GREETING", "READY"}, StartReading, ticking' \in BOOLEAN
    PROVE  Inv'
<1>1. conn \in Connections /\ conn.socket
  BY DEF Inv, TypeOK, SocketsOwned
<1>2. /\ conn' \in Connections /\ conn'.socket = conn.socket /\ conn'.lookup = conn.lookup
      /\ conn'.deadline = conn.deadline /\ conn'.heard = conn.heard
  BY <1>1 DEF StartReading, Connections
<1> QED BY <1>1, <1>2, QuietInv DEF StartReading, Inv, TypeOK

\* A callback returns: the handler goes on only with what it had.
LEMMA ReturnInv == ASSUME Inv, Return PROVE Inv'
<1>1. pc = "callback"
  BY DEF Return
<1>2. CASE /\ pc' = Through /\ cont' = "none" /\ replaced' = FALSE
           /\ UNCHANGED <<state, conn, config, held, retry, failures, failure, ticking,
                          wanted, starts>>
  BY <1>2, QuietInv DEF Through, Inv, TypeOK
<1>3. CASE cont = "secure" /\ StillOurs /\ Secure
  BY <1>1, <1>3, SecureInv DEF Inv, Resumable
<1>4. CASE cont = "connack" /\ StillOurs /\ Fail("closed")
  <2>1. state = "READY"
    BY <1>1, <1>4 DEF Inv, Resumable
  <2> QED BY <1>4, <2>1, FailInv DEF Reasons
<1>5. CASE /\ cont \in {"connack", "read"} /\ StillOurs
           /\ pc' = "reading" /\ cont' = "none" /\ replaced' = FALSE
           /\ UNCHANGED <<state, conn, config, held, retry, failures, failure, ticking,
                          wanted, starts>>
  <2>1. conn.socket /\ state \in {"GREETING", "READY"}
    BY <1>1, <1>5 DEF Inv, Resumable, StillOurs
  <2> QED BY <1>5, <2>1, QuietInv DEF Inv, TypeOK
<1> QED BY <1>2, <1>3, <1>4, <1>5 DEF Return

-----------------------------------------------------------------------------
(* The rest. *)

\* The last part of tick(): a silent broker, or a ping that does not go out.
LEMMA TickEndInv == ASSUME Inv, TickEnd PROVE Inv'
<1>1. CASE UNCHANGED <<state, conn, config, held, retry, failures, failure, cont, replaced,
                       wanted, starts>>
  BY <1>1, QuietInv DEF TickEnd, Inv, TypeOK
<1>2. CASE state = "READY" /\ mqtt_back_off
  <2>1. /\ state' = "WAITING" /\ pc' = "callback" /\ cont' = "none" /\ replaced' = FALSE
        /\ ticking' = FALSE /\ UNCHANGED <<config, wanted, starts>>
        /\ \E reason \in {"timed_out", "closed"} : failure' = Noted(reason)
    BY <1>2 DEF TickEnd, mqtt_back_off, Inv, TypeOK, SocketsOwned, mqtt_close, NoConnection
  <2>2. /\ conn' = NoConnection /\ held' = 0 /\ retry' = "ahead"
        /\ failures' = OneMore(failures)
    BY <1>2, CloseLeavesNone DEF mqtt_back_off, mqtt_close
  <2>3. failure' \in Reasons /\ failure' # "none"
    BY <2>1 DEF Noted, Inv, TypeOK, Reasons
  <2>4. TypeOK'
    BY <2>1, <2>2, <2>3, OneMoreBounded, NoConnectionIsOne DEF Inv, TypeOK, States, Timers
  <2>5. wanted'
    BY <1>2, <2>1 DEF Inv, AlwaysAttended
  <2> QED BY <2>1, <2>2, <2>3, <2>4, <2>5, AtRestInv
<1> QED BY <1>1, <1>2 DEF TickEnd

\* stop() and shutdown() release what there is, from a callback too.
LEMMA StopInv == ASSUME Inv, Stop \/ Shutdown PROVE Inv'
<1>1. /\ conn' = NoConnection /\ held' = 0 /\ state' = "OFF" /\ wanted' = FALSE
      /\ UNCHANGED <<config, starts>>
      /\ retry' \in {retry, "unset"} /\ failures' \in {failures, 0}
      /\ failure' \in {failure, "none"}
  BY CloseLeavesNone DEF Stop, Shutdown, mqtt_close, AppTransition
<1>2. /\ pc' \in {"idle", "callback"} /\ replaced' \in BOOLEAN /\ ticking' = ticking
      /\ cont' \in {"none", cont}
  BY DEF Stop, Shutdown, AppTransition, AppRuns, Inv, TypeOK
<1>3. failures' \in 0 .. MaxFailures /\ retry' \in Timers
  BY <1>1, MaxFailuresAssumption DEF Inv, TypeOK, Timers
<1>4. TypeOK'
  BY <1>1, <1>2, <1>3, NoConnectionIsOne DEF Inv, TypeOK, States
<1> QED BY <1>1, <1>2, <1>4, AtRestInv

\* A publish() or subscribe() that finds the socket gone.
LEMMA WriteFailsInv == ASSUME Inv, WriteFails PROVE Inv'
<1>1. /\ conn' = NoConnection /\ held' = 0 /\ state' = "WAITING" /\ retry' = "ahead"
      /\ failures' = OneMore(failures) /\ failure' = Noted("closed")
      /\ UNCHANGED <<config, wanted, starts, ticking>> /\ wanted
  BY CloseLeavesNone
  DEF WriteFails, mqtt_back_off, mqtt_close, AppTransition, Inv, AlwaysAttended
<1>2. pc' \in {"idle", "callback"} /\ replaced' \in BOOLEAN /\ cont' \in {"none", cont}
  BY DEF WriteFails, AppTransition, AppRuns, Inv, TypeOK
<1>3. failure' \in Reasons /\ failure' # "none"
  BY <1>1 DEF Noted, Inv, TypeOK, Reasons
<1>4. TypeOK'
  BY <1>1, <1>2, <1>3, OneMoreBounded, NoConnectionIsOne DEF Inv, TypeOK, States, Timers
<1> QED BY <1>1, <1>2, <1>3, <1>4, AtRestInv

\* Time passes.
LEMMA TimeInv ==
    ASSUME Inv, DeadlinePasses \/ SilencePasses \/ RetryPasses
    PROVE  Inv'
<1>1. UNCHANGED <<state, config, held, failures, failure, pc, cont, replaced, ticking,
                  wanted, starts>>
  BY DEF DeadlinePasses, SilencePasses, RetryPasses, thread
<1>2. CASE DeadlinePasses \/ SilencePasses
  <2>1. state \notin {"OFF", "WAITING"}
    BY <1>2 DEF DeadlinePasses, SilencePasses, Inv, AlwaysAttended, NoConnection
  <2>2. /\ conn' \in Connections /\ conn'.socket = conn.socket /\ conn'.lookup = conn.lookup
        /\ conn'.deadline \in {conn.deadline, "passed"} /\ conn'.heard \in {conn.heard, "passed"}
    BY <1>2 DEF DeadlinePasses, SilencePasses, Inv, TypeOK, Connections, Timers
  <2>3. retry' = retry
    BY <1>2 DEF DeadlinePasses, SilencePasses
  <2> QED BY <1>1, <2>1, <2>2, <2>3, QuietInv DEF Inv, TypeOK, ReadsOwnConnection
<1>3. CASE RetryPasses
  BY <1>1, <1>3, QuietInv DEF RetryPasses, Inv, TypeOK, Timers, ReadsOwnConnection
<1> QED BY <1>2, <1>3

\* Every step of the client keeps the invariant.
LEMMA StepInv == ASSUME Inv, [Next]_vars PROVE Inv'
<1>1. CASE TickRetry \/ Start \/ Resolved \/ FinishConnect
  BY <1>1, TickRetryInv, StartInv, ResolvedInv, FinishConnectInv
<1>2. CASE Handshake
  BY <1>2, SecureInv DEF Handshake
<1>3. CASE SocketFails \/ TickDeadline
  <2>1. state # "OFF" /\ \E reason \in Reasons : Fail(reason)
    BY <1>3 DEF SocketFails, TickDeadline, Underway, Reasons, Inv, SocketsOwned
  <2> QED BY <2>1, FailInv
<1>4. CASE Readable \/ TickRead
  BY <1>4, StartReadingInv DEF Readable, TickRead, Inv, TypeOK
<1>5. CASE \/ ReadDone \/ ReadFails \/ ConnackRefused \/ ConnackAccepted
           \/ ProtocolError \/ Message \/ OtherPacket
  BY <1>5, ReadingInv
<1>6. CASE Return \/ TickEnd
  BY <1>6, ReturnInv, TickEndInv
<1>7. CASE TickOn
  BY <1>7, QuietInv DEF TickOn, Inv, TypeOK
<1>8. CASE Stop \/ Shutdown \/ WriteFails
  BY <1>8, StopInv, WriteFailsInv
<1>9. CASE DeadlinePasses \/ SilencePasses \/ RetryPasses
  BY <1>9, TimeInv
<1>10. CASE UNCHANGED vars
  BY <1>10, QuietInv DEF vars, thread, Inv, TypeOK, ReadsOwnConnection
<1> QED
  BY <1>1, <1>2, <1>3, <1>4, <1>5, <1>6, <1>7, <1>8, <1>9, <1>10 DEF Next

\* The invariant is one of the client.
THEOREM Invariant == SafeSpec => []Inv
BY InitInv, StepInv, PTL DEF SafeSpec

\* "A close without a retry is a proxy that is silently off with the setting
\* still on, which is the failure this shape exists to make impossible": it is,
\* for every client; and no socket is lost, no reason is missing and no handler
\* reads from a connection that a callback has put in the place of its own.
THEOREM OwnsConnection == SafeSpec => []ConnectionOwned
BY Invariant, InvIsEnough, PTL

-----------------------------------------------------------------------------
(* The backoff. *)

\* mqtt_back_off() counts a failure.
LEMMA BackOffCounts == ASSUME Inv, mqtt_back_off PROVE ~(failures' < failures)
BY OneMoreBounded DEF mqtt_back_off, Inv, TypeOK

\* The count of failures falls only where the client is accepted, stopped or
\* started anew.
LEMMA StepBacksOff ==
    ASSUME Inv, [Next]_vars, failures' < failures
    PROVE  state' = "READY" \/ state' = "OFF" \/ starts' = starts + 1
<1>1. failures' # failures /\ ~mqtt_back_off /\ ~\E reason \in Reasons : Fail(reason)
  BY BackOffCounts DEF Inv, TypeOK, Fail
<1>2. ~TickRetry
  <2>1. SUFFICES ASSUME TickRetry PROVE FALSE
    OBVIOUS
  <2>2. PICK o \in mqtt_attempt(held, config, failures, retry) : failures' = o.failures
    BY <2>1 DEF TickRetry, Attempted
  <2>3. failures' \in {failures, OneMore(failures)}
    BY <2>2 DEF mqtt_attempt
  <2> QED BY <2>3, OneMoreBounded DEF Inv, TypeOK
<1>3. CASE Resolved \/ FinishConnect \/ Handshake \/ SocketFails
  BY <1>1, <1>3 DEF Resolved, FinishConnect, Handshake, SocketFails, SendConnect, Secure, Reasons
<1>4. CASE Readable \/ TickRead \/ ReadDone \/ ReadFails \/ ConnackRefused
  BY <1>1, <1>4
  DEF Readable, TickRead, StartReading, ReadDone, ReadFails, ConnackRefused, Reasons
<1>5. CASE ConnackAccepted
  BY <1>5 DEF ConnackAccepted, Transition
<1>6. CASE ProtocolError \/ Message \/ OtherPacket \/ TickDeadline \/ TickOn
  BY <1>1, <1>6 DEF ProtocolError, Message, OtherPacket, TickDeadline, TickOn, Reasons
<1>7. CASE Return
  BY <1>1, <1>7 DEF Return, Secure, SendConnect, Reasons
<1>8. CASE TickEnd \/ WriteFails
  BY <1>1, <1>8 DEF TickEnd, WriteFails
<1>9. CASE Start \/ Stop \/ Shutdown
  BY <1>9 DEF Start, Stop, Shutdown, AppTransition
<1>10. CASE DeadlinePasses \/ SilencePasses \/ RetryPasses \/ UNCHANGED vars
  BY <1>1, <1>10 DEF DeadlinePasses, SilencePasses, RetryPasses, vars
<1> QED
  BY <1>2, <1>3, <1>4, <1>5, <1>6, <1>7, <1>8, <1>9, <1>10 DEF Next

\* A broker that refuses us, or that we cannot reach, is asked less and less
\* often: mqtt_back_off() never forgets a failure, and only mqtt_on_connack() of
\* an accepted session, start() and stop() do.
THEOREM NeverForgiven == SafeSpec => BackoffNotForgiven
<1>1. Inv /\ [Next]_vars =>
        [failures' < failures =>
            state' = "READY" \/ state' = "OFF" \/ starts' = starts + 1]_vars
  BY StepBacksOff
<1> QED BY <1>1, Invariant, PTL DEF SafeSpec, BackoffNotForgiven

-----------------------------------------------------------------------------
(* The write buffer. *)

\* The bytes that may be in the buffer.
QueuedBytes == 1 .. PacketLength * MaxPackets

\* The buffer b, sent up to `at`, holds what comes after the first w bytes of n
\* packets, byte by byte: StreamIntact without its sequences.
Continues(b, at, w, n) ==
    /\ Len(b) - at = PacketLength * n - w
    /\ \A i \in 1 .. Len(b) - at : b[at + i] = w + i

\* A buffer b, sent up to `at`, within the bounds of proxy->out.
Buffer(b, at) == b \in Seq(QueuedBytes) /\ Len(b) <= OutSize /\ at \in 0 .. Len(b)

\* The session is committed to nothing, or to what out_pending says is next.
\* Only the DISCONNECT of stop() leaves that undone, and it ends the connection.
Committed ==
    /\ kept
    /\ \/ record = NoRecord
       \/ record = [at |-> out_sent, length |-> out_pending] /\ out_pending > 0

\* The inductive invariant.
OutInv == OutTypeOK /\ (Up => Continues(out, out_sent, wire, queued) /\ Committed)

\* Nothing sent, queued or committed to is within the bounds.
LEMMA ZeroTyped ==
    /\ 0 \in 0 .. MaxPackets /\ 0 \in 0 .. PacketLength * MaxPackets /\ 0 \in 0 .. OutSize
    /\ NoRecord \in [at : 0 .. OutSize, length : 0 .. OutSize] /\ 0 <= OutSize
<1>1. /\ 0 \in 0 .. MaxPackets /\ 0 \in 0 .. PacketLength * MaxPackets
      /\ 0 \in 0 .. OutSize /\ 0 <= OutSize
  BY PacketsAssumption, OutSizeAssumption DEF PacketLength
<1> QED BY <1>1 DEF NoRecord

\* A connection that has just been made.
LEMMA FreshInv ==
    ASSUME tls' \in BOOLEAN, out' = <<>>, out_sent' = 0, out_pending' = 0,
           want_write' = FALSE, interest' = FALSE, ping_due' = FALSE, queued' = 0, wire' = 0,
           record' = NoRecord, kept' = TRUE, ended' = "no"
    PROVE  OutInv'
<1>1. <<>> \in Seq(QueuedBytes) /\ Len(<<>>) = 0
  OBVIOUS
<1>2. OutTypeOK'
  <2>1. {want_write', interest', ping_due', kept'} \subseteq BOOLEAN
    OBVIOUS
  <2> QED BY <1>1, <2>1, ZeroTyped DEF OutTypeOK, QueuedBytes
<1>3. Continues(out, out_sent, wire, queued)'
  BY <1>1 DEF Continues, PacketLength
<1> QED BY <1>2, <1>3 DEF OutInv, Committed

\* The same, as the connection is first seen.
LEMMA OutInitInv == OutInit => OutInv
<1> SUFFICES ASSUME OutInit PROVE OutInv
  OBVIOUS
<1>1. <<>> \in Seq(QueuedBytes) /\ Len(<<>>) = 0
  OBVIOUS
<1>2. OutTypeOK
  <2>1. {want_write, interest, ping_due, kept} \subseteq BOOLEAN
    BY DEF OutInit
  <2> QED BY <1>1, <2>1, ZeroTyped DEF OutInit, OutTypeOK, QueuedBytes
<1>3. Continues(out, out_sent, wire, queued)
  BY <1>1 DEF OutInit, Continues, PacketLength
<1> QED BY <1>2, <1>3 DEF OutInit, OutInv, Committed

-----------------------------------------------------------------------------
(* Flushing. *)

\* A flush offers bytes of the buffer, and moves no more than there are.
LEMMA MovesBounded ==
    ASSUME NEW b, NEW at, Buffer(b, at), out_pending \in 0 .. Len(b) - at,
           NEW k \in Moves(b, at)
    PROVE  k \in 0 .. Len(b) - at /\ Chunk(b, at) \in 0 .. Len(b) - at
<1>1. Len(b) \in Nat
  BY LenProperties DEF Buffer
<1> QED BY <1>1 DEF Buffer, Moves, Chunk

\* mqtt_arm() leaves two flags, whatever the loop says to it.
LEMMA ArmTyped ==
    ASSUME OutTypeOK, NEW b, NEW at, Arm(b, at)
    PROVE  want_write' \in BOOLEAN /\ interest' \in BOOLEAN
<1>1. want_write' \in BOOLEAN
  BY DEF Arm
<1>2. interest' \in {want_write', interest}
  BY DEF Arm
<1> QED BY <1>1, <1>2 DEF OutTypeOK

\* mqtt_flush() of a buffer that continues the stream leaves one that does, and
\* commits the session to what it will offer next.
LEMMA FlushInv ==
    ASSUME NEW b, NEW at, NEW k \in 0 .. Len(b) - at,
           Buffer(b, at), Continues(b, at, wire, queued'),
           OutInv, Up, out_pending \in 0 .. Len(b) - at,
           out_pending > 0 => at = out_sent,
           flush(b, at, k), tls' = tls, ended' = ended,
           queued' \in 0 .. MaxPackets, ping_due' \in BOOLEAN
    PROVE  OutInv'
<1>1. Len(b) \in Nat /\ wire \in Nat /\ at \in Nat /\ queued' \in Nat
  BY LenProperties, PacketsAssumption DEF Buffer, OutInv, OutTypeOK, PacketLength
<1>2. Chunk(b, at) \in 0 .. Len(b) - at
  BY <1>1 DEF Chunk
<1>3. kept' = TRUE
  BY <1>1 DEF flush, Retries, Chunk, OutInv, Committed, OutTypeOK, NoRecord
<1>4. wire' \in 0 .. PacketLength * MaxPackets /\ wire' = wire + k
  BY <1>1, PacketsAssumption DEF flush, Continues, PacketLength
<1>5. CASE at + k >= Len(b)
  <2>1. /\ out' = <<>> /\ out_sent' = 0 /\ out_pending' = 0 /\ record' = NoRecord
        /\ want_write' \in BOOLEAN /\ interest' \in BOOLEAN
    <3>1. Arm(b, at + k) /\ OutTypeOK
      BY DEF flush, OutInv
    <3>2. want_write' \in BOOLEAN /\ interest' \in BOOLEAN
      BY <3>1, ArmTyped
    <3> QED BY <1>5, <3>2 DEF flush
  <2>2. <<>> \in Seq(QueuedBytes) /\ Len(<<>>) = 0
    OBVIOUS
  <2>3. OutTypeOK'
    BY <1>3, <1>4, <2>1, <2>2, OutSizeAssumption DEF OutInv, OutTypeOK, QueuedBytes, NoRecord
  <2>4. Continues(out, out_sent, wire, queued)'
    <3>1. 2 * queued' - wire' = 0
      <4>1. Len(b) - at = 2 * queued' - wire
        BY DEF Continues, PacketLength
      <4>2. k = Len(b) - at
        BY <1>1, <1>5
      <4> QED BY <1>1, <1>4, <4>1, <4>2, SMTT(40)
    <3>2. Len(out') - out_sent' = 0
      BY <2>1, <2>2
    <3> QED BY <3>1, <3>2 DEF Continues, PacketLength
  <2> QED BY <1>3, <2>1, <2>3, <2>4 DEF OutInv, Committed
<1>6. CASE at + k < Len(b)
  <2> DEFINE n == IF k = 0 THEN Chunk(b, at) ELSE Len(b) - at - k
  <2>1. n \in 1 .. Len(b) - at - k
    BY <1>1, <1>2, <1>6 DEF Chunk
  <2>2. /\ out' = b /\ out_sent' = at + k /\ out_pending' = n
        /\ record' \in {NoRecord, [at |-> at + k, length |-> n]}
        /\ want_write' \in BOOLEAN /\ interest' \in BOOLEAN
    <3>1. Arm(b, at + k) /\ OutTypeOK
      BY DEF flush, OutInv
    <3>2. want_write' \in BOOLEAN /\ interest' \in BOOLEAN
      BY <3>1, ArmTyped
    <3> QED BY <1>1, <1>6, <3>2 DEF flush
  <2> HIDE DEF n
  <2>3. OutTypeOK'
    <3>1. /\ at + k \in 0 .. OutSize /\ n \in 0 .. OutSize /\ at + k \in 0 .. Len(b)
          /\ n \in 0 .. Len(b) - (at + k)
      BY <1>1, <1>6, <2>1, OutSizeAssumption DEF Buffer
    <3>2. record' \in [at : 0 .. OutSize, length : 0 .. OutSize]
      BY <2>2, <3>1, OutSizeAssumption DEF NoRecord
    <3> QED BY <1>3, <1>4, <2>2, <3>1, <3>2 DEF OutInv, OutTypeOK, Buffer, QueuedBytes
  <2>4. Continues(out, out_sent, wire, queued)'
    <3>1. Len(b) - (at + k) = PacketLength * queued' - (wire + k)
      BY <1>1, SMTT(40) DEF Continues, PacketLength
    <3>2. ASSUME NEW i \in 1 .. Len(b) - (at + k)
          PROVE  b[(at + k) + i] = (wire + k) + i
      <4>1. k + i \in 1 .. Len(b) - at
        BY <1>1
      <4>2. b[at + (k + i)] = wire + (k + i)
        BY <4>1 DEF Continues
      <4> QED BY <1>1, <4>2
    <3> QED BY <1>4, <2>2, <3>1, <3>2 DEF Continues
  <2>5. Committed'
    BY <1>3, <2>1, <2>2, <1>1 DEF Committed
  <2> QED BY <2>3, <2>4, <2>5 DEF OutInv
<1> QED BY <1>1, <1>5, <1>6

-----------------------------------------------------------------------------
(* Queueing. *)

\* mqtt_compact_out() moves what is left to the front, and leaves a buffer alone
\* of which a blocked write is part.
LEMMA BaseContinues ==
    ASSUME OutInv, Up
    PROVE  /\ Buffer(Base, Sent)
           /\ Continues(Base, Sent, wire, queued)
           /\ Len(Base) - Sent = Len(out) - out_sent
           /\ out_pending > 0 => Base = out /\ Sent = out_sent
<1>1. /\ out \in Seq(QueuedBytes) /\ Len(out) \in Nat /\ Len(out) <= OutSize
      /\ out_sent \in 0 .. Len(out) /\ Continues(out, out_sent, wire, queued)
  BY LenProperties DEF OutInv, OutTypeOK, QueuedBytes
<1>2. CASE Base = out
  BY <1>1, <1>2 DEF Sent, Buffer
<1>3. CASE Base # out
  <2> DEFINE rest == SubSeq(out, out_sent + 1, Len(out))
  <2>1. Base = rest /\ out_pending = 0
    BY <1>3 DEF Base, Compacted, OutInv, OutTypeOK
  <2>2. /\ rest \in Seq(QueuedBytes) /\ Len(rest) = Len(out) - out_sent
        /\ \A i \in 1 .. Len(rest) : rest[i] = out[out_sent + i]
    <3>1. \A i \in out_sent + 1 .. Len(out) : out[i] \in QueuedBytes
      BY <1>1, ElementOfSeq
    <3>2. /\ rest \in Seq(QueuedBytes)
          /\ Len(rest) = IF out_sent + 1 <= Len(out) THEN Len(out) - (out_sent + 1) + 1 ELSE 0
          /\ \A i \in 1 .. Len(out) - (out_sent + 1) + 1 : rest[i] = out[(out_sent + 1) + i - 1]
      BY <1>1, <3>1, SubSeqProperties
    <3> QED BY <1>1, <3>2
  <2> HIDE DEF rest
  <2>3. Sent = 0 /\ Len(Base) - Sent = Len(out) - out_sent
    BY <1>1, <2>1, <2>2 DEF Sent
  <2>4. Buffer(Base, Sent)
    BY <1>1, <2>1, <2>2, <2>3, OutSizeAssumption DEF Buffer
  <2>5. Continues(Base, Sent, wire, queued)
    BY <1>1, <2>1, <2>2, <2>3 DEF Continues
  <2> QED BY <2>1, <2>3, <2>4, <2>5 DEF OutInv, OutTypeOK
<1> QED BY <1>2, <1>3

\* The next packet goes behind what waits.
LEMMA AppendedContinues ==
    ASSUME OutInv, Up, Fits, queued < MaxPackets
    PROVE  /\ Buffer(Appended, Sent)
           /\ Continues(Appended, Sent, wire, queued + 1)
           /\ out_pending \in 0 .. Len(Appended) - Sent
           /\ out_pending > 0 => Sent = out_sent
<1> DEFINE packet == [i \in 1 .. PacketLength |-> PacketLength * queued + i]
<1>1. queued \in Nat /\ queued + 1 <= MaxPackets /\ wire \in Nat
  BY PacketsAssumption DEF OutInv, OutTypeOK
<1>2. /\ packet \in Seq(QueuedBytes) /\ Len(packet) = 2
      /\ \A i \in 1 .. 2 : packet[i] = 2 * queued + i
  BY <1>1, PacketsAssumption DEF PacketLength, QueuedBytes
<1>3. /\ Base \in Seq(QueuedBytes) /\ Len(Base) \in Nat /\ Sent \in 0 .. Len(Base)
      /\ Len(Base) + 2 <= OutSize /\ Continues(Base, Sent, wire, queued)
  BY BaseContinues, LenProperties DEF Buffer, Fits, PacketLength
<1>4. Appended = Base \o packet
  BY DEF Appended
<1> HIDE DEF packet
<1>5. /\ Appended \in Seq(QueuedBytes) /\ Len(Appended) = Len(Base) + 2
      /\ \A i \in 1 .. Len(Base) + 2 : Appended[i] =
             IF i <= Len(Base) THEN Base[i] ELSE packet[i - Len(Base)]
  <2>1. /\ Base \o packet \in Seq(QueuedBytes)
        /\ Len(Base \o packet) = Len(Base) + Len(packet)
        /\ \A i \in 1 .. Len(Base) + Len(packet) : (Base \o packet)[i] =
               IF i <= Len(Base) THEN Base[i] ELSE packet[i - Len(Base)]
    BY <1>2, <1>3, ConcatProperties
  <2> QED BY <1>2, <1>4, <2>1
<1>6. Buffer(Appended, Sent)
  BY <1>3, <1>5 DEF Buffer
<1>7. Continues(Appended, Sent, wire, queued + 1)
  <2>1. Len(Appended) - Sent = 2 * (queued + 1) - wire
    <3>1. Len(Base) - Sent = 2 * queued - wire
      BY <1>3 DEF Continues, PacketLength
    <3> QED BY <1>1, <1>3, <1>5, <3>1, SMTT(40)
  <2>2. ASSUME NEW i \in 1 .. Len(Appended) - Sent
        PROVE  Appended[Sent + i] = wire + i
    <3>1. CASE i <= Len(Base) - Sent
      BY <1>3, <1>5, <3>1 DEF Continues
    <3>2. CASE i > Len(Base) - Sent
      <4> DEFINE j == Sent + i
      <4>1. j \in 1 .. Len(Base) + 2 /\ ~(j <= Len(Base)) /\ j - Len(Base) \in 1 .. 2
        BY <1>3, <1>5, <3>2
      <4>2. wire + i = 2 * queued + (j - Len(Base))
        BY <1>1, <1>3 DEF Continues, PacketLength
      <4> HIDE DEF j
      <4>3. Appended[j] = packet[j - Len(Base)]
        BY <1>5, <4>1
      <4>4. packet[j - Len(Base)] = 2 * queued + (j - Len(Base))
        BY <1>2, <4>1
      <4> QED BY <4>2, <4>3, <4>4 DEF j
    <3> QED BY <1>3, <3>1, <3>2
  <2> QED BY <2>1, <2>2 DEF Continues, PacketLength
<1>8. /\ out_pending \in 0 .. Len(Appended) - Sent
      /\ out_pending > 0 => Sent = out_sent
  BY <1>3, <1>5, BaseContinues, LenProperties DEF OutInv, OutTypeOK
<1> QED BY <1>6, <1>7, <1>8

\* A packet that finds room.
LEMMA QueueInv ==
    ASSUME OutInv, Up, NEW k \in Moves(Appended, Sent), Queue(k), ping_due' \in BOOLEAN
    PROVE  OutInv'
<1>1. /\ Fits /\ queued < MaxPackets /\ queued' = queued + 1 /\ flush(Appended, Sent, k)
      /\ tls' = tls /\ ended' = ended
  BY DEF Queue
<1>2. queued' \in 0 .. MaxPackets
  BY <1>1, PacketsAssumption DEF OutInv, OutTypeOK
<1>3. k \in 0 .. Len(Appended) - Sent
  BY <1>1, AppendedContinues, MovesBounded
<1> QED BY <1>1, <1>2, <1>3, AppendedContinues, FlushInv

\* Steps that leave the buffer alone, and end the connection or do not.
LEMMA OutQuietInv ==
    ASSUME OutInv, UNCHANGED <<tls, out, out_sent, out_pending, want_write, interest,
                             queued, wire, record>>,
           ping_due' \in BOOLEAN, kept' \in BOOLEAN,
           ended' \in {"no", "stopped", "broken", "full"},
           ended' = "no" => Up /\ kept' = kept
    PROVE  OutInv'
<1>1. OutTypeOK'
  BY DEF OutInv, OutTypeOK
<1>2. Up' => Up /\ kept' = kept
  BY DEF Up
<1> QED BY <1>1, <1>2 DEF OutInv, Continues, Committed

\* A packet there is no room for: the buffer may have been compacted.
LEMMA NoRoomInv ==
    ASSUME OutInv, Up, out' = Base, out_sent' = Sent,
           UNCHANGED <<tls, out_pending, want_write, interest, ping_due, queued, transport, ended>>
    PROVE  OutInv'
<1>1. /\ Buffer(Base, Sent) /\ Continues(Base, Sent, wire, queued)
      /\ Len(Base) - Sent = Len(out) - out_sent
      /\ out_pending > 0 => Base = out /\ Sent = out_sent
  BY BaseContinues
<1>2. OutTypeOK'
  BY <1>1 DEF OutInv, OutTypeOK, Buffer, QueuedBytes, transport
<1>3. Continues(out, out_sent, wire, queued)'
  BY <1>1 DEF Continues, transport
<1>4. Committed'
  BY <1>1 DEF OutInv, Committed, transport
<1> QED BY <1>2, <1>3, <1>4 DEF OutInv

\* Every step keeps the invariant.
LEMMA OutStepInv == ASSUME OutInv, [OutNext]_out_vars PROVE OutInv'
<1>1. CASE Publish
  <2>1. CASE \E k \in Moves(Appended, Sent) : Queue(k) /\ ping_due' = (ping_due /\ k = 0)
    BY <1>1, <2>1, QueueInv DEF Publish
  <2>2. CASE QueueBreaks
    BY <2>2, OutQuietInv DEF QueueBreaks, Breaks, buffer, transport, OutInv, OutTypeOK
  <2>3. CASE /\ out' = Base /\ out_sent' = Sent
             /\ UNCHANGED <<tls, out_pending, want_write, interest, ping_due, queued, transport, ended>>
    BY <1>1, <2>3, NoRoomInv DEF Publish
  <2> QED BY <1>1, <2>1, <2>2, <2>3 DEF Publish
<1>2. CASE TickPing
  <2>1. CASE \E k \in Moves(Appended, Sent) : Queue(k) /\ ping_due' = FALSE
    BY <1>2, <2>1, QueueInv DEF TickPing
  <2>2. CASE QueueBreaks
    BY <2>2, OutQuietInv DEF QueueBreaks, Breaks, buffer, transport, OutInv, OutTypeOK
  <2>3. CASE /\ ended' = "full"
             /\ UNCHANGED <<tls, buffer, want_write, interest, ping_due, queued, transport>>
    BY <2>3, OutQuietInv DEF buffer, transport, OutInv, OutTypeOK
  <2> QED BY <1>2, <2>1, <2>2, <2>3 DEF TickPing
<1>3. CASE OnWritable
  <2>1. PICK k \in 0 .. OutSize : Writable(k)
    BY <1>3 DEF OnWritable
  <2>2. /\ Up /\ k \in Moves(out, out_sent) /\ flush(out, out_sent, k)
        /\ UNCHANGED <<tls, queued, ended>> /\ ping_due' \in BOOLEAN
    BY <2>1 DEF Writable
  <2>3. /\ Buffer(out, out_sent) /\ Continues(out, out_sent, wire, queued')
        /\ out_pending \in 0 .. Len(out) - out_sent /\ queued' \in 0 .. MaxPackets
    BY <2>2 DEF OutInv, OutTypeOK, Buffer, QueuedBytes
  <2>4. k \in 0 .. Len(out) - out_sent
    BY <2>2, <2>3, MovesBounded
  <2> QED BY <2>2, <2>3, <2>4, FlushInv
<1>4. CASE OnWriteError
  BY <1>4, OutQuietInv DEF OnWriteError, Breaks, buffer, transport, OutInv, OutTypeOK
<1>5. CASE PingDue
  BY <1>5, OutQuietInv DEF PingDue, buffer, transport, Up, OutInv, OutTypeOK
<1>6. CASE WriteDisconnect
  BY <1>6, OutQuietInv DEF WriteDisconnect, buffer, OutInv, OutTypeOK
<1>7. CASE Reconnect
  BY <1>7, FreshInv DEF Reconnect
<1>8. CASE UNCHANGED out_vars
  BY <1>8, OutQuietInv DEF out_vars, buffer, transport, Up, OutInv, OutTypeOK
<1> QED BY <1>1, <1>2, <1>3, <1>4, <1>5, <1>6, <1>7, <1>8 DEF OutNext

\* The invariant is one of the write side.
THEOREM OutInvariant == OutSafeSpec => []OutInv
BY OutInitInv, OutStepInv, PTL DEF OutSafeSpec

-----------------------------------------------------------------------------

\* What continues the stream byte by byte does so as a sequence.
LEMMA IntactFromInv == OutInv => StreamIntact
<1> SUFFICES ASSUME OutInv, Up
             PROVE  SubSeq(out, out_sent + 1, Len(out))
                      = [i \in 1 .. PacketLength * queued - wire |-> wire + i]
  BY DEF OutInv, StreamIntact
<1> DEFINE rest == SubSeq(out, out_sent + 1, Len(out))
           due  == [i \in 1 .. PacketLength * queued - wire |-> wire + i]
<1>1. /\ out \in Seq(QueuedBytes) /\ Len(out) \in Nat /\ out_sent \in 0 .. Len(out)
      /\ Continues(out, out_sent, wire, queued) /\ wire \in Nat /\ queued \in Nat
  BY LenProperties DEF OutInv, OutTypeOK, QueuedBytes
<1>2. /\ rest \in Seq(QueuedBytes) /\ Len(rest) = Len(out) - out_sent
      /\ \A i \in 1 .. Len(rest) : rest[i] = out[out_sent + i]
  <2>1. \A i \in out_sent + 1 .. Len(out) : out[i] \in QueuedBytes
    BY <1>1, ElementOfSeq
  <2>2. /\ rest \in Seq(QueuedBytes)
        /\ Len(rest) = IF out_sent + 1 <= Len(out) THEN Len(out) - (out_sent + 1) + 1 ELSE 0
        /\ \A i \in 1 .. Len(out) - (out_sent + 1) + 1 : rest[i] = out[(out_sent + 1) + i - 1]
    BY <1>1, <2>1, SubSeqProperties
  <2> QED BY <1>1, <2>2
<1> HIDE DEF rest
<1>3. /\ Len(rest) = PacketLength * queued - wire
      /\ \A i \in 1 .. Len(rest) : rest[i] = wire + i
  BY <1>1, <1>2 DEF Continues
<1>4. rest = [i \in 1 .. Len(rest) |-> rest[i]]
  BY <1>2
<1> QED BY <1>3, <1>4 DEF rest

\* mqtt_queue(), mqtt_flush() and mqtt_compact_out() neither lose, repeat nor
\* reorder a byte, and stay inside the buffer, whatever the socket takes.
THEOREM NothingLost == OutSafeSpec => []StreamIntact
BY OutInvariant, IntactFromInv, PTL

\* `out_pending` does what it is there for: mbedtls_ssl_write() is given the same
\* bytes again, whatever was queued since.
THEOREM RetriesAsBefore == OutSafeSpec => []RetryContract
<1>1. OutInv => RetryContract
  BY DEF OutInv, Committed, RetryContract
<1> QED BY <1>1, OutInvariant, PTL

-----------------------------------------------------------------------------
(* The receiving side. *)

\* What a byte is.
Bytes == 0 .. 255

-----------------------------------------------------------------------------
(* Numbers. *)

\* A set of natural numbers that is not empty has a least element.
LEMMA Least ==
    ASSUME NEW T \in SUBSET Nat, T # {}
    PROVE  \E x \in T : \A y \in T : x <= y
<1> DEFINE R == OpToRel(<, Nat)
<1>1. IsWellFoundedOn(R, Nat)
  BY NatLessThanWellFounded
<1>2. \A x, y \in Nat : <<y, x>> \in R <=> y < x
  BY DEF OpToRel
<1> HIDE DEF R
<1>3. PICK x \in T : \A y \in T : ~(<<y, x>> \in R)
  BY <1>1, WFMin
<1>4. ASSUME NEW y \in T PROVE x <= y
  <2>1. x \in Nat /\ y \in Nat
    OBVIOUS
  <2>2. ~(y < x)
    BY <1>2, <1>3, <2>1
  <2> QED BY <2>1, <2>2
<1> QED BY <1>3, <1>4

\* Min() is the least of a set of natural numbers that has one.
LEMMA MinIs ==
    ASSUME NEW S \in SUBSET Nat, S # {}
    PROVE  Min(S) \in S /\ \A y \in S : Min(S) <= y
  BY Least DEF Min

\* Of two numbers, that is the smaller one.
LEMMA MinOfTwo ==
    ASSUME NEW a \in Nat, NEW b \in Nat
    PROVE  Min({a, b}) = IF a <= b THEN a ELSE b
  <1>1. {a, b} \in SUBSET Nat /\ {a, b} # {}
    OBVIOUS
  <1>2. Min({a, b}) \in {a, b} /\ \A y \in {a, b} : Min({a, b}) <= y
    BY <1>1, MinIs
  <1> QED
    BY <1>2

\* f counts up to n, from 1, by the factor Radix.
Weights(f, n) ==
    /\ f = [i \in 0 .. n |-> f[i]]
    /\ f[0] = 1
    /\ \A i \in 1 .. n : f[i] = Radix * f[i - 1]

\* The weights of the digits exist, one by one.
LEMMA WeightsExist == \E f : Weights(f, LengthMax)
  <1> DEFINE T == {n \in 0 .. LengthMax : ~ \E f : Weights(f, n)}
  <1>0. LengthMax \in 0 .. LengthMax /\ LengthMax \in Nat
    BY LengthMaxAssumption
  <1> SUFFICES ASSUME T # {} PROVE FALSE
    <2>1. LengthMax \notin T => \E f : Weights(f, LengthMax)
      BY <1>0
    <2> HIDE DEF T
    <2> QED
      BY <2>1
  <1>1. T \in SUBSET Nat
    OBVIOUS
  <1>2. PICK n \in T : \A y \in T : n <= y
    BY <1>1, Least
  <1>3. n \in 0 .. LengthMax /\ n \in Nat /\ ~ \E f : Weights(f, n)
    BY <1>2
  <1>4. CASE n = 0
    <2>1. PICK g : g = [i \in 0 .. 0 |-> 1]
      OBVIOUS
    <2>2. Weights(g, 0)
      BY <2>1 DEF Weights
    <2> QED
      BY <1>3, <1>4, <2>2
  <1>5. CASE n # 0
    <2>1. n - 1 \in 0 .. LengthMax /\ ~(n <= n - 1)
      BY <1>0, <1>3, <1>5
    <2>2. n - 1 \notin T
      BY <1>2, <2>1
    <2>3. PICK f : Weights(f, n - 1)
      BY <2>1, <2>2
    <2>4. PICK g : g = [i \in 0 .. n |-> IF i = n THEN Radix * f[n - 1] ELSE f[i]]
      OBVIOUS
    <2>5. g = [i \in 0 .. n |-> g[i]]
      BY <2>4
    <2>6. g[0] = 1
      BY <1>3, <1>5, <2>3, <2>4 DEF Weights
    <2>7. ASSUME NEW i \in 1 .. n PROVE g[i] = Radix * g[i - 1]
      <3>0. i \in 0 .. n /\ i - 1 \in 0 .. n /\ i - 1 # n
        BY <1>3
      <3>1. g[i - 1] = f[i - 1]
        BY <2>4, <3>0
      <3>2. CASE i = n
        BY <2>4, <3>0, <3>1, <3>2
      <3>3. CASE i # n
        <4>1. i \in 1 .. n - 1
          BY <1>3, <3>3
        <4>2. f[i] = Radix * f[i - 1]
          BY <2>3, <4>1 DEF Weights
        <4>3. g[i] = f[i]
          BY <2>4, <3>0, <3>3
        <4> QED
          BY <3>1, <4>2, <4>3
      <3> QED
        BY <3>2, <3>3
    <2>8. Weights(g, n)
      BY <2>5, <2>6, <2>7 DEF Weights
    <2> QED
      BY <1>3, <2>8
  <1> QED
    BY <1>4, <1>5

\* The multipliers are what their definition says.
LEMMA WeightsAre == Weights(weight, LengthMax)
  <1> DEFINE S(f) == f = [i \in 0 .. LengthMax |-> IF i = 0 THEN 1 ELSE Radix * f[i - 1]]
  <1>0. LengthMax \in Nat
    BY LengthMaxAssumption
  <1>1. PICK f : Weights(f, LengthMax)
    BY WeightsExist
  <1>2. S(f)
    <2>1. ASSUME NEW i \in 0 .. LengthMax
          PROVE  f[i] = IF i = 0 THEN 1 ELSE Radix * f[i - 1]
      <3>1. CASE i = 0
        BY <1>1, <3>1 DEF Weights
      <3>2. CASE i # 0
        <4>1. i \in 1 .. LengthMax
          BY <1>0, <3>2
        <4> QED
          BY <1>1, <3>2, <4>1 DEF Weights
      <3> QED
        BY <3>1, <3>2
    <2>2. f = [i \in 0 .. LengthMax |-> f[i]]
      BY <1>1 DEF Weights
    <2> QED
      BY <2>1, <2>2
  <1>3. weight = CHOOSE g : S(g)
    BY DEF weight
  <1> HIDE DEF S
  <1>4. S(weight)
    BY <1>2, <1>3
  <1>5. weight = [i \in 0 .. LengthMax |-> IF i = 0 THEN 1 ELSE Radix * weight[i - 1]]
    BY <1>4 DEF S
  <1>6. weight[0] = 1
    BY <1>0, <1>5
  <1>7. ASSUME NEW i \in 1 .. LengthMax PROVE weight[i] = Radix * weight[i - 1]
    <2>1. i \in 0 .. LengthMax /\ i # 0
      BY <1>0
    <2> QED
      BY <1>5, <2>1
  <1>8. weight = [i \in 0 .. LengthMax |-> weight[i]]
    BY <1>5
  <1> QED
    BY <1>6, <1>7, <1>8 DEF Weights

\* The first of them, and a bound for the others.
LEMMA WeightIs ==
    /\ weight[0] = 1 /\ weight[1] = Radix /\ weight[2] = Radix * Radix
    /\ Radix * Radix \in Nat
    /\ \A i \in 2 .. LengthMax : weight[i] \in Nat /\ weight[i] >= Radix * Radix
  <1>0. LengthMax \in Nat /\ LengthMax >= 2 /\ Radix \in Nat /\ Radix >= 4
    BY LengthMaxAssumption, RadixAssumption
  <1>1. weight[0] = 1 /\ weight[1] = Radix /\ weight[2] = Radix * Radix
    <2>1. weight[0] = 1 /\ \A i \in 1 .. LengthMax : weight[i] = Radix * weight[i - 1]
      BY WeightsAre DEF Weights
    <2>2. weight[1] = Radix * weight[0] /\ weight[2] = Radix * weight[1]
      <3>1. 1 \in 1 .. LengthMax /\ 2 \in 1 .. LengthMax /\ 1 - 1 = 0 /\ 2 - 1 = 1
        BY <1>0
      <3> QED
        BY <2>1, <3>1
    <2>3. Radix * 1 = Radix
      BY <1>0
    <2> QED
      BY <2>1, <2>2, <2>3
  <1>2. Radix * Radix \in Nat
    BY <1>0
  <1> DEFINE T == {i \in 2 .. LengthMax : ~(weight[i] \in Nat /\ weight[i] >= Radix * Radix)}
  <1>3. SUFFICES ASSUME T # {} PROVE FALSE
    <2>1. T = {} => \A i \in 2 .. LengthMax : weight[i] \in Nat /\ weight[i] >= Radix * Radix
      OBVIOUS
    <2> HIDE DEF T
    <2> QED
      BY <1>1, <1>2, <2>1
  <1>4. T \in SUBSET Nat
    BY <1>0
  <1>5. PICK n \in T : \A y \in T : n <= y
    BY <1>3, <1>4, Least
  <1>6. n \in 2 .. LengthMax /\ n # 2
    BY <1>0, <1>1, <1>2, <1>5
  <1>7. n - 1 \in 2 .. LengthMax /\ ~(n <= n - 1)
    BY <1>0, <1>6
  <1>8. weight[n - 1] \in Nat /\ weight[n - 1] >= Radix * Radix
    BY <1>5, <1>7
  <1>9. weight[n] = Radix * weight[n - 1]
    <2>1. n \in 1 .. LengthMax
      BY <1>0, <1>6
    <2> QED
      BY <2>1, WeightsAre DEF Weights
  <1>10. weight[n] \in Nat /\ weight[n] >= weight[n - 1]
    <2>1. \A r, x \in Nat : r >= 1 => r * x \in Nat /\ r * x >= x
      OBVIOUS
    <2> QED
      BY <1>0, <1>8, <1>9, <2>1
  <1> QED
    BY <1>2, <1>5, <1>8, <1>10

\* f sums up the first n digits of data.
Sums(f, n, data) ==
    /\ f = [i \in 0 .. n |-> f[i]]
    /\ f[0] = 0
    /\ \A i \in 1 .. n : f[i] = f[i - 1] + (data[i] % Continued) * weight[i - 1]

\* The sums of the digits exist, for every buffer.
LEMMA SumsExist ==
    ASSUME NEW m \in Nat, NEW data
    PROVE  \E f : Sums(f, m, data)
  <1> DEFINE T == {n \in 0 .. m : ~ \E f : Sums(f, n, data)}
  <1>0. m \in 0 .. m
    OBVIOUS
  <1> SUFFICES ASSUME T # {} PROVE FALSE
    <2>1. m \notin T => \E f : Sums(f, m, data)
      BY <1>0
    <2> HIDE DEF T
    <2> QED
      BY <2>1
  <1>1. T \in SUBSET Nat
    OBVIOUS
  <1>2. PICK n \in T : \A y \in T : n <= y
    BY <1>1, Least
  <1>3. n \in 0 .. m /\ n \in Nat /\ ~ \E f : Sums(f, n, data)
    BY <1>2
  <1>4. CASE n = 0
    <2>1. PICK g : g = [i \in 0 .. 0 |-> 0]
      OBVIOUS
    <2>2. Sums(g, 0, data)
      BY <2>1 DEF Sums
    <2> QED
      BY <1>3, <1>4, <2>2
  <1>5. CASE n # 0
    <2> DEFINE E(h, i) == h[i - 1] + (data[i] % Continued) * weight[i - 1]
    <2>1. n - 1 \in 0 .. m /\ ~(n <= n - 1)
      BY <1>0, <1>3, <1>5
    <2>2. n - 1 \notin T
      BY <1>2, <2>1
    <2>3. PICK f : Sums(f, n - 1, data)
      BY <2>1, <2>2
    <2>4. PICK g : g = [i \in 0 .. n |-> IF i = n THEN E(f, n) ELSE f[i]]
      OBVIOUS
    <2>5. g = [i \in 0 .. n |-> g[i]]
      BY <2>4
    <2>6. g[0] = 0
      BY <1>3, <1>5, <2>3, <2>4 DEF Sums
    <2>7. ASSUME NEW i \in 1 .. n PROVE g[i] = E(g, i)
      <3>0. i \in 0 .. n /\ i - 1 \in 0 .. n /\ i - 1 # n
        BY <1>3
      <3>1. g[i - 1] = f[i - 1]
        BY <2>4, <3>0
      <3>2. CASE i = n
        BY <2>4, <3>0, <3>1, <3>2
      <3>3. CASE i # n
        <4>1. i \in 1 .. n - 1
          BY <1>3, <3>3
        <4>2. f[i] = E(f, i)
          BY <2>3, <4>1 DEF Sums
        <4>3. g[i] = f[i]
          BY <2>4, <3>0, <3>3
        <4> QED
          BY <3>1, <4>2, <4>3
      <3> QED
        BY <3>2, <3>3
    <2>8. Sums(g, n, data)
      BY <2>5, <2>6, <2>7 DEF Sums
    <2> QED
      BY <1>3, <2>8
  <1> QED
    BY <1>4, <1>5

\* The sums of the reader of a length are what their definition says.
LEMMA SumsAre ==
    ASSUME NEW data \in Seq(Bytes)
    PROVE  Sums(Values(data), Min({LengthMax, Len(data)}), data)
  <1> DEFINE m == Min({LengthMax, Len(data)})
             S(f) == f = [i \in 0 .. m |-> IF i = 0 THEN 0
                                           ELSE f[i - 1] + (data[i] % Continued) * weight[i - 1]]
  <1>0. m \in Nat
    <2>1. LengthMax \in Nat /\ Len(data) \in Nat
      BY LengthMaxAssumption
    <2> QED
      BY <2>1, MinOfTwo
  <1>1. PICK f : Sums(f, m, data)
    BY <1>0, SumsExist
  <1>2. S(f)
    <2>1. ASSUME NEW i \in 0 .. m
          PROVE  f[i] = IF i = 0 THEN 0
                        ELSE f[i - 1] + (data[i] % Continued) * weight[i - 1]
      <3>1. CASE i = 0
        BY <1>1, <3>1 DEF Sums
      <3>2. CASE i # 0
        <4>1. i \in 1 .. m
          BY <1>0, <3>2
        <4> QED
          BY <1>1, <3>2, <4>1 DEF Sums
      <3> QED
        BY <3>1, <3>2
    <2>2. f = [i \in 0 .. m |-> f[i]]
      BY <1>1 DEF Sums
    <2> QED
      BY <2>1, <2>2
  <1> DEFINE v == Values(data)
  <1>3. v = CHOOSE g : S(g)
    BY DEF Values
  <1> HIDE DEF S, v
  <1>4. S(v)
    BY <1>2, <1>3
  <1>5. v = [i \in 0 .. m |-> IF i = 0 THEN 0
                              ELSE v[i - 1] + (data[i] % Continued) * weight[i - 1]]
    BY <1>4 DEF S
  <1> HIDE DEF m
  <1>6. v[0] = 0
    BY <1>0, <1>5
  <1>7. ASSUME NEW i \in 1 .. m PROVE v[i] = v[i - 1] + (data[i] % Continued) * weight[i - 1]
    <2>1. i \in 0 .. m /\ i # 0
      BY <1>0
    <2> QED
      BY <1>5, <2>1
  <1>8. v = [i \in 0 .. m |-> v[i]]
    BY <1>5
  <1>9. Sums(v, m, data)
    BY <1>6, <1>7, <1>8 DEF Sums
  <1> QED
    BY <1>9 DEF m, v

-----------------------------------------------------------------------------
(* Lengths. *)

\* A length of one or two bytes, as the broker writes it.
LengthOf(n) == IF n < Radix THEN <<n>> ELSE <<128 + (n % Radix), n \div Radix>>

\* The digits of a short length.
LEMMA DigitsOf ==
    ASSUME NEW n \in Nat, Short(n)
    PROVE  /\ n % Radix \in 0 .. Radix - 1 /\ n \div Radix \in 0 .. Radix - 1
           /\ n = (n % Radix) + (n \div Radix) * Radix
           /\ n < Radix => n \div Radix = 0 /\ n % Radix = n
  <1>0. Radix \in Nat /\ Radix >= 4
    BY RadixAssumption
  <1>1. n < Radix * Radix
    BY DEF Short
  <1> DEFINE q == n \div Radix
             r == n % Radix
  <1>2. q \in Nat /\ r \in 0 .. Radix - 1 /\ n = Radix * q + r
    BY <1>0
  <1> HIDE DEF q, r
  <1>3. Radix * q = q * Radix
    BY <1>0, <1>2
  <1>4. q < Radix
    <2>1. SUFFICES ASSUME q >= Radix PROVE FALSE
      BY <1>0, <1>2
    <2>2. \A a, b \in Nat : a >= b => b * a >= b * b
      OBVIOUS
    <2>3. Radix * q >= Radix * Radix
      BY <1>0, <1>2, <2>1, <2>2
    <2> QED
      BY <1>0, <1>1, <1>2, <2>3
  <1>5. n < Radix => q = 0
    <2>1. SUFFICES ASSUME n < Radix, q >= 1 PROVE FALSE
      BY <1>2
    <2>2. \A a, b \in Nat : a >= 1 => b * a >= b
      OBVIOUS
    <2>3. Radix * q >= Radix
      BY <1>0, <1>2, <2>1, <2>2
    <2> QED
      BY <1>0, <1>2, <2>1, <2>3
  <1>6. q = 0 => r = n
    BY <1>0, <1>2
  <1>7. q \in 0 .. Radix - 1 /\ n = r + q * Radix
    BY <1>0, <1>2, <1>3, <1>4
  <1> QED
    BY <1>2, <1>5, <1>6, <1>7 DEF q, r

\* So the bytes of a length are bytes, and only the first of two is marked.
LEMMA LengthIs ==
    ASSUME NEW n \in Nat, Short(n)
    PROVE  /\ LengthOf(n) \in Seq(Bytes) /\ Len(LengthOf(n)) \in {1, 2}
           /\ Len(LengthOf(n)) \in Nat /\ Len(LengthOf(n)) <= 2 /\ Len(LengthOf(n)) >= 1
           /\ Len(LengthOf(n)) = 1 <=> n < Radix
           /\ n < Radix => LengthOf(n)[1] = n
           /\ n >= Radix => LengthOf(n)[1] = 128 + (n % Radix) /\ LengthOf(n)[2] = n \div Radix
           /\ Radix <= 128 /\ Radix >= 4 /\ Radix \in Nat
  <1>1. Radix <= 128 /\ Radix >= 4 /\ Radix \in Nat
    BY RadixAssumption
  <1>2. n % Radix \in 0 .. Radix - 1 /\ n \div Radix \in 0 .. Radix - 1
    BY DigitsOf
  <1>3. CASE n < Radix
    BY <1>1, <1>3 DEF LengthOf, Bytes
  <1>4. CASE ~(n < Radix)
    <2>1. LengthOf(n) = <<128 + (n % Radix), n \div Radix>>
      BY <1>4 DEF LengthOf
    <2>2. 128 + (n % Radix) \in Bytes /\ n \div Radix \in Bytes
      BY <1>1, <1>2 DEF Bytes
    <2> QED
      BY <1>1, <1>4, <2>1, <2>2
  <1> QED
    BY <1>3, <1>4

\* Whatever follows a length, the reader of it reads that length, and waits for
\* its second byte if there is one.
LEMMA VarintRead ==
    ASSUME NEW n \in Nat, Short(n), NEW data \in Seq(Bytes),
           \A x \in 1 .. Len(LengthOf(n)) : x <= Len(data) => data[x] = LengthOf(n)[x]
    PROVE  mqtt_read_varint(data) =
             IF Len(data) < Len(LengthOf(n)) THEN NotYet
             ELSE [ok |-> TRUE, bad |-> FALSE, value |-> n, used |-> Len(LengthOf(n))]
  <1> DEFINE l == LengthOf(n)
             m == Min({LengthMax, Len(data)})
             ends == {i \in 1 .. m : data[i] < Continued}
  <1>0. LengthMax \in Nat /\ LengthMax >= 2 /\ Len(data) \in Nat
    BY LengthMaxAssumption
  <1>1. /\ Len(l) \in {1, 2} /\ (Len(l) = 1 <=> n < Radix)
        /\ n < Radix => l[1] = n
        /\ n >= Radix => l[1] = 128 + (n % Radix) /\ l[2] = n \div Radix
        /\ Radix <= 128 /\ Radix >= 4 /\ Radix \in Nat
    BY LengthIs
  <1>2. /\ n % Radix \in 0 .. Radix - 1 /\ n \div Radix \in 0 .. Radix - 1
        /\ n = (n % Radix) + (n \div Radix) * Radix
    BY DigitsOf
  <1>3. m = IF LengthMax <= Len(data) THEN LengthMax ELSE Len(data)
    BY <1>0, MinOfTwo
  <1>4. mqtt_read_varint(data) =
          IF ends # {} THEN [ok |-> TRUE, bad |-> FALSE,
                             value |-> Values(data)[Min(ends)], used |-> Min(ends)]
          ELSE IF Len(data) < LengthMax THEN NotYet ELSE Bad
    BY DEF mqtt_read_varint
  <1>5. Sums(Values(data), m, data)
    BY SumsAre
  <1>a. \A x \in 1 .. Len(l) : x <= Len(data) => data[x] = l[x]
    OBVIOUS
  <1>b. Len(l) \in Nat /\ Len(l) <= 2 /\ Len(l) >= 1
    BY LengthIs
  <1> HIDE DEF l, m
  <1>6. ends \in SUBSET Nat
    BY <1>0, <1>3
  <1>7. CASE Len(data) < Len(l)
    <2>1. ends = {}
      <3>1. CASE Len(data) = 0
        BY <1>0, <1>3, <3>1
      <3>2. CASE Len(data) # 0
        <4>1. Len(data) = 1 /\ Len(l) = 2 /\ data[1] = l[1] /\ n >= Radix /\ m = 1
          <5>1. Len(data) = 1 /\ Len(l) = 2
            <6>1. \A a, b \in Nat : a < b /\ a # 0 /\ b <= 2 => a = 1 /\ b = 2
              OBVIOUS
            <6> QED
              BY <1>0, <1>7, <1>b, <3>2, <6>1
          <5>2. 1 \in 1 .. Len(l) /\ 1 <= Len(data)
            BY <5>1
          <5>3. data[1] = l[1]
            BY <1>a, <5>2
          <5>4. n >= Radix
            BY <1>1, <5>1
          <5> QED
            BY <1>0, <1>3, <5>1, <5>3, <5>4
        <4>2. ~(data[1] < Continued)
          BY <1>1, <1>2, <4>1 DEF Continued
        <4> QED
          BY <4>1, <4>2
      <3> QED
        BY <3>1, <3>2
    <2>2. Len(data) < LengthMax
      BY <1>0, <1>7, <1>b
    <2> QED
      BY <1>4, <1>7, <2>1, <2>2 DEF l
  <1>8. CASE ~(Len(data) < Len(l)) /\ Len(l) = 1
    <2>1. data[1] = n /\ n < Radix /\ 1 \in 1 .. m /\ m \in Nat
      BY <1>0, <1>1, <1>3, <1>8, <1>a
    <2>2. 1 \in ends
      BY <1>1, <2>1 DEF Continued
    <2>3. Min(ends) \in ends /\ Min(ends) <= 1
      BY <1>6, <2>2, MinIs
    <2>4. Min(ends) = 1
      BY <2>1, <2>3
    <2>5. Values(data)[0] = 0 /\ Values(data)[1] = Values(data)[0] + (data[1] % Continued) * weight[0]
      <3>1. \A i \in 1 .. m : Values(data)[i] = Values(data)[i - 1] + (data[i] % Continued) * weight[i - 1]
        BY <1>5 DEF Sums
      <3>2. 1 - 1 = 0
        OBVIOUS
      <3> QED
        BY <1>5, <2>1, <3>1, <3>2 DEF Sums
    <2>6. data[1] % Continued = n
      BY <1>1, <2>1 DEF Continued
    <2>7. Values(data)[1] = n
      BY <2>5, <2>6, WeightIs
    <2> QED
      BY <1>4, <1>8, <2>2, <2>4, <2>7 DEF l
  <1>9. CASE ~(Len(data) < Len(l)) /\ Len(l) = 2
    <2>1. /\ data[1] = 128 + (n % Radix) /\ data[2] = n \div Radix
          /\ 1 \in 1 .. m /\ 2 \in 1 .. m /\ m \in Nat
      BY <1>0, <1>1, <1>3, <1>9, <1>a
    <2>2. 2 \in ends /\ 1 \notin ends
      BY <1>1, <1>2, <2>1 DEF Continued
    <2>3. Min(ends) \in ends /\ Min(ends) <= 2
      BY <1>6, <2>2, MinIs
    <2>4. Min(ends) = 2
      <3>1. Min(ends) \in 1 .. m /\ Min(ends) # 1
        BY <2>2, <2>3
      <3> QED
        BY <2>1, <2>3, <3>1
    <2>5. /\ Values(data)[0] = 0
          /\ Values(data)[1] = Values(data)[0] + (data[1] % Continued) * weight[0]
          /\ Values(data)[2] = Values(data)[1] + (data[2] % Continued) * weight[1]
      <3>1. \A i \in 1 .. m : Values(data)[i] = Values(data)[i - 1] + (data[i] % Continued) * weight[i - 1]
        BY <1>5 DEF Sums
      <3>2. 1 - 1 = 0 /\ 2 - 1 = 1
        OBVIOUS
      <3> QED
        BY <1>5, <2>1, <3>1, <3>2, Zenon DEF Sums
    <2>6. data[1] % Continued = n % Radix /\ data[2] % Continued = n \div Radix
      <3>1. \A r \in 0 .. 127 : (128 + r) % 128 = r /\ r % 128 = r
        OBVIOUS
      <3>2. n % Radix \in 0 .. 127 /\ n \div Radix \in 0 .. 127
        BY <1>1, <1>2
      <3> QED
        BY <2>1, <3>1, <3>2, ZenonT(60) DEF Continued
    <2>7. Values(data)[2] = n
      BY <1>2, <2>5, <2>6, WeightIs
    <2> QED
      BY <1>4, <1>9, <2>2, <2>4, <2>7 DEF l
  <1> QED
    BY <1>1, <1>7, <1>8, <1>9

\* The encoder writes a short length as the broker does.
LEMMA VarintWrite ==
    ASSUME NEW n \in Nat, Short(n)
    PROVE  /\ mqtt_varint_width(n) = Len(LengthOf(n))
           /\ mqtt_write_varint(n) = LengthOf(n)
           /\ n < weight[LengthMax]
  <1> DEFINE S == {w \in 1 .. LengthMax : n < weight[w]}
  <1>0. LengthMax \in Nat /\ LengthMax >= 2 /\ Radix \in Nat /\ Radix >= 4
    BY LengthMaxAssumption, RadixAssumption
  <1>1. n < Radix * Radix
    BY DEF Short
  <1>2. /\ n % Radix \in 0 .. Radix - 1 /\ n \div Radix \in 0 .. Radix - 1
        /\ n < Radix => n \div Radix = 0 /\ n % Radix = n
    BY DigitsOf
  <1>3. n < weight[LengthMax]
    <2>1. LengthMax \in 2 .. LengthMax
      BY <1>0
    <2> QED
      BY <1>1, <2>1, WeightIs
  <1>4. 2 \in S /\ (1 \in S <=> n < Radix)
    BY <1>0, <1>1, WeightIs
  <1>5. Min(S) \in S /\ \A y \in S : Min(S) <= y
    BY <1>0, <1>4, MinIs
  <1>6. Min(S) = IF n < Radix THEN 1 ELSE 2
    <2>1. Min(S) \in 1 .. LengthMax /\ Min(S) <= 2
      BY <1>4, <1>5
    <2> HIDE DEF S
    <2> QED
      BY <1>0, <1>4, <1>5, <2>1
  <1>7. mqtt_varint_width(n) = Min(S)
    BY DEF mqtt_varint_width
  <1>8. Len(LengthOf(n)) = IF n < Radix THEN 1 ELSE 2
    BY LengthIs
  <1> HIDE DEF S
  <1> DEFINE width == Min(S)
  <1>9. mqtt_write_varint(n) =
          [i \in 1 .. width |->
             ((n \div weight[i - 1]) % Radix) + (IF i < width THEN Continued ELSE 0)]
    BY <1>7 DEF mqtt_write_varint
  <1>10. CASE n < Radix
    <2>1. (n \div weight[1 - 1]) % Radix = n
      BY <1>0, <1>2, <1>10, WeightIs
    <2>2. mqtt_write_varint(n) = [i \in 1 .. 1 |-> n]
      BY <1>6, <1>9, <1>10, <2>1
    <2>3. LengthOf(n) = <<n>>
      BY <1>10 DEF LengthOf
    <2>4. [i \in 1 .. 1 |-> n] = <<n>>
      OBVIOUS
    <2> QED
      BY <1>3, <1>6, <1>7, <1>8, <1>10, <2>2, <2>3, <2>4
  <1>11. CASE ~(n < Radix)
    <2>1. /\ (n \div weight[0]) % Radix = n % Radix
          /\ (n \div weight[1]) % Radix = n \div Radix
      BY <1>0, <1>2, WeightIs
    <2>2. LengthOf(n) = <<128 + (n % Radix), n \div Radix>>
      BY <1>11 DEF LengthOf
    <2> DEFINE f == [i \in 1 .. 2 |->
                       ((n \div weight[i - 1]) % Radix) + (IF i < 2 THEN Continued ELSE 0)]
    <2>3. mqtt_write_varint(n) = f
      BY <1>6, <1>9, <1>11
    <2>4. f[1] = 128 + (n % Radix) /\ f[2] = n \div Radix
      <3>1. f[1] = ((n \div weight[0]) % Radix) + Continued /\ f[2] = ((n \div weight[1]) % Radix) + 0
        <4>1. 1 - 1 = 0 /\ 2 - 1 = 1 /\ 1 \in 1 .. 2 /\ 2 \in 1 .. 2 /\ 1 < 2 /\ ~(2 < 2)
          OBVIOUS
        <4> QED
          BY <4>1
      <3> QED
        BY <1>2, <2>1, <3>1 DEF Continued
    <2>5. f = [i \in 1 .. 2 |-> <<128 + (n % Radix), n \div Radix>>[i]]
      <3>1. \A i \in 1 .. 2 : f[i] = <<128 + (n % Radix), n \div Radix>>[i]
        <4>1. \A i \in 1 .. 2 : i = 1 \/ i = 2
          OBVIOUS
        <4> HIDE DEF f
        <4> QED
          BY <2>4, <4>1
      <3>2. f = [i \in 1 .. 2 |-> f[i]]
        OBVIOUS
      <3> HIDE DEF f
      <3> QED
        BY <3>1, <3>2
    <2> HIDE DEF f
    <2>6. f = <<128 + (n % Radix), n \div Radix>>
      BY <2>5
    <2> QED
      BY <1>3, <1>6, <1>7, <1>8, <1>11, <2>2, <2>3, <2>6
  <1> QED
    BY <1>10, <1>11

-----------------------------------------------------------------------------
(* Packets. *)

\* What two sequences of bytes make, byte by byte.
LEMMA Joined ==
    ASSUME NEW a \in Seq(Bytes), NEW b \in Seq(Bytes)
    PROVE  /\ a \o b \in Seq(Bytes) /\ Len(a \o b) = Len(a) + Len(b)
           /\ \A x \in 1 .. Len(a) : (a \o b)[x] = a[x]
           /\ \A x \in 1 .. Len(b) : (a \o b)[Len(a) + x] = b[x]
  OBVIOUS

\* And three, the first of one byte.
LEMMA JoinedThree ==
    ASSUME NEW h \in Seq(Bytes), Len(h) = 1, NEW l \in Seq(Bytes), NEW b \in Seq(Bytes)
    PROVE  /\ h \o l \o b \in Seq(Bytes) /\ Len(h \o l \o b) = 1 + Len(l) + Len(b)
           /\ (h \o l \o b)[1] = h[1]
           /\ \A x \in 1 .. Len(l) : (h \o l \o b)[1 + x] = l[x]
           /\ \A x \in 1 .. Len(b) : (h \o l \o b)[1 + Len(l) + x] = b[x]
  <1>0. /\ h \o l \in Seq(Bytes) /\ Len(h \o l) = Len(h) + Len(l)
        /\ \A x \in 1 .. Len(h) : (h \o l)[x] = h[x]
        /\ \A x \in 1 .. Len(l) : (h \o l)[Len(h) + x] = l[x]
    BY Joined
  <1>1. h \o l \in Seq(Bytes) /\ Len(h \o l) = 1 + Len(l)
    BY <1>0
  <1>2. (h \o l)[1] = h[1] /\ \A x \in 1 .. Len(l) : (h \o l)[1 + x] = l[x]
    BY <1>0
  <1> DEFINE d == h \o l
  <1> HIDE DEF d
  <1>3. d \in Seq(Bytes) /\ Len(d) = 1 + Len(l)
    BY <1>1 DEF d
  <1>4. /\ d \o b \in Seq(Bytes) /\ Len(d \o b) = 1 + Len(l) + Len(b)
        /\ \A x \in 1 .. 1 + Len(l) : (d \o b)[x] = d[x]
        /\ \A x \in 1 .. Len(b) : (d \o b)[1 + Len(l) + x] = b[x]
    BY <1>3, SMTT(60)
  <1>5. 1 \in 1 .. 1 + Len(l) /\ \A x \in 1 .. Len(l) : 1 + x \in 1 .. 1 + Len(l)
    OBVIOUS
  <1> QED
    BY <1>2, <1>4, <1>5 DEF d

\* The bytes of a packet, by their places.
Laid(p, t, f, l, body) ==
    /\ p \in Seq(Bytes) /\ Len(p) = 1 + Len(l) + Len(body) /\ p[1] = 16 * t + f
    /\ \A x \in 1 .. Len(l) : p[1 + x] = l[x]
    /\ \A x \in 1 .. Len(body) : p[1 + Len(l) + x] = body[x]

\* The broker lays its packets out that way.
LEMMA WireIs ==
    ASSUME NEW t \in 1 .. 14, NEW f \in 0 .. 15, NEW body \in Seq(Bytes), Short(Len(body))
    PROVE  Laid(Wire(t, f, body), t, f, LengthOf(Len(body)), body)
  <1>0. Len(body) \in Nat
    OBVIOUS
  <1> DEFINE h == <<16 * t + f>>
             l == LengthOf(Len(body))
  <1>1. Wire(t, f, body) = h \o l \o body
    BY DEF Wire, LengthOf
  <1>2. l \in Seq(Bytes)
    BY <1>0, LengthIs
  <1>3. 16 * t + f \in Bytes
    BY DEF Bytes
  <1>4. h \in Seq(Bytes) /\ Len(h) = 1 /\ h[1] = 16 * t + f
    BY <1>3
  <1> HIDE DEF h, l
  <1>5. /\ h \o l \o body \in Seq(Bytes) /\ Len(h \o l \o body) = 1 + Len(l) + Len(body)
        /\ (h \o l \o body)[1] = h[1]
        /\ \A x \in 1 .. Len(l) : (h \o l \o body)[1 + x] = l[x]
        /\ \A x \in 1 .. Len(body) : (h \o l \o body)[1 + Len(l) + x] = body[x]
    BY <1>2, <1>4, JoinedThree
  <1>6. Laid(h \o l \o body, t, f, l, body)
    BY <1>4, <1>5 DEF Laid
  <1> QED
    BY <1>1, <1>6 DEF l

\* The buffer begins as the packet does, as far as both go.
Agrees(in, p) == \A x \in 1 .. Len(p) : x <= Len(in) => in[x] = p[x]

\* What reading a header finds in a buffer that begins as the packet p does.
Parses(data, p, t, f, body, h) ==
    /\ h \in {2, 3} /\ Len(p) = h + Len(body) /\ p \in Seq(Bytes)
    /\ \A x \in 1 .. Len(body) : p[h + x] = body[x]
    /\ Len(data) < h => decode_header(data) = NotYet
    /\ Len(data) >= h =>
         decode_header(data) =
           [ok |-> TRUE, bad |-> FALSE, type |-> t, flags |-> f,
            remaining |-> Len(body), header_len |-> h]

\* The reader of a header waits until it is all there and then finds what the
\* packet is, whatever follows.
LEMMA HeaderRead ==
    ASSUME NEW t \in 1 .. 14, NEW f \in 0 .. 15, mqtt_flags_are_legal(t, f),
           NEW body \in Seq(Bytes), Short(Len(body)),
           NEW p, p = Wire(t, f, body), NEW h, h = 1 + Len(LengthOf(Len(body))),
           NEW data \in Seq(Bytes), Agrees(data, p)
    PROVE  Parses(data, p, t, f, body, h)
  <1> SUFFICES /\ h \in {2, 3} /\ Len(p) = h + Len(body) /\ p \in Seq(Bytes)
               /\ \A x \in 1 .. Len(body) : p[h + x] = body[x]
               /\ Len(data) < h => decode_header(data) = NotYet
               /\ Len(data) >= h =>
                    decode_header(data) =
                      [ok |-> TRUE, bad |-> FALSE, type |-> t, flags |-> f,
                       remaining |-> Len(body), header_len |-> h]
    BY DEF Parses
  <1> USE DEF Agrees
  <1> DEFINE l == LengthOf(Len(body))
  <1>0. Len(body) \in Nat /\ Len(data) \in Nat
    OBVIOUS
  <1>1. /\ p \in Seq(Bytes) /\ Len(p) = 1 + Len(l) + Len(body) /\ p[1] = 16 * t + f
        /\ \A x \in 1 .. Len(l) : p[1 + x] = l[x]
        /\ \A x \in 1 .. Len(body) : p[1 + Len(l) + x] = body[x]
    <2>1. Laid(p, t, f, l, body)
      BY WireIs
    <2> HIDE DEF l
    <2> QED
      BY <2>1 DEF Laid
  <1>2. l \in Seq(Bytes) /\ Len(l) \in Nat /\ Len(l) >= 1 /\ Len(l) <= 2
    BY <1>0, LengthIs
  <1> HIDE DEF l
  <1>3. h = 1 + Len(l) /\ h \in Nat
    BY <1>2 DEF l
  <1>4. h \in {2, 3} /\ Len(p) = h + Len(body) /\ p \in Seq(Bytes)
        /\ \A x \in 1 .. Len(body) : p[h + x] = body[x]
    <2>1. h \in {2, 3}
      <3>1. \A a \in Nat : a >= 1 /\ a <= 2 => 1 + a \in {2, 3}
        OBVIOUS
      <3> QED
        BY <1>2, <1>3, <3>1
    <2> QED
      BY <1>1, <1>3, <2>1
  <1>5. CASE data = <<>>
    <2>1. decode_header(data) = NotYet
      BY <1>5 DEF decode_header
    <2>2. ~(Len(data) >= h)
      BY <1>2, <1>3, <1>5
    <2> QED
      BY <1>4, <2>1, <2>2
  <1>6. CASE data # <<>>
    <2> DEFINE rest == Tail(data)
    <2>1. Len(data) >= 1 /\ data[1] = 16 * t + f
      <3>1. Len(data) >= 1
        BY <1>0, <1>6
      <3>2. 1 \in 1 .. Len(p)
        BY <1>0, <1>1, <1>2
      <3> QED
        BY <1>1, <3>1, <3>2
    <2>2. data[1] \div 16 = t /\ data[1] % 16 = f
      BY <2>1
    <2>3. rest \in Seq(Bytes) /\ Len(rest) = Len(data) - 1
          /\ \A x \in 1 .. Len(rest) : rest[x] = data[x + 1]
      BY <1>6
    <2> HIDE DEF rest
    <2>4. ASSUME NEW x \in 1 .. Len(l), x <= Len(rest) PROVE rest[x] = l[x]
      <3>1. x \in 1 .. Len(rest) /\ x + 1 \in 1 .. Len(p) /\ x + 1 <= Len(data) /\ 1 + x = x + 1
        BY <1>0, <1>1, <1>2, <2>3, <2>4
      <3> QED
        BY <1>1, <2>3, <3>1
    <2>5. mqtt_read_varint(rest) =
            IF Len(rest) < Len(l) THEN NotYet
            ELSE [ok |-> TRUE, bad |-> FALSE, value |-> Len(body), used |-> Len(l)]
      BY <1>0, <2>3, <2>4, VarintRead DEF l
    <2>6. decode_header(data) =
            IF t \in {0, 15} \/ ~mqtt_flags_are_legal(t, f) THEN Bad
            ELSE IF ~mqtt_read_varint(rest).ok THEN mqtt_read_varint(rest)
            ELSE [ok |-> TRUE, bad |-> FALSE, type |-> t, flags |-> f,
                  remaining |-> mqtt_read_varint(rest).value,
                  header_len |-> 1 + mqtt_read_varint(rest).used]
      BY <1>6, <2>2 DEF decode_header, rest
    <2>7. t \notin {0, 15}
      OBVIOUS
    <2>8. CASE Len(data) < h
      <3>1. Len(rest) < Len(l)
        BY <1>0, <1>2, <1>3, <2>3, <2>8
      <3>2. mqtt_read_varint(rest) = NotYet /\ ~NotYet.ok
        BY <2>5, <3>1 DEF NotYet
      <3>3. decode_header(data) = NotYet
        BY <2>6, <2>7, <3>2
      <3> QED
        BY <1>0, <1>3, <1>4, <2>8, <3>3
    <2>9. CASE ~(Len(data) < h)
      <3>1. ~(Len(rest) < Len(l))
        BY <1>0, <1>2, <1>3, <2>3, <2>9
      <3>2. mqtt_read_varint(rest) =
              [ok |-> TRUE, bad |-> FALSE, value |-> Len(body), used |-> Len(l)]
        BY <2>5, <3>1
      <3>3. decode_header(data) =
              [ok |-> TRUE, bad |-> FALSE, type |-> t, flags |-> f,
               remaining |-> Len(body), header_len |-> 1 + Len(l)]
        BY <2>6, <2>7, <3>2
      <3> QED
        BY <1>3, <1>4, <2>9, <3>3
    <2> QED
      BY <2>8, <2>9
  <1> QED
    BY <1>5, <1>6

\* A packet of a short body leaves the encoder as the broker would write it.
LEMMA BeginPacket ==
    ASSUME NEW t, NEW f, NEW body \in Seq(Bytes), Short(Len(body)),
           NEW cap \in Nat, cap >= 1 + Len(LengthOf(Len(body))) + Len(body)
    PROVE  mqtt_begin_packet(cap, t, f, body) = Wire(t, f, body)
  <1>0. Len(body) \in Nat
    OBVIOUS
  <1>1. /\ mqtt_varint_width(Len(body)) = Len(LengthOf(Len(body)))
        /\ mqtt_write_varint(Len(body)) = LengthOf(Len(body))
        /\ Len(body) < weight[LengthMax]
    BY <1>0, VarintWrite
  <1>2. Len(LengthOf(Len(body))) \in Nat
    BY <1>0, LengthIs
  <1>3. ~(Len(body) >= weight[LengthMax])
    <2>1. LengthMax \in 2 .. LengthMax
      BY LengthMaxAssumption
    <2>2. weight[LengthMax] \in Nat
      BY <2>1, WeightIs
    <2> QED
      BY <1>0, <1>1, <2>2
  <1>4. ~(cap < 1 + mqtt_varint_width(Len(body)) + Len(body))
    <2>1. \A a, b \in Nat : cap >= 1 + b + a => ~(cap < 1 + b + a)
      OBVIOUS
    <2> QED
      BY <1>0, <1>1, <1>2, <2>1
  <1> QED
    BY <1>1, <1>3, <1>4 DEF mqtt_begin_packet, Wire, LengthOf

\* A length below 16 is short, whatever the digits.
LEMMA SmallIsShort == \A n \in 0 .. 15 : Short(n)
  <1>1. Radix \in Nat /\ Radix >= 4
    BY RadixAssumption
  <1>2. \A r \in Nat : r >= 4 => r * r >= 16
    OBVIOUS
  <1>3. Radix * Radix >= 16 /\ Radix * Radix \in Nat
    BY <1>1, <1>2
  <1> QED
    BY <1>3 DEF Short

\* The numbers of two bytes that are less than 256.
LEMMA SmallU16 ==
    ASSUME NEW n \in 0 .. 255
    PROVE  mqtt_write_u16(n) = <<0, n>>
  <1>1. n \div 256 = 0 /\ n % 256 = n
    OBVIOUS
  <1> QED
    BY <1>1 DEF mqtt_write_u16

\* A text of 1 to 255 bytes is a text to the codec.
LEMMA TextSmall ==
    ASSUME NEW s \in Seq(Bytes), Len(s) \in 1 .. 255
    PROVE  s # <<>> /\ ~(Len(s) > StringMax)
  <1>1. \A n \in 1 .. 255 : ~(n > 65535) /\ n # 0
    OBVIOUS
  <1>2. PICK n : n = Len(s)
    OBVIOUS
  <1>3. n \in 1 .. 255
    BY <1>2, Zenon
  <1>4. ~(n > 65535) /\ n # 0
    BY <1>1, <1>3
  <1>5. Len(s) # 0 /\ ~(Len(s) > StringMax)
    BY <1>2, <1>4 DEF StringMax
  <1>6. s # <<>>
    BY <1>5
  <1> QED
    BY <1>5, <1>6

\* A text of less than 256 bytes has its length before it.
LEMMA TextIs ==
    ASSUME NEW s \in Seq(Bytes), Len(s) \in 0 .. 255
    PROVE  /\ mqtt_write_string(s) = Text(s)
           /\ Text(s) \in Seq(Bytes) /\ Len(Text(s)) = 2 + Len(s)
           /\ Text(s)[1] = 0 /\ Text(s)[2] = Len(s)
           /\ \A x \in 1 .. Len(s) : Text(s)[2 + x] = s[x]
  <1>1. mqtt_write_string(s) = Text(s)
    BY SmallU16, Zenon DEF mqtt_write_string, Text
  <1>2. PICK n \in 0 .. 255 : n = Len(s)
    OBVIOUS
  <1> DEFINE h == <<0, n>>
  <1>3. h \in Seq(Bytes) /\ Len(h) = 2 /\ h[1] = 0 /\ h[2] = n
    <2>1. 0 \in Bytes /\ n \in Bytes
      BY DEF Bytes
    <2> QED
      BY <2>1
  <1>4. Text(s) = h \o s
    BY <1>2, Zenon DEF Text
  <1> HIDE DEF h
  <1>5. /\ h \o s \in Seq(Bytes) /\ Len(h \o s) = Len(h) + Len(s)
        /\ \A x \in 1 .. Len(h) : (h \o s)[x] = h[x]
        /\ \A x \in 1 .. Len(s) : (h \o s)[Len(h) + x] = s[x]
    BY <1>3, Joined
  <1>6. 1 \in 1 .. Len(h) /\ 2 \in 1 .. Len(h)
    BY <1>3
  <1> QED
    BY <1>1, <1>2, <1>3, <1>4, <1>5, <1>6, Zenon

\* mqtt_send_connect() writes what the broker knows as a greeting.
LEMMA EncodedConnect ==
    /\ encode_connect(InMax + 32, <<73>>, <<>>, <<>>, TRUE, 60) = Greeting
    /\ Greeting \in Seq(Bytes) /\ Greeting[1] = 16
  <1> DEFINE name == <<0, 4, 77, 81, 84, 84, 4>>
             start == name \o <<2>>
             middle == start \o <<0, 60>>
             body == middle \o Text(<<73>>)
  <1>1. /\ name \in Seq(Bytes) /\ Len(name) = 7
        /\ <<2>> \in Seq(Bytes) /\ Len(<<2>>) = 1
        /\ <<0, 60>> \in Seq(Bytes) /\ Len(<<0, 60>>) = 2
        /\ <<73>> \in Seq(Bytes) /\ Len(<<73>>) = 1
    BY DEF Bytes
  <1>2. /\ mqtt_write_string(<<73>>) = Text(<<73>>)
        /\ Text(<<73>>) \in Seq(Bytes) /\ Len(Text(<<73>>)) = 3
    <2>1. Len(<<73>>) \in 0 .. 255
      BY <1>1
    <2>2. /\ mqtt_write_string(<<73>>) = Text(<<73>>)
          /\ Text(<<73>>) \in Seq(Bytes) /\ Len(Text(<<73>>)) = 2 + Len(<<73>>)
      BY <1>1, <2>1, TextIs, Zenon
    <2> QED
      BY <1>1, <2>2
  <1> HIDE DEF name, start, middle, body
  <1>3. start \in Seq(Bytes) /\ Len(start) = 8
    <2>1. name \o <<2>> \in Seq(Bytes) /\ Len(name \o <<2>>) = Len(name) + Len(<<2>>)
      BY <1>1, Joined, ZenonT(60)
    <2> QED
      BY <1>1, <2>1 DEF start
  <1>4. middle \in Seq(Bytes) /\ Len(middle) = 10
    <2>1. start \o <<0, 60>> \in Seq(Bytes) /\ Len(start \o <<0, 60>>) = Len(start) + Len(<<0, 60>>)
      BY <1>1, <1>3, Joined
    <2> QED
      BY <1>1, <1>3, <2>1 DEF middle
  <1>5. body \in Seq(Bytes) /\ Len(body) = 13
    <2> DEFINE id == Text(<<73>>)
    <2>1. id \in Seq(Bytes) /\ Len(id) = 3 /\ body = middle \o id
      BY <1>2 DEF body
    <2> HIDE DEF id
    <2>2. middle \o id \in Seq(Bytes) /\ Len(middle \o id) = Len(middle) + Len(id)
      BY <1>4, <2>1, Joined
    <2> QED
      BY <1>4, <2>1, <2>2
  <1>6. mqtt_begin_packet(InMax + 32, CONNECT, 0, body) = Wire(CONNECT, 0, body)
    <2>1. Short(Len(body)) /\ Short(13)
      BY <1>5, SmallIsShort
    <2>2. Len(LengthOf(13)) \in Nat /\ Len(LengthOf(13)) <= 2
      BY <2>1, LengthIs
    <2>3. InMax + 32 \in Nat /\ InMax + 32 >= 1 + Len(LengthOf(Len(body))) + Len(body)
      BY <1>5, <2>2, SizesAssumption
    <2> QED
      BY <1>5, <2>1, <2>3, BeginPacket
  <1>7. body \o <<>> \o <<>> = body
    BY <1>5
  <1>8. mqtt_write_u16(60) = <<0, 60>>
    BY SmallU16
  <1>9. /\ ~(\E text \in {<<73>>, <<>>, <<>>} : Len(text) > StringMax)
        /\ <<73>> # <<>>
    BY DEF StringMax
  <1>10. encode_connect(InMax + 32, <<73>>, <<>>, <<>>, TRUE, 60) =
           mqtt_begin_packet(InMax + 32, CONNECT, 0, body \o <<>> \o <<>>)
    <2>1. (IF TRUE THEN 2 ELSE 0) + (IF <<>> # <<>> THEN 64 ELSE 0)
            + (IF <<>> # <<>> THEN 128 ELSE 0) = 2
      OBVIOUS
    <2> QED
      BY <1>2, <1>8, <1>9, <2>1, ZenonT(60) DEF encode_connect, body, middle, start, name
  <1>11. Greeting = Wire(1, 0, body)
    BY DEF Greeting, CONNECT, body, middle, start, name
  <1>12. Laid(Wire(1, 0, body), 1, 0, LengthOf(Len(body)), body)
    <2>1. Short(13) /\ 1 \in 1 .. 14 /\ 0 \in 0 .. 15
      BY SmallIsShort
    <2>2. Short(Len(body))
      BY <1>5, <2>1
    <2> QED
      BY <1>5, <2>1, <2>2, WireIs
  <1>13. Wire(1, 0, body) \in Seq(Bytes) /\ Wire(1, 0, body)[1] = 16 * 1 + 0
    BY <1>12 DEF Laid
  <1>14. Greeting = mqtt_begin_packet(InMax + 32, CONNECT, 0, body \o <<>> \o <<>>)
    BY <1>6, <1>7, <1>11 DEF CONNECT
  <1>15. 16 * 1 + 0 = 16
    OBVIOUS
  <1> QED
    BY <1>10, <1>11, <1>13, <1>14, <1>15

\* The keepalive writes what the broker knows as a ping.
LEMMA EncodedPing ==
    /\ encode_empty(2, PINGREQ) = Wire(PINGREQ, 0, <<>>)
    /\ Wire(PINGREQ, 0, <<>>) \in Seq(Bytes) /\ Wire(PINGREQ, 0, <<>>)[1] = 192
  <1>1. <<>> \in Seq(Bytes) /\ Len(<<>>) = 0
    OBVIOUS
  <1>2. Short(0)
    BY SmallIsShort
  <1>3. Len(LengthOf(0)) = 1
    BY RadixAssumption DEF LengthOf
  <1>4. ASSUME NEW e \in Seq(Bytes), Len(e) = 0
        PROVE  /\ mqtt_begin_packet(2, PINGREQ, 0, e) = Wire(PINGREQ, 0, e)
               /\ Laid(Wire(12, 0, e), 12, 0, LengthOf(Len(e)), e)
    <2>1. Short(Len(e))
      BY <1>2, <1>4
    <2>2. Len(LengthOf(Len(e))) = 1
      BY <1>3, <1>4
    <2>3. 2 >= 1 + Len(LengthOf(Len(e))) + Len(e)
      <3>1. \A a, b : a = 1 /\ b = 0 => 2 >= 1 + a + b
        OBVIOUS
      <3> QED
        BY <1>4, <2>2, <3>1
    <2>4. Laid(Wire(12, 0, e), 12, 0, LengthOf(Len(e)), e)
      <3>1. 12 \in 1 .. 14 /\ 0 \in 0 .. 15
        OBVIOUS
      <3> QED
        BY <2>1, <3>1, WireIs
    <2> QED
      BY <2>1, <2>3, <2>4, BeginPacket
  <1>5. mqtt_begin_packet(2, PINGREQ, 0, <<>>) = Wire(PINGREQ, 0, <<>>)
    BY <1>1, <1>4
  <1>6. Laid(Wire(12, 0, <<>>), 12, 0, LengthOf(Len(<<>>)), <<>>)
    BY <1>1, <1>4
  <1>7. Wire(12, 0, <<>>) \in Seq(Bytes) /\ Wire(12, 0, <<>>)[1] = 16 * 12 + 0
    BY <1>6 DEF Laid
  <1> QED
    BY <1>5, <1>7 DEF encode_empty, PINGREQ

\* publish() writes what the broker knows as the application's message.
LEMMA EncodedPublish ==
    /\ encode_publish(InMax, Topic, <<1>>, FALSE) = OurMessage
    /\ OurMessage \in Seq(Bytes) /\ OurMessage[1] = 48
  <1>0. InMax \in Nat
    BY SizesAssumption
  <1>1. Topic \in Seq(Bytes) /\ Len(Topic) \in 1 .. 255 /\ Short(3 + Len(Topic))
        /\ Len(Topic) + 6 <= InMax
    BY TopicAssumption DEF Bytes
  <1> DEFINE body == Text(Topic) \o <<1>>
  <1>2. /\ mqtt_write_string(Topic) = Text(Topic)
        /\ Text(Topic) \in Seq(Bytes) /\ Len(Text(Topic)) = 2 + Len(Topic)
    <2>1. Len(Topic) \in 0 .. 255
      BY <1>1
    <2> QED
      BY <1>1, <2>1, TextIs, Zenon
  <1>3. body \in Seq(Bytes) /\ Len(body) = 3 + Len(Topic)
    <2>1. <<1>> \in Seq(Bytes) /\ Len(<<1>>) = 1
      BY DEF Bytes
    <2>2. body \in Seq(Bytes) /\ Len(body) = Len(Text(Topic)) + Len(<<1>>)
      BY <1>2, <2>1, Joined
    <2> QED
      BY <1>1, <1>2, <2>1, <2>2
  <1> HIDE DEF body
  <1>4. Len(LengthOf(3 + Len(Topic))) \in Nat /\ Len(LengthOf(3 + Len(Topic))) <= 2
    <2>1. 3 + Len(Topic) \in Nat
      BY <1>1
    <2> QED
      BY <1>1, <2>1, LengthIs
  <1>5. mqtt_begin_packet(InMax, PUBLISH, 0, body) = Wire(PUBLISH, 0, body)
    <2>1. \A a, b \in Nat : a <= 2 /\ b + 6 <= InMax => InMax >= 1 + a + (3 + b)
      BY <1>0
    <2>2. InMax >= 1 + Len(LengthOf(Len(body))) + Len(body)
      BY <1>1, <1>3, <1>4, <2>1
    <2> QED
      BY <1>0, <1>1, <1>3, <2>2, BeginPacket
  <1>6. Topic # <<>> /\ ~(Len(Topic) > StringMax)
    BY <1>1, TextSmall
  <1>7. encode_publish(InMax, Topic, <<1>>, FALSE) = mqtt_begin_packet(InMax, PUBLISH, 0, body)
    BY <1>2, <1>6 DEF encode_publish, body
  <1>8. OurMessage = Wire(PUBLISH, 0, body)
    BY DEF OurMessage, body
  <1>9. Laid(Wire(3, 0, body), 3, 0, LengthOf(Len(body)), body)
    BY <1>1, <1>3, WireIs
  <1>10. Wire(3, 0, body) \in Seq(Bytes) /\ Wire(3, 0, body)[1] = 16 * 3 + 0
    BY <1>9 DEF Laid
  <1>11. 16 * 3 + 0 = 48
    OBVIOUS
  <1> QED
    BY <1>5, <1>7, <1>8, <1>10, <1>11 DEF PUBLISH

\* The pump writes what the broker knows as a subscription.
LEMMA EncodedSubscribe ==
    ASSUME NEW id \in 1 .. FiltersMax, NEW f \in Filters
    PROVE  /\ encode_subscribe(256 + 16, id, f) = SubscribeOf(id, f)
           /\ SubscribeOf(id, f) \in Seq(Bytes) /\ SubscribeOf(id, f)[1] = 130
  <1>1. f \in Seq(Bytes) /\ Len(f) \in 1 .. 255 /\ Short(5 + Len(f))
    BY FiltersAssumption DEF Bytes
  <1>2. id \in 0 .. 255 /\ id # 0 /\ FiltersMax \in Nat
    BY BufferAssumption, SizesAssumption
  <1> DEFINE head == <<0, id>>
             start == head \o Text(f)
             body == start \o <<0>>
  <1>3. /\ mqtt_write_string(f) = Text(f)
        /\ Text(f) \in Seq(Bytes) /\ Len(Text(f)) = 2 + Len(f)
    <2>1. Len(f) \in 0 .. 255
      BY <1>1
    <2> QED
      BY <1>1, <2>1, TextIs, Zenon
  <1>4. body \in Seq(Bytes) /\ Len(body) = 5 + Len(f)
    <2>1. 0 \in Bytes /\ id \in Bytes
      BY <1>2 DEF Bytes
    <2>2. /\ head \in Seq(Bytes) /\ Len(head) = 2
          /\ <<0>> \in Seq(Bytes) /\ Len(<<0>>) = 1
      BY <2>1
    <2> HIDE DEF head
    <2>3. start \in Seq(Bytes) /\ Len(start) = Len(head) + Len(Text(f))
      BY <1>3, <2>2, Joined
    <2> HIDE DEF start
    <2>4. body \in Seq(Bytes) /\ Len(body) = Len(start) + Len(<<0>>)
      BY <2>2, <2>3, Joined
    <2> HIDE DEF body
    <2> QED
      BY <1>1, <1>3, <2>2, <2>3, <2>4
  <1> HIDE DEF body
  <1>5. Len(LengthOf(5 + Len(f))) \in Nat /\ Len(LengthOf(5 + Len(f))) <= 2
    <2>1. 5 + Len(f) \in Nat
      BY <1>1
    <2> QED
      BY <1>1, <2>1, LengthIs
  <1>6. mqtt_begin_packet(256 + 16, SUBSCRIBE, 2, body) = Wire(SUBSCRIBE, 2, body)
    <2>1. \A a \in Nat, b \in 1 .. 255 : a <= 2 => 256 + 16 >= 1 + a + (5 + b)
      OBVIOUS
    <2>2. 256 + 16 >= 1 + Len(LengthOf(Len(body))) + Len(body)
      BY <1>1, <1>4, <1>5, <2>1, Zenon
    <2>3. 256 + 16 \in Nat
      OBVIOUS
    <2> QED
      BY <1>1, <1>4, <2>2, <2>3, BeginPacket
  <1>7. f # <<>> /\ ~(Len(f) > StringMax)
    BY <1>1, TextSmall
  <1>8. encode_subscribe(256 + 16, id, f) = mqtt_begin_packet(256 + 16, SUBSCRIBE, 2, body)
    <2>1. mqtt_write_u16(id) = <<0, id>>
      BY <1>2, SmallU16
    <2>2. mqtt_write_u16(id) \o mqtt_write_string(f) \o <<0>> = body
      BY <1>3, <2>1 DEF body
    <2> QED
      BY <1>2, <1>7, <2>2 DEF encode_subscribe
  <1>9. SubscribeOf(id, f) = Wire(SUBSCRIBE, 2, body)
    BY DEF SubscribeOf, body
  <1>10. Laid(Wire(8, 2, body), 8, 2, LengthOf(Len(body)), body)
    BY <1>1, <1>4, WireIs
  <1>11. Wire(8, 2, body) \in Seq(Bytes) /\ Wire(8, 2, body)[1] = 16 * 8 + 2
    BY <1>10 DEF Laid
  <1> QED
    BY <1>6, <1>8, <1>9, <1>11 DEF SUBSCRIBE

\* A part of a sequence of bytes is the sequence that has its bytes.
LEMMA SubSeqIs ==
    ASSUME NEW s \in Seq(Bytes), NEW t \in Seq(Bytes), NEW a \in Nat,
           a + Len(t) <= Len(s), \A x \in 1 .. Len(t) : s[a + x] = t[x]
    PROVE  SubSeq(s, a + 1, a + Len(t)) = t
  <1> DEFINE u == SubSeq(s, a + 1, a + Len(t))
  <1>1. /\ u \in Seq(Bytes) /\ Len(u) = Len(t)
        /\ \A x \in 1 .. Len(t) : u[x] = s[a + x]
    <2>1. PICK n \in Nat : n = Len(t)
      OBVIOUS
    <2>2. PICK k \in Nat : k = Len(s)
      OBVIOUS
    <2>3. /\ a + 1 \in 1 .. k + 1 /\ a + n \in (a + 1) - 1 .. k
          /\ (a + n) - (a + 1) + 1 = n
          /\ \A x \in 1 .. n : (a + 1) + x - 1 = a + x
      BY <2>1, <2>2
    <2>4. /\ u \in Seq(Bytes) /\ Len(u) = n
          /\ \A x \in 1 .. n : u[x] = s[(a + 1) + x - 1]
      BY <2>1, <2>2, <2>3, SubSeqProperties
    <2> QED
      BY <2>1, <2>3, <2>4
  <1> HIDE DEF u
  <1>2. u = t
    BY <1>1
  <1> QED
    BY <1>2 DEF u

\* What the client sends, and what the broker makes of it.
Subscriptions == {SubscribeOf(x[1], x[2]) : x \in (1 .. FiltersMax) \X Filters}
Ours == {Greeting, Wire(PINGREQ, 0, <<>>), OurMessage} \cup Subscriptions

\* They are bytes, and the greeting is known by its first.
LEMMA OursIs ==
    /\ Ours \subseteq Seq(Bytes)
    /\ \A p \in Ours : p = Greeting \/ p[1] # 16
    /\ Greeting[1] = 16
  <1>1. /\ Greeting \in Seq(Bytes) /\ Greeting[1] = 16
        /\ Wire(PINGREQ, 0, <<>>) \in Seq(Bytes) /\ Wire(PINGREQ, 0, <<>>)[1] = 192
        /\ OurMessage \in Seq(Bytes) /\ OurMessage[1] = 48
    BY EncodedConnect, EncodedPing, EncodedPublish
  <1>2. \A p \in Subscriptions : p \in Seq(Bytes) /\ p[1] = 130
    BY EncodedSubscribe DEF Subscriptions
  <1>3. ASSUME NEW p \in Ours PROVE p \in Seq(Bytes) /\ (p = Greeting \/ p[1] # 16)
    <2>1. CASE p \in Subscriptions
      BY <1>2, <2>1
    <2>2. CASE p \notin Subscriptions
      <3>1. p = Greeting \/ p = Wire(PINGREQ, 0, <<>>) \/ p = OurMessage
        BY <2>2 DEF Ours
      <3> QED
        BY <1>1, <3>1
    <2> QED
      BY <2>1, <2>2
  <1> QED
    BY <1>1, <1>3

\* What is asked of the broker by one of our packets.
LEMMA AsksIs ==
    ASSUME NEW p \in Ours
    PROVE  /\ Asks(p) # {} \/ p = OurMessage
           /\ \A a \in Asks(p) :
                \/ a.kind = "connack" /\ p = Greeting
                \/ a.kind = "pingresp" /\ p # Greeting
                \/ a.kind = "suback" /\ p # Greeting /\ a.id \in 1 .. FiltersMax
  <1>1. CASE p = Greeting
    BY <1>1 DEF Asks
  <1>2. CASE p # Greeting /\ p = Wire(PINGREQ, 0, <<>>)
    <2>1. Asks(p) = {[kind |-> "pingresp"]}
      BY <1>2 DEF Asks
    <2>2. \A a \in {[kind |-> "pingresp"]} : a.kind = "pingresp"
      OBVIOUS
    <2> HIDE DEF Ours
    <2> QED
      BY <1>2, <2>1, <2>2, Zenon
  <1>3. CASE p # Greeting /\ p # Wire(PINGREQ, 0, <<>>)
    <2> DEFINE Y == {y \in (1 .. FiltersMax) \X Filters : p = SubscribeOf(y[1], y[2])}
    <2>1. Asks(p) = {[kind |-> "suback", id |-> x[1], filter |-> x[2]] : x \in Y}
      BY <1>3 DEF Asks
    <2>2. ASSUME NEW a \in Asks(p) PROVE a.kind = "suback" /\ a.id \in 1 .. FiltersMax
      <3>1. PICK x \in Y : a = [kind |-> "suback", id |-> x[1], filter |-> x[2]]
        BY <2>1
      <3>2. x[1] \in 1 .. FiltersMax
        OBVIOUS
      <3> QED
        BY <3>1, <3>2
    <2>3. Asks(p) # {} \/ p = OurMessage
      <3>1. SUFFICES ASSUME p # OurMessage PROVE Asks(p) # {}
        OBVIOUS
      <3>2. p \in Subscriptions
        BY <1>3, <3>1 DEF Ours
      <3>3. PICK x \in (1 .. FiltersMax) \X Filters : p = SubscribeOf(x[1], x[2])
        BY <3>2 DEF Subscriptions
      <3>4. x \in Y
        BY <3>3
      <3> QED
        BY <2>1, <3>4
    <2> QED
      BY <1>3, <2>2, <2>3
  <1> QED
    BY <1>1, <1>2, <1>3

-----------------------------------------------------------------------------
(* What the broker says. *)

\* A packet of the broker's, and what the reader is to make of it.
Speech ==
    {[bytes |-> Wire(CONNACK, 0, <<0, code>>), seen |-> Seen(CONNACK, <<code>>)] : code \in {0, 5}}
      \cup {[bytes |-> Wire(PINGRESP, 0, <<>>), seen |-> Seen(PINGRESP, <<>>)]}
      \cup {[bytes |-> Wire(SUBACK, 0, <<0, x[1], x[2]>>), seen |-> Seen(SUBACK, <<x[1], x[2]>>)] :
              x \in (1 .. FiltersMax) \X {0, 128}}
      \cup {[bytes |-> PacketOf(m), seen |-> SeenOf(m)] : m \in Messages}

BodyOf(m) == Text(m.topic) \o (IF m.qos > 0 THEN <<0, 7>> ELSE <<>>) \o m.payload

\* A message's body, by its places, and what a decoder makes of it.
LEMMA PublishRead ==
    ASSUME NEW m \in Messages
    PROVE  /\ 2 * m.qos \in 0 .. 15
           /\ BodyOf(m) \in Seq(Bytes) /\ Short(Len(BodyOf(m)))
           /\ decode_publish(2 * m.qos, BodyOf(m)) =
                [ok |-> TRUE, bad |-> FALSE, topic |-> m.topic, payload |-> m.payload]
  <1> DEFINE id == IF m.qos > 0 THEN <<0, 7>> ELSE <<>>
             start == Text(m.topic) \o id
             body == BodyOf(m)
             n == IF m.qos > 0 THEN 2 ELSE 0
  <1>1. /\ m.topic \in Seq(Bytes) /\ Len(m.topic) \in 1 .. 255
        /\ m.payload \in Seq(Bytes) /\ m.qos \in 0 .. 2
        /\ Short(4 + Len(m.topic) + Len(m.payload))
    BY MessagesAssumption, Zenon DEF Bytes
  <1> DEFINE t == Len(m.topic)
             text == Text(m.topic)
  <1>2. /\ text \in Seq(Bytes) /\ Len(text) = 2 + t
        /\ text[1] = 0 /\ text[2] = t
        /\ \A x \in 1 .. t : text[2 + x] = m.topic[x]
    <2>1. Len(m.topic) \in 0 .. 255
      BY <1>1
    <2> QED
      BY <1>1, <2>1, TextIs, Zenon
  <1>3. id \in Seq(Bytes) /\ Len(id) = n /\ n \in Nat /\ n <= 2
    <2>1. <<0, 7>> \in Seq(Bytes) /\ Len(<<0, 7>>) = 2 /\ <<>> \in Seq(Bytes) /\ Len(<<>>) = 0
      BY DEF Bytes
    <2> QED
      BY <2>1
  <1>4. t \in 1 .. 255
    BY <1>1
  <1> HIDE DEF id, t, text, n
  <1>5. /\ start = text \o id /\ body = start \o m.payload
    BY DEF BodyOf, text, id
  <1> HIDE DEF start, body
  <1>6. /\ start \in Seq(Bytes) /\ Len(start) = Len(text) + Len(id)
        /\ \A x \in 1 .. Len(text) : start[x] = text[x]
    BY <1>2, <1>3, <1>5, Joined
  <1>7. /\ body \in Seq(Bytes) /\ Len(body) = Len(start) + Len(m.payload)
        /\ \A x \in 1 .. Len(start) : body[x] = start[x]
        /\ \A x \in 1 .. Len(m.payload) : body[Len(start) + x] = m.payload[x]
    BY <1>1, <1>5, <1>6, Joined, SMTT(60)
  <1>8. PICK l \in Nat : l = Len(m.payload)
    BY <1>1
  <1>9. Len(start) = 2 + t + n /\ Len(body) = 2 + t + n + l
    BY <1>2, <1>3, <1>4, <1>6, <1>7, <1>8
  <1>a. 2 + t <= 2 + t + n + l /\ ~(2 + t + n + l < 2) /\ ~(2 + t + n > 2 + t + n + l) /\ t # 0
    <2>1. \A a \in 1 .. 255, b, d \in Nat :
             2 + a <= 2 + a + b + d /\ ~(2 + a + b + d < 2) /\ ~(2 + a + b > 2 + a + b + d) /\ a # 0
      OBVIOUS
    <2>2. n \in Nat
      BY <1>3
    <2> QED
      BY <1>4, <2>1, <2>2
  <1>10. Short(Len(body))
    <2>1. 4 + t + l < Radix * Radix
      BY <1>1, <1>8 DEF Short, t
    <2>2. Len(body) < Radix * Radix
      BY <1>3, <1>4, <1>9, <2>1, WeightIs
    <2> QED
      BY <2>2 DEF Short
  <1>11. body[1] = 0 /\ body[2] = t
    <2>1. 1 \in 1 .. Len(start) /\ 2 \in 1 .. Len(start) /\ 1 \in 1 .. Len(text) /\ 2 \in 1 .. Len(text)
      BY <1>2, <1>3, <1>4, <1>9
    <2> QED
      BY <1>2, <1>6, <1>7, <2>1
  <1>12. SubSeq(body, 3, 2 + t) = m.topic
    <2>1. \A x \in 1 .. t : body[2 + x] = m.topic[x]
      <3>1. \A x \in 1 .. t : 2 + x \in 1 .. Len(start) /\ 2 + x \in 1 .. Len(text)
        BY <1>2, <1>3, <1>4, <1>9
      <3> QED
        BY <1>2, <1>6, <1>7, <3>1
    <2>2. 2 + t <= Len(body)
      BY <1>9, <1>a
    <2>3. m.topic \in Seq(Bytes) /\ Len(m.topic) = t
      BY <1>1 DEF t
    <2>4. SubSeq(body, 2 + 1, 2 + Len(m.topic)) = m.topic
      BY <1>7, <2>1, <2>2, <2>3, SubSeqIs
    <2> QED
      BY <2>3, <2>4
  <1>13. SubSeq(body, 2 + t + n + 1, Len(body)) = m.payload
    <2>1. \A x \in 1 .. l : body[(2 + t + n) + x] = m.payload[x]
      BY <1>7, <1>8, <1>9
    <2>2. 2 + t + n \in Nat
      BY <1>3, <1>4
    <2>a. (2 + t + n) + Len(m.payload) <= Len(body)
      <3>1. \A a, b, d \in Nat : (2 + a + b) + d <= 2 + a + b + d
        OBVIOUS
      <3> QED
        BY <1>3, <1>4, <1>8, <1>9, <3>1
    <2>3. SubSeq(body, (2 + t + n) + 1, (2 + t + n) + Len(m.payload)) = m.payload
      BY <1>1, <1>7, <1>8, <2>1, <2>2, <2>a, SubSeqIs, Zenon
    <2> QED
      BY <1>8, <1>9, <2>3
  <1>14. 2 * m.qos \in 0 .. 15 /\ ((2 * m.qos) % 8) \div 2 = m.qos
    BY <1>1
  <1>15. mqtt_read_u16(body) = t
    BY <1>4, <1>11 DEF mqtt_read_u16
  <1>16. decode_publish(2 * m.qos, body) =
           [ok |-> TRUE, bad |-> FALSE, topic |-> m.topic, payload |-> m.payload]
    <2>1. ~(m.qos > 2) /\ ~(Len(body) < 2) /\ t # 0 /\ ~(2 + t + n > Len(body))
      <3>1. \A q \in 0 .. 2 : ~(q > 2)
        OBVIOUS
      <3> QED
        BY <1>1, <1>9, <1>a, <3>1
    <2>2. n = IF m.qos > 0 THEN 2 ELSE 0
      BY DEF n
    <2> QED
      BY <1>12, <1>13, <1>14, <1>15, <2>1, <2>2 DEF decode_publish
  <1> QED
    BY <1>7, <1>10, <1>14, <1>16 DEF body

\* What a packet makes of the reader's handlers.
Makes(t, f, body, s) ==
    \/ /\ t = CONNACK /\ Len(body) <= 3
       /\ \E code \in {0, 5} :
            /\ decode_connack(body) = [ok |-> TRUE, bad |-> FALSE, code |-> code]
            /\ s = Seen(CONNACK, <<code>>)
    \/ t = PINGRESP /\ Len(body) <= 3 /\ body = <<>> /\ s = Seen(PINGRESP, <<>>)
    \/ /\ t = SUBACK /\ Len(body) <= 3
       /\ \E id \in 1 .. FiltersMax, code \in {0, 128} :
            /\ decode_suback(body) = [ok |-> TRUE, bad |-> FALSE, id |-> id, code |-> code]
            /\ s = Seen(SUBACK, <<id, code>>)
    \/ t = PUBLISH /\ Len(Wire(t, f, body)) > InMax /\ s = Skipped
    \/ /\ t = PUBLISH /\ Len(Wire(t, f, body)) <= InMax
       /\ \E m \in Messages :
            /\ decode_publish(f, body) =
                 [ok |-> TRUE, bad |-> FALSE, topic |-> m.topic, payload |-> m.payload]
            /\ s = Seen(PUBLISH, <<m.topic, m.payload>>)

Meant(x, t, f, body) ==
    /\ x.bytes = Wire(t, f, body) /\ Short(Len(body)) /\ mqtt_flags_are_legal(t, f)
    /\ Makes(t, f, body, x.seen)

\* Every packet of the broker's is well formed, and its handler reads out of it
\* what the broker meant.
LEMMA SpeechIs ==
    ASSUME NEW x \in Speech
    PROVE  \E t \in 1 .. 14, f \in 0 .. 15, body \in Seq(Bytes) : Meant(x, t, f, body)
  <1>1. CASE \E code \in {0, 5} :
               x = [bytes |-> Wire(CONNACK, 0, <<0, code>>), seen |-> Seen(CONNACK, <<code>>)]
    <2>1. PICK code \in {0, 5} :
             x = [bytes |-> Wire(CONNACK, 0, <<0, code>>), seen |-> Seen(CONNACK, <<code>>)]
      BY <1>1
    <2> DEFINE body == <<0, code>>
    <2>2. body \in Seq(Bytes) /\ Len(body) = 2 /\ body[1] = 0 /\ body[2] = code
      <3>1. 0 \in Bytes /\ code \in Bytes
        BY DEF Bytes
      <3> QED
        BY <3>1
    <2>3. x.bytes = Wire(CONNACK, 0, body) /\ x.seen = Seen(CONNACK, <<code>>)
      BY <2>1
    <2> HIDE DEF body
    <2>4. decode_connack(body) = [ok |-> TRUE, bad |-> FALSE, code |-> code]
      BY <2>2 DEF decode_connack
    <2>5. Short(Len(body)) /\ Len(body) <= 3
      <3>1. Short(2) /\ 2 <= 3
        BY SmallIsShort
      <3> QED
        BY <2>2, <3>1
    <2>6. mqtt_flags_are_legal(CONNACK, 0)
      BY DEF mqtt_flags_are_legal, CONNACK, PUBLISH, PUBREL, SUBSCRIBE, UNSUBSCRIBE
    <2>7. Meant(x, CONNACK, 0, body)
      BY <2>3, <2>4, <2>5, <2>6 DEF Meant, Makes
    <2>8. CONNACK \in 1 .. 14 /\ 0 \in 0 .. 15
      BY DEF CONNACK
    <2> QED
      BY <2>2, <2>7, <2>8
  <1>2. CASE x = [bytes |-> Wire(PINGRESP, 0, <<>>), seen |-> Seen(PINGRESP, <<>>)]
    <2>1. x.bytes = Wire(PINGRESP, 0, <<>>) /\ x.seen = Seen(PINGRESP, <<>>)
      BY <1>2
    <2>2. <<>> \in Seq(Bytes) /\ Short(Len(<<>>)) /\ Len(<<>>) <= 3
      BY SmallIsShort
    <2>3. mqtt_flags_are_legal(PINGRESP, 0)
      BY DEF mqtt_flags_are_legal, PINGRESP, PUBLISH, PUBREL, SUBSCRIBE, UNSUBSCRIBE
    <2>4. Meant(x, PINGRESP, 0, <<>>)
      BY <2>1, <2>2, <2>3 DEF Meant, Makes
    <2>5. PINGRESP \in 1 .. 14 /\ 0 \in 0 .. 15
      BY DEF PINGRESP
    <2> QED
      BY <2>2, <2>4, <2>5
  <1>3. CASE \E y \in (1 .. FiltersMax) \X {0, 128} :
               x = [bytes |-> Wire(SUBACK, 0, <<0, y[1], y[2]>>), seen |-> Seen(SUBACK, <<y[1], y[2]>>)]
    <2>1. PICK y \in (1 .. FiltersMax) \X {0, 128} :
             x = [bytes |-> Wire(SUBACK, 0, <<0, y[1], y[2]>>), seen |-> Seen(SUBACK, <<y[1], y[2]>>)]
      BY <1>3
    <2>a. PICK id \in 1 .. FiltersMax, code \in {0, 128} : id = y[1] /\ code = y[2]
      OBVIOUS
    <2> DEFINE body == <<0, id, code>>
    <2>2. body \in Seq(Bytes) /\ Len(body) = 3 /\ body[1] = 0 /\ body[2] = id /\ body[3] = code
      <3>1. 0 \in Bytes /\ code \in Bytes /\ id \in Bytes
        BY BufferAssumption, SizesAssumption DEF Bytes
      <3> QED
        BY <3>1
    <2>3. x.bytes = Wire(SUBACK, 0, body) /\ x.seen = Seen(SUBACK, <<id, code>>)
      BY <2>1, <2>a
    <2> HIDE DEF body
    <2>4. decode_suback(body) = [ok |-> TRUE, bad |-> FALSE, id |-> id, code |-> code]
      <3>1. mqtt_read_u16(body) = id
        BY <2>2, SizesAssumption DEF mqtt_read_u16
      <3> QED
        BY <2>2, <3>1 DEF decode_suback
    <2>5. Short(Len(body)) /\ Len(body) <= 3
      <3>1. Short(3) /\ 3 <= 3
        BY SmallIsShort
      <3> QED
        BY <2>2, <3>1
    <2>6. mqtt_flags_are_legal(SUBACK, 0)
      BY DEF mqtt_flags_are_legal, SUBACK, PUBLISH, PUBREL, SUBSCRIBE, UNSUBSCRIBE
    <2>7. Meant(x, SUBACK, 0, body)
      BY <2>3, <2>4, <2>5, <2>6, ZenonT(60) DEF Meant, Makes
    <2>8. SUBACK \in 1 .. 14 /\ 0 \in 0 .. 15
      BY DEF SUBACK
    <2> QED
      BY <2>2, <2>7, <2>8
  <1>4. CASE \E m \in Messages : x = [bytes |-> PacketOf(m), seen |-> SeenOf(m)]
    <2>1. PICK m \in Messages : x = [bytes |-> PacketOf(m), seen |-> SeenOf(m)]
      BY <1>4
    <2> DEFINE body == BodyOf(m)
               f == 2 * m.qos
    <2>2. /\ f \in 0 .. 15 /\ body \in Seq(Bytes) /\ Short(Len(body))
          /\ decode_publish(f, body) =
               [ok |-> TRUE, bad |-> FALSE, topic |-> m.topic, payload |-> m.payload]
      BY PublishRead
    <2>3. PacketOf(m) = Wire(PUBLISH, f, body)
      BY DEF PacketOf, BodyOf
    <2>4. Len(PacketOf(m)) > InMax <=> ~(Len(PacketOf(m)) <= InMax)
      <3>1. PUBLISH \in 1 .. 14
        BY DEF PUBLISH
      <3>2. Laid(Wire(PUBLISH, f, body), PUBLISH, f, LengthOf(Len(body)), body)
        BY <2>2, <3>1, WireIs
      <3>3. Wire(PUBLISH, f, body) \in Seq(Bytes)
        BY <3>2 DEF Laid
      <3>4. Len(Wire(PUBLISH, f, body)) \in Nat
        BY <3>3
      <3>5. \A a, b \in Nat : a > b <=> ~(a <= b)
        OBVIOUS
      <3> QED
        BY <2>3, <3>4, <3>5, SizesAssumption
    <2>5. mqtt_flags_are_legal(PUBLISH, f)
      BY DEF mqtt_flags_are_legal, PUBLISH, PUBREL, SUBSCRIBE, UNSUBSCRIBE
    <2>6. x.bytes = PacketOf(m) /\ x.seen = SeenOf(m)
      BY <2>1
    <2> HIDE DEF body, f
    <2>7. Makes(PUBLISH, f, body, x.seen)
      <3>1. CASE Len(PacketOf(m)) > InMax
        BY <2>3, <2>6, <3>1 DEF Makes, SeenOf
      <3>2. CASE ~(Len(PacketOf(m)) > InMax)
        BY <2>2, <2>3, <2>4, <2>6, <3>2 DEF Makes, SeenOf
      <3> QED
        BY <3>1, <3>2
    <2>8. Meant(x, PUBLISH, f, body)
      BY <2>2, <2>3, <2>5, <2>6, <2>7 DEF Meant
    <2>9. PUBLISH \in 1 .. 14
      BY DEF PUBLISH
    <2> QED
      BY <2>2, <2>8, <2>9
  <1> QED
    BY <1>1, <1>2, <1>3, <1>4 DEF Speech

\* So they are bytes, and not oversized unless they are messages.
LEMMA SpeechBytes == \A x \in Speech : x.bytes \in Seq(Bytes)
  <1> SUFFICES ASSUME NEW x \in Speech PROVE x.bytes \in Seq(Bytes)
    OBVIOUS
  <1>1. PICK t \in 1 .. 14, f \in 0 .. 15, body \in Seq(Bytes) : Meant(x, t, f, body)
    BY SpeechIs
  <1>2. Laid(Wire(t, f, body), t, f, LengthOf(Len(body)), body)
    BY <1>1, WireIs DEF Meant
  <1> QED
    BY <1>1, <1>2 DEF Meant, Laid

-----------------------------------------------------------------------------
(* Places in a stream of bytes. *)

\* The bytes s are those of the stream w behind the first o.
At(s, w, o) == o + Len(s) <= Len(w) /\ \A x \in 1 .. Len(s) : w[o + x] = s[x]

\* So are those of the items, one after the other, from `from` to `to`.
Strung(items, w, from, to) ==
    \E pos \in [0 .. Len(items) -> Nat] :
      /\ pos[0] = from /\ pos[Len(items)] = to
      /\ \A j \in 1 .. Len(items) :
           pos[j] = pos[j - 1] + Len(items[j].bytes) /\ At(items[j].bytes, w, pos[j - 1])

\* Things that have bytes.
Carriers(S) == \A x \in S : x.bytes \in Seq(Bytes)

\* A piece of a stream stays where it is when the stream grows.
LEMMA AtLonger ==
    ASSUME NEW s \in Seq(Bytes), NEW w \in Seq(Bytes), NEW p \in Seq(Bytes), NEW o \in Nat,
           At(s, w, o)
    PROVE  At(s, w \o p, o)
  <1>1. /\ Len(w \o p) = Len(w) + Len(p)
        /\ \A x \in 1 .. Len(w) : (w \o p)[x] = w[x]
    BY Joined
  <1>2. PICK a \in Nat, b \in Nat, d \in Nat : a = Len(s) /\ b = Len(w) /\ d = Len(p)
    OBVIOUS
  <1>3. o + a <= b /\ \A x \in 1 .. a : w[o + x] = s[x]
    BY <1>2 DEF At
  <1>4. o + a <= b + d /\ \A x \in 1 .. a : o + x \in 1 .. b
    BY <1>3
  <1> QED
    BY <1>1, <1>2, <1>3, <1>4 DEF At

\* What a stream grows by lies at its old end.
LEMMA AtEnd ==
    ASSUME NEW w \in Seq(Bytes), NEW p \in Seq(Bytes)
    PROVE  At(p, w \o p, Len(w)) /\ Len(w \o p) = Len(w) + Len(p)
  <1>1. /\ Len(w \o p) = Len(w) + Len(p)
        /\ \A x \in 1 .. Len(p) : (w \o p)[Len(w) + x] = p[x]
    BY Joined
  <1>2. PICK b \in Nat, d \in Nat : b = Len(w) /\ d = Len(p)
    OBVIOUS
  <1>3. b + d <= b + d
    OBVIOUS
  <1> QED
    BY <1>1, <1>2, <1>3 DEF At

\* A part of a piece is a piece.
LEMMA AtPart ==
    ASSUME NEW s \in Seq(Bytes), NEW w, NEW o \in Nat, At(s, w, o), Len(w) \in Nat,
           NEW a \in Nat, NEW b \in Nat, a <= b, b <= Len(s)
    PROVE  /\ SubSeq(s, a + 1, b) \in Seq(Bytes) /\ Len(SubSeq(s, a + 1, b)) = b - a
           /\ At(SubSeq(s, a + 1, b), w, o + a)
  <1> DEFINE u == SubSeq(s, a + 1, b)
  <1>1. PICK n \in Nat, k \in Nat : n = Len(s) /\ k = Len(w)
    OBVIOUS
  <1>2. \A i \in a + 1 .. b : s[i] \in Bytes
    BY <1>1
  <1>3. /\ u \in Seq(Bytes) /\ Len(u) = IF a + 1 <= b THEN b - (a + 1) + 1 ELSE 0
        /\ \A i \in 1 .. b - (a + 1) + 1 : u[i] = s[a + 1 + i - 1]
    <2>1. a + 1 \in Int /\ b \in Int
      OBVIOUS
    <2> HIDE DEF u
    <2>2. u = SubSeq(s, a + 1, b)
      BY DEF u
    <2> QED
      BY <1>2, <2>1, <2>2, SubSeqProperties
  <1> HIDE DEF u
  <1>4. Len(u) = b - a /\ \A i \in 1 .. b - a : u[i] = s[a + i]
    <2>1. (IF a + 1 <= b THEN b - (a + 1) + 1 ELSE 0) = b - a
      OBVIOUS
    <2>2. b - (a + 1) + 1 = b - a /\ \A i \in 1 .. b - a : a + 1 + i - 1 = a + i
      OBVIOUS
    <2> QED
      BY <1>3, <2>1, <2>2
  <1>5. o + n <= k /\ \A x \in 1 .. n : w[o + x] = s[x]
    BY <1>1 DEF At
  <1>6. /\ (o + a) + (b - a) <= k
        /\ \A i \in 1 .. b - a : a + i \in 1 .. n /\ (o + a) + i = o + (a + i)
    BY <1>1, <1>5
  <1>7. At(u, w, o + a)
    BY <1>1, <1>4, <1>5, <1>6 DEF At
  <1> QED
    BY <1>3, <1>4, <1>7 DEF u

\* Two pieces that touch are one.
LEMMA AtJoin ==
    ASSUME NEW s \in Seq(Bytes), NEW t \in Seq(Bytes), NEW w, NEW o \in Nat, Len(w) \in Nat,
           At(s, w, o), At(t, w, o + Len(s))
    PROVE  At(s \o t, w, o)
  <1>1. PICK a \in Nat, b \in Nat, k \in Nat : a = Len(s) /\ b = Len(t) /\ k = Len(w)
    OBVIOUS
  <1>2. /\ Len(s \o t) = a + b
        /\ \A x \in 1 .. a : (s \o t)[x] = s[x]
        /\ \A x \in 1 .. b : (s \o t)[a + x] = t[x]
    BY <1>1, Joined
  <1>3. /\ (o + a) + b <= k /\ \A x \in 1 .. a : w[o + x] = s[x]
        /\ \A x \in 1 .. b : w[(o + a) + x] = t[x]
    BY <1>1 DEF At
  <1>4. o + (a + b) <= k
    BY <1>3
  <1>5. ASSUME NEW x \in 1 .. a + b PROVE w[o + x] = (s \o t)[x]
    <2>1. CASE x <= a
      <3>1. x \in 1 .. a
        BY <2>1
      <3> QED
        BY <1>2, <1>3, <3>1
    <2>2. CASE ~(x <= a)
      <3>1. x - a \in 1 .. b /\ a + (x - a) = x /\ (o + a) + (x - a) = o + x
        BY <2>2
      <3> QED
        BY <1>2, <1>3, <3>1, ZenonT(60)
    <2> QED
      BY <2>1, <2>2
  <1> QED
    BY <1>1, <1>2, <1>4, <1>5 DEF At

\* Nothing takes no room on a stream.
LEMMA StrungNone ==
    ASSUME NEW w, NEW o \in Nat
    PROVE  Strung(<<>>, w, o, o)
  <1> DEFINE pos == [j \in 0 .. 0 |-> o]
  <1>1. Len(<<>>) = 0 /\ pos \in [0 .. 0 -> Nat] /\ pos[0] = o
    OBVIOUS
  <1> HIDE DEF pos
  <1> QED
    BY <1>1 DEF Strung

\* Items strung along a stream stay there when it grows.
LEMMA StrungLonger ==
    ASSUME NEW S, Carriers(S), NEW items \in Seq(S), NEW w \in Seq(Bytes), NEW p \in Seq(Bytes),
           NEW from, NEW to, Strung(items, w, from, to)
    PROVE  Strung(items, w \o p, from, to)
  <1>1. PICK pos \in [0 .. Len(items) -> Nat] :
          /\ pos[0] = from /\ pos[Len(items)] = to
          /\ \A j \in 1 .. Len(items) :
               pos[j] = pos[j - 1] + Len(items[j].bytes) /\ At(items[j].bytes, w, pos[j - 1])
    BY DEF Strung
  <1>2. ASSUME NEW j \in 1 .. Len(items) PROVE At(items[j].bytes, w \o p, pos[j - 1])
    <2>1. items[j].bytes \in Seq(Bytes)
      BY DEF Carriers
    <2>2. pos[j - 1] \in Nat
      <3>1. j - 1 \in 0 .. Len(items)
        OBVIOUS
      <3> QED
        BY <3>1
    <2>3. At(items[j].bytes, w, pos[j - 1])
      BY <1>1
    <2> QED
      BY <2>1, <2>2, <2>3, AtLonger
  <1> QED
    BY <1>1, <1>2 DEF Strung

\* One more item at the end of a string.
LEMMA StrungAppend ==
    ASSUME NEW S, Carriers(S), NEW items \in Seq(S), NEW w, NEW x \in S,
           NEW from, NEW to \in Nat, Strung(items, w, from, to), At(x.bytes, w, to)
    PROVE  Strung(Append(items, x), w, from, to + Len(x.bytes))
  <1>0. x.bytes \in Seq(Bytes)
    BY DEF Carriers
  <1>1. PICK n \in Nat : n = Len(items)
    OBVIOUS
  <1>2. PICK pos \in [0 .. n -> Nat] :
          /\ pos[0] = from /\ pos[n] = to
          /\ \A j \in 1 .. n :
               pos[j] = pos[j - 1] + Len(items[j].bytes) /\ At(items[j].bytes, w, pos[j - 1])
    BY <1>1 DEF Strung
  <1>3. PICK l \in Nat : l = Len(x.bytes)
    BY <1>0
  <1> DEFINE q == [j \in 0 .. n + 1 |-> IF j = n + 1 THEN to + l ELSE pos[j]]
             more == Append(items, x)
  <1>4. Len(more) = n + 1 /\ more[n + 1] = x /\ \A j \in 1 .. n : more[j] = items[j]
    BY <1>1
  <1>5. q \in [0 .. n + 1 -> Nat]
    <2>1. ASSUME NEW j \in 0 .. n + 1 PROVE (IF j = n + 1 THEN to + l ELSE pos[j]) \in Nat
      <3>1. CASE j = n + 1
        BY <3>1
      <3>2. CASE j # n + 1
        <4>1. j \in 0 .. n
          BY <3>2
        <4> QED
          BY <3>2, <4>1
      <3> QED
        BY <3>1, <3>2
    <2> QED
      BY <2>1
  <1>6. q[n + 1] = to + l /\ \A j \in 0 .. n : q[j] = pos[j]
    OBVIOUS
  <1> HIDE DEF q, more
  <1>7. ASSUME NEW j \in 1 .. n + 1
        PROVE  q[j] = q[j - 1] + Len(more[j].bytes) /\ At(more[j].bytes, w, q[j - 1])
    <2>1. CASE j = n + 1
      <3>1. q[j - 1] = to
        <4>1. j - 1 = n /\ n \in 0 .. n
          BY <2>1
        <4> QED
          BY <1>2, <1>6, <4>1
      <3>2. more[j] = x /\ q[j] = to + l
        BY <1>4, <1>6, <2>1
      <3> QED
        BY <1>3, <3>1, <3>2
    <2>2. CASE j # n + 1
      <3>1. j \in 1 .. n /\ j \in 0 .. n /\ j - 1 \in 0 .. n
        BY <2>2
      <3> QED
        BY <1>2, <1>4, <1>6, <3>1
    <2> QED
      BY <2>1, <2>2
  <1>8. q[0] = from
    <2>1. 0 \in 0 .. n
      OBVIOUS
    <2> QED
      BY <1>2, <1>6, <2>1
  <1>9. Strung(more, w, from, to + l)
    BY <1>4, <1>5, <1>6, <1>7, <1>8 DEF Strung
  <1> QED
    BY <1>3, <1>9 DEF more

\* The first item of a string, and the string of the others.
LEMMA StrungHead ==
    ASSUME NEW S, Carriers(S), NEW items \in Seq(S), items # <<>>, NEW w,
           NEW from \in Nat, NEW to, Strung(items, w, from, to)
    PROVE  /\ items[1] \in S /\ Tail(items) \in Seq(S)
           /\ At(items[1].bytes, w, from)
           /\ Strung(Tail(items), w, from + Len(items[1].bytes), to)
  <1>1. PICK n \in Nat : n = Len(items) /\ n >= 1
    OBVIOUS
  <1>2. PICK pos \in [0 .. n -> Nat] :
          /\ pos[0] = from /\ pos[n] = to
          /\ \A j \in 1 .. n :
               pos[j] = pos[j - 1] + Len(items[j].bytes) /\ At(items[j].bytes, w, pos[j - 1])
    BY <1>1 DEF Strung
  <1> DEFINE rest == Tail(items)
             q == [j \in 0 .. n - 1 |-> pos[j + 1]]
  <1>3. rest \in Seq(S) /\ Len(rest) = n - 1 /\ \A j \in 1 .. n - 1 : rest[j] = items[j + 1]
    BY <1>1
  <1>4. q \in [0 .. n - 1 -> Nat] /\ \A j \in 0 .. n - 1 : q[j] = pos[j + 1]
    <2>1. \A j \in 0 .. n - 1 : j + 1 \in 0 .. n
      BY <1>1
    <2> QED
      BY <2>1
  <1> HIDE DEF rest, q
  <1>5. items[1] \in S /\ pos[1] = from + Len(items[1].bytes) /\ At(items[1].bytes, w, from)
    <2>1. 1 \in 1 .. n /\ 1 - 1 = 0
      BY <1>1
    <2>2. items[1] \in S
      BY <1>1, <2>1
    <2> QED
      BY <1>2, <2>1, <2>2
  <1>6. q[0] = pos[1] /\ q[n - 1] = to
    <2>1. 0 \in 0 .. n - 1 /\ n - 1 \in 0 .. n - 1 /\ 0 + 1 = 1 /\ (n - 1) + 1 = n
      BY <1>1
    <2> QED
      BY <1>2, <1>4, <2>1
  <1>7. ASSUME NEW j \in 1 .. n - 1
        PROVE  q[j] = q[j - 1] + Len(rest[j].bytes) /\ At(rest[j].bytes, w, q[j - 1])
    <2>1. j + 1 \in 1 .. n /\ j \in 0 .. n - 1 /\ j - 1 \in 0 .. n - 1 /\ (j - 1) + 1 = (j + 1) - 1
      BY <1>1
    <2> QED
      BY <1>2, <1>3, <1>4, <2>1
  <1>8. Strung(rest, w, from + Len(items[1].bytes), to)
    BY <1>3, <1>4, <1>5, <1>6, <1>7 DEF Strung
  <1> QED
    BY <1>3, <1>5, <1>8 DEF rest

\* One more item in front of a string.
LEMMA StrungCons ==
    ASSUME NEW S, Carriers(S), NEW items \in Seq(S), NEW w, NEW x \in S,
           NEW from \in Nat, NEW to, At(x.bytes, w, from),
           Strung(items, w, from + Len(x.bytes), to)
    PROVE  Strung(<<x>> \o items, w, from, to)
  <1>0. x.bytes \in Seq(Bytes)
    BY DEF Carriers
  <1>1. PICK n \in Nat : n = Len(items)
    OBVIOUS
  <1>3. PICK l \in Nat : l = Len(x.bytes)
    BY <1>0
  <1>2. PICK pos \in [0 .. n -> Nat] :
          /\ pos[0] = from + l /\ pos[n] = to
          /\ \A j \in 1 .. n :
               pos[j] = pos[j - 1] + Len(items[j].bytes) /\ At(items[j].bytes, w, pos[j - 1])
    BY <1>1, <1>3 DEF Strung
  <1> DEFINE q == [j \in 0 .. n + 1 |-> IF j = 0 THEN from ELSE pos[j - 1]]
             more == <<x>> \o items
  <1>4. Len(more) = n + 1 /\ more[1] = x /\ \A j \in 2 .. n + 1 : more[j] = items[j - 1]
    BY <1>1
  <1>5. q \in [0 .. n + 1 -> Nat] /\ q[0] = from /\ \A j \in 1 .. n + 1 : q[j] = pos[j - 1]
    <2>1. ASSUME NEW j \in 0 .. n + 1 PROVE (IF j = 0 THEN from ELSE pos[j - 1]) \in Nat
      <3>1. CASE j = 0
        BY <3>1
      <3>2. CASE j # 0
        <4>1. j - 1 \in 0 .. n
          BY <3>2
        <4> QED
          BY <3>2, <4>1
      <3> QED
        BY <3>1, <3>2
    <2>2. 0 \in 0 .. n + 1 /\ \A j \in 1 .. n + 1 : j \in 0 .. n + 1 /\ j # 0
      OBVIOUS
    <2> QED
      BY <2>1, <2>2
  <1> HIDE DEF q, more
  <1>7. ASSUME NEW j \in 1 .. n + 1
        PROVE  q[j] = q[j - 1] + Len(more[j].bytes) /\ At(more[j].bytes, w, q[j - 1])
    <2>1. CASE j = 1
      <3>1. q[1] = from + l /\ q[1 - 1] = from
        <4>1. 1 \in 1 .. n + 1 /\ 1 - 1 = 0
          OBVIOUS
        <4> QED
          BY <1>2, <1>5, <4>1
      <3> QED
        BY <1>3, <1>4, <2>1, <3>1
    <2>2. CASE j # 1
      <3>1. j - 1 \in 1 .. n /\ j \in 2 .. n + 1 /\ j - 1 \in 1 .. n + 1
        BY <2>2
      <3>2. q[j] = pos[j - 1] /\ q[j - 1] = pos[(j - 1) - 1] /\ more[j] = items[j - 1]
        BY <1>4, <1>5, <3>1
      <3> QED
        BY <1>2, <3>1, <3>2
    <2> QED
      BY <2>1, <2>2
  <1>8. q[n + 1] = to
    <2>1. n + 1 \in 1 .. n + 1 /\ (n + 1) - 1 = n
      OBVIOUS
    <2> QED
      BY <1>2, <1>5, <2>1
  <1>9. Strung(more, w, from, to)
    BY <1>4, <1>5, <1>7, <1>8 DEF Strung
  <1> QED
    BY <1>9 DEF more

\* Items without bytes can be left out.
LEMMA StrungDrop ==
    ASSUME NEW S, NEW items \in Seq(S), NEW w,
           NEW from \in Nat, NEW to, Strung(items, w, from, to),
           NEW m \in 0 .. Len(items), \A j \in 1 .. m : items[j].bytes = <<>>
    PROVE  /\ SubSeq(items, m + 1, Len(items)) \in Seq(S)
           /\ Strung(SubSeq(items, m + 1, Len(items)), w, from, to)
  <1>1. PICK n \in Nat : n = Len(items)
    OBVIOUS
  <1>2. m \in Nat /\ m <= n
    BY <1>1
  <1>3. PICK pos \in [0 .. n -> Nat] :
          /\ pos[0] = from /\ pos[n] = to
          /\ \A j \in 1 .. n :
               pos[j] = pos[j - 1] + Len(items[j].bytes) /\ At(items[j].bytes, w, pos[j - 1])
    BY <1>1 DEF Strung
  <1>4. pos[m] = from
    <2> DEFINE T == {j \in 0 .. m : pos[j] # from}
    <2>1. T \in SUBSET Nat
      BY <1>2
    <2>2. CASE T = {}
      <3>1. m \in 0 .. m
        BY <1>2
      <3> QED
        BY <2>2, <3>1
    <2>3. CASE T # {}
      <3> HIDE DEF T
      <3>1. PICK j \in T : \A y \in T : j <= y
        BY <2>1, <2>3, Least
      <3>2. j \in 0 .. m /\ pos[j] # from
        BY <3>1 DEF T
      <3>3. j # 0
        BY <1>3, <3>2
      <3>4. j - 1 \in 0 .. m /\ j \in 1 .. m /\ j \in 1 .. n /\ ~(j <= j - 1)
        BY <1>2, <3>2, <3>3
      <3>5. pos[j - 1] = from
        BY <3>1, <3>4 DEF T
      <3>6. items[j].bytes = <<>>
        BY <3>4
      <3>7. pos[j] = pos[j - 1] + Len(items[j].bytes)
        BY <1>3, <3>4
      <3>8. pos[j] = from + 0
        BY <3>5, <3>6, <3>7
      <3> QED
        BY <3>2, <3>8
    <2> QED
      BY <2>2, <2>3
  <1> DEFINE rest == SubSeq(items, m + 1, n)
             q == [j \in 0 .. n - m |-> pos[m + j]]
  <1>5. /\ rest \in Seq(S) /\ Len(rest) = n - m
        /\ \A j \in 1 .. n - m : rest[j] = items[m + j]
    <2>1. m + 1 \in Int /\ n \in Int /\ \A i \in m + 1 .. n : items[i] \in S
      BY <1>1, <1>2
    <2> HIDE DEF rest
    <2>2. rest = SubSeq(items, m + 1, n)
      BY DEF rest
    <2>3. /\ rest \in Seq(S) /\ Len(rest) = IF m + 1 <= n THEN n - (m + 1) + 1 ELSE 0
          /\ \A i \in 1 .. n - (m + 1) + 1 : rest[i] = items[m + 1 + i - 1]
      BY <2>1, <2>2, SubSeqProperties
    <2>4. /\ (IF m + 1 <= n THEN n - (m + 1) + 1 ELSE 0) = n - m
          /\ n - (m + 1) + 1 = n - m /\ \A i \in 1 .. n - m : m + 1 + i - 1 = m + i
      BY <1>2
    <2> QED
      BY <2>3, <2>4
  <1>6. q \in [0 .. n - m -> Nat] /\ \A j \in 0 .. n - m : q[j] = pos[m + j]
    <2>1. \A j \in 0 .. n - m : m + j \in 0 .. n
      BY <1>2
    <2> QED
      BY <2>1
  <1> HIDE DEF rest, q
  <1>7. q[0] = from /\ q[n - m] = to
    <2>1. 0 \in 0 .. n - m /\ n - m \in 0 .. n - m /\ m + 0 = m /\ m + (n - m) = n
      BY <1>2
    <2> QED
      BY <1>3, <1>4, <1>6, <2>1
  <1>8. ASSUME NEW j \in 1 .. n - m
        PROVE  q[j] = q[j - 1] + Len(rest[j].bytes) /\ At(rest[j].bytes, w, q[j - 1])
    <2>1. m + j \in 1 .. n /\ j \in 0 .. n - m /\ j - 1 \in 0 .. n - m /\ (m + j) - 1 = m + (j - 1)
      BY <1>2
    <2>2. q[j] = pos[m + j] /\ q[j - 1] = pos[(m + j) - 1] /\ rest[j] = items[m + j]
      BY <1>5, <1>6, <2>1
    <2> QED
      BY <1>3, <2>1, <2>2
  <1>9. n - m \in Nat
    BY <1>2
  <1>10. Strung(rest, w, from, to)
    BY <1>5, <1>6, <1>7, <1>8, <1>9 DEF Strung
  <1> QED
    BY <1>1, <1>5, <1>10 DEF rest

-----------------------------------------------------------------------------
(* The stream from the broker to the reader. *)

\* A record of the session or the socket; only application data has bytes.
Records ==
    {r \in [kind : Kinds, bytes : Seq(Bytes)] : r.kind # "data" => r.bytes = <<>>}

\* Records and packets have bytes.
LEMMA RecordsCarry == Carriers(Records) /\ Carriers(Speech)
  <1>1. Carriers(Records)
    BY DEF Records, Carriers
  <1>2. Carriers(Speech)
    BY SpeechBytes DEF Carriers
  <1> QED
    BY <1>1, <1>2

\* `packets` are those sent and not handled yet.
Remaining(packets, sent, hnd) ==
    /\ Len(sent) = Len(hnd) + Len(packets)
    /\ \A i \in 1 .. Len(hnd) : hnd[i] = sent[i]
    /\ \A i \in 1 .. Len(packets) : packets[i].seen = sent[Len(hnd) + i]

\* There is a stream w.  The buffer has the bytes behind the first `here`, the
\* records those behind that, and the broker still has the rest.  Behind what is to
\* be skipped, it is made of the packets that have been sent and not handled.
FlowOf(w, here, mid, packets, in, skip, recs, bytes, sent, hnd) ==
    /\ At(in, w, here)
    /\ Strung(recs, w, here + Len(in), mid)
    /\ At(bytes, w, mid) /\ mid + Len(bytes) = Len(w)
    /\ Strung(packets, w, here + skip, Len(w))
    /\ Remaining(packets, sent, hnd)

Flow(in, skip, recs, bytes, sent, hnd) ==
    \E w \in Seq(Bytes), here \in Nat, mid \in Nat, packets \in Seq(Speech) :
      FlowOf(w, here, mid, packets, in, skip, recs, bytes, sent, hnd)

\* Nothing flows before there is a session.
LEMMA FlowNone == Flow(<<>>, 0, <<>>, <<>>, <<>>, <<>>)
  <1> DEFINE e == <<>>
  <1>1. e \in Seq(Bytes) /\ e \in Seq(Speech) /\ Len(e) = 0
    OBVIOUS
  <1>2. At(e, e, 0)
    BY <1>1 DEF At
  <1>3. Strung(e, e, 0, 0)
    BY StrungNone
  <1>4. Remaining(e, e, e)
    BY <1>1 DEF Remaining
  <1>5. 0 + 0 = 0 /\ 0 \in Nat
    OBVIOUS
  <1> HIDE DEF e
  <1>6. FlowOf(e, 0, 0, e, e, 0, e, e, e, e)
    BY <1>1, <1>2, <1>3, <1>4, <1>5 DEF FlowOf
  <1>7. Flow(e, 0, e, e, e, e)
    BY <1>1, <1>5, <1>6 DEF Flow
  <1> QED
    BY <1>7 DEF e

\* One packet more, at the end.
LEMMA RemainingSaid ==
    ASSUME NEW packets \in Seq(Speech), NEW S, NEW sent \in Seq(S), NEW hnd \in Seq(S),
           Remaining(packets, sent, hnd), NEW x \in Speech
    PROVE  Remaining(Append(packets, x), Append(sent, x.seen), hnd)
  <1>1. PICK n \in Nat, k \in Nat, h \in Nat : n = Len(packets) /\ k = Len(sent) /\ h = Len(hnd)
    OBVIOUS
  <1>2. /\ k = h + n
        /\ \A i \in 1 .. h : hnd[i] = sent[i]
        /\ \A i \in 1 .. n : packets[i].seen = sent[h + i]
    BY <1>1 DEF Remaining
  <1> DEFINE more == Append(packets, x)
             said == Append(sent, x.seen)
  <1>3. Len(more) = n + 1 /\ more[n + 1] = x /\ \A i \in 1 .. n : more[i] = packets[i]
    BY <1>1
  <1>4. Len(said) = k + 1 /\ said[k + 1] = x.seen /\ \A i \in 1 .. k : said[i] = sent[i]
    BY <1>1
  <1> HIDE DEF more, said
  <1>5. \A i \in 1 .. h : hnd[i] = said[i]
    <2>1. \A i \in 1 .. h : i \in 1 .. k
      BY <1>2
    <2> QED
      BY <1>2, <1>4, <2>1
  <1>6. ASSUME NEW i \in 1 .. n + 1 PROVE more[i].seen = said[h + i]
    <2>1. CASE i = n + 1
      <3>1. h + i = k + 1
        BY <1>2, <2>1
      <3> QED
        BY <1>3, <1>4, <2>1, <3>1
    <2>2. CASE i # n + 1
      <3>1. i \in 1 .. n /\ h + i \in 1 .. k
        BY <1>2, <2>2
      <3> QED
        BY <1>2, <1>3, <1>4, <3>1
    <2> QED
      BY <2>1, <2>2
  <1>7. k + 1 = h + (n + 1)
    BY <1>2
  <1>8. Remaining(more, said, hnd)
    BY <1>1, <1>3, <1>4, <1>5, <1>6, <1>7 DEF Remaining
  <1> QED
    BY <1>8 DEF more, said

\* The broker says something.
LEMMA FlowSays ==
    ASSUME NEW in \in Seq(Bytes), NEW skip \in Nat, NEW recs \in Seq(Records),
           NEW bytes \in Seq(Bytes), NEW S, NEW sent \in Seq(S), NEW hnd \in Seq(S),
           Flow(in, skip, recs, bytes, sent, hnd), NEW x \in Speech
    PROVE  Flow(in, skip, recs, bytes \o x.bytes, Append(sent, x.seen), hnd)
  <1>1. PICK w \in Seq(Bytes), here \in Nat, mid \in Nat, packets \in Seq(Speech) :
          FlowOf(w, here, mid, packets, in, skip, recs, bytes, sent, hnd)
    BY DEF Flow
  <1>2. x.bytes \in Seq(Bytes)
    BY SpeechBytes
  <1> DEFINE v == w \o x.bytes
  <1>3. v \in Seq(Bytes) /\ Len(v) = Len(w) + Len(x.bytes) /\ Len(v) \in Nat
    BY <1>2, Joined
  <1>4. At(in, v, here)
    BY <1>1, <1>2, AtLonger DEF FlowOf
  <1>5. Strung(recs, v, here + Len(in), mid)
    BY <1>1, <1>2, RecordsCarry, StrungLonger DEF FlowOf
  <1>6. At(bytes, v, mid)
    BY <1>1, <1>2, AtLonger DEF FlowOf
  <1>7. At(x.bytes, v, Len(w))
    BY <1>2, AtEnd
  <1>8. mid + Len(bytes) = Len(w)
    BY <1>1 DEF FlowOf
  <1>9. At(bytes \o x.bytes, v, mid)
    <2>1. At(x.bytes, v, mid + Len(bytes))
      BY <1>7, <1>8
    <2> HIDE DEF v
    <2> QED
      BY <1>2, <1>3, <1>6, <2>1, AtJoin
  <1>10. Strung(packets, v, here + skip, Len(w))
    BY <1>1, <1>2, RecordsCarry, StrungLonger DEF FlowOf
  <1>11. Strung(Append(packets, x), v, here + skip, Len(w) + Len(x.bytes))
    <2>1. Len(w) \in Nat
      OBVIOUS
    <2> HIDE DEF v
    <2> QED
      BY <1>7, <1>10, <2>1, RecordsCarry, StrungAppend
  <1>12. Remaining(Append(packets, x), Append(sent, x.seen), hnd)
    BY <1>1, RemainingSaid DEF FlowOf
  <1>13. mid + Len(bytes \o x.bytes) = Len(v)
    <2>1. Len(bytes \o x.bytes) = Len(bytes) + Len(x.bytes)
      BY <1>2, Joined
    <2>2. PICK b \in Nat, d \in Nat, e \in Nat : b = Len(bytes) /\ d = Len(w) /\ e = Len(x.bytes)
      BY <1>2
    <2> HIDE DEF v
    <2>3. Len(v) = d + e /\ mid + b = d /\ Len(bytes \o x.bytes) = b + e
      BY <1>3, <1>8, <2>1, <2>2
    <2>4. mid + (b + e) = d + e
      BY <2>3
    <2> QED
      BY <2>3, <2>4
  <1>14. Append(packets, x) \in Seq(Speech)
    OBVIOUS
  <1> HIDE DEF v
  <1>15. FlowOf(v, here, mid, Append(packets, x), in, skip, recs, bytes \o x.bytes,
                Append(sent, x.seen), hnd)
    BY <1>3, <1>4, <1>5, <1>9, <1>11, <1>12, <1>13 DEF FlowOf
  <1> QED
    BY <1>3, <1>14, <1>15 DEF Flow

\* A record without bytes arrives.
LEMMA FlowEmpty ==
    ASSUME NEW in \in Seq(Bytes), NEW skip \in Nat, NEW recs \in Seq(Records),
           NEW bytes \in Seq(Bytes), NEW sent, NEW hnd,
           Flow(in, skip, recs, bytes, sent, hnd), NEW r \in Records, r.bytes = <<>>
    PROVE  Flow(in, skip, Append(recs, r), bytes, sent, hnd)
  <1>1. PICK w \in Seq(Bytes), here \in Nat, mid \in Nat, packets \in Seq(Speech) :
          FlowOf(w, here, mid, packets, in, skip, recs, bytes, sent, hnd)
    BY DEF Flow
  <1>2. Len(r.bytes) = 0 /\ mid + 0 = mid /\ Len(w) \in Nat
    OBVIOUS
  <1>3. At(r.bytes, w, mid)
    <2>1. mid + Len(bytes) = Len(w) /\ Len(bytes) \in Nat
      BY <1>1 DEF FlowOf
    <2>2. \A a, b, d \in Nat : a + b = d => a + 0 <= d
      OBVIOUS
    <2>3. mid + 0 <= Len(w)
      BY <1>2, <2>1, <2>2
    <2> QED
      BY <1>2, <2>3 DEF At
  <1>4. Strung(recs, w, here + Len(in), mid)
    BY <1>1 DEF FlowOf
  <1>5. Strung(Append(recs, r), w, here + Len(in), mid + Len(r.bytes))
    BY <1>3, <1>4, RecordsCarry, StrungAppend
  <1>6. FlowOf(w, here, mid, packets, in, skip, Append(recs, r), bytes, sent, hnd)
    BY <1>1, <1>2, <1>5 DEF FlowOf
  <1> QED
    BY <1>6 DEF Flow

\* Bytes of the broker's leave as a record.
LEMMA FlowLeaves ==
    ASSUME NEW in \in Seq(Bytes), NEW skip \in Nat, NEW recs \in Seq(Records),
           NEW bytes \in Seq(Bytes), NEW sent, NEW hnd,
           Flow(in, skip, recs, bytes, sent, hnd), NEW n \in 0 .. Len(bytes)
    PROVE  /\ Data(SubSeq(bytes, 1, n)) \in Records
           /\ SubSeq(bytes, n + 1, Len(bytes)) \in Seq(Bytes)
           /\ Flow(in, skip, Append(recs, Data(SubSeq(bytes, 1, n))),
                   SubSeq(bytes, n + 1, Len(bytes)), sent, hnd)
  <1>1. PICK w \in Seq(Bytes), here \in Nat, mid \in Nat, packets \in Seq(Speech) :
          FlowOf(w, here, mid, packets, in, skip, recs, bytes, sent, hnd)
    BY DEF Flow
  <1>2. PICK l \in Nat, k \in Nat : l = Len(bytes) /\ k = Len(w)
    OBVIOUS
  <1>3. n \in Nat /\ 0 <= n /\ n <= l /\ l <= l
    BY <1>2
  <1>4. mid + l = k /\ At(bytes, w, mid)
    BY <1>1, <1>2 DEF FlowOf
  <1> DEFINE head == SubSeq(bytes, 1, n)
             rest == SubSeq(bytes, n + 1, l)
             r == Data(head)
  <1>5. head \in Seq(Bytes) /\ Len(head) = n /\ At(head, w, mid)
    <2>1. 0 + 1 = 1 /\ n - 0 = n /\ mid + 0 = mid /\ 0 \in Nat
      BY <1>3
    <2>2. /\ SubSeq(bytes, 0 + 1, n) \in Seq(Bytes) /\ Len(SubSeq(bytes, 0 + 1, n)) = n - 0
          /\ At(SubSeq(bytes, 0 + 1, n), w, mid + 0)
      BY <1>2, <1>3, <1>4, <2>1, AtPart, ZenonT(60)
    <2> QED
      BY <2>1, <2>2
  <1>6. rest \in Seq(Bytes) /\ Len(rest) = l - n /\ At(rest, w, mid + n)
    BY <1>2, <1>3, <1>4, AtPart
  <1>7. r.bytes = head /\ r \in Records
    <2> HIDE DEF head
    <2> QED
      BY <1>5 DEF Data, Records, Kinds
  <1> HIDE DEF head, rest, r
  <1>8. Strung(recs, w, here + Len(in), mid)
    BY <1>1 DEF FlowOf
  <1>9. Strung(Append(recs, r), w, here + Len(in), mid + n)
    <2>1. At(r.bytes, w, mid) /\ Len(r.bytes) = n
      BY <1>5, <1>7
    <2> QED
      BY <1>7, <1>8, <2>1, RecordsCarry, StrungAppend
  <1>10. mid + n \in Nat /\ (mid + n) + (l - n) = k
    BY <1>3, <1>4
  <1>11. FlowOf(w, here, mid + n, packets, in, skip, Append(recs, r), rest, sent, hnd)
    BY <1>1, <1>2, <1>6, <1>9, <1>10 DEF FlowOf
  <1>12. Flow(in, skip, Append(recs, r), rest, sent, hnd)
    BY <1>10, <1>11 DEF Flow
  <1> QED
    BY <1>2, <1>6, <1>7, <1>12 DEF r, rest, head

\* Records without bytes are passed over.
LEMMA FlowDrop ==
    ASSUME NEW in \in Seq(Bytes), NEW skip, NEW recs \in Seq(Records), NEW bytes, NEW sent, NEW hnd,
           Flow(in, skip, recs, bytes, sent, hnd),
           NEW m \in 0 .. Len(recs), \A j \in 1 .. m : recs[j].bytes = <<>>
    PROVE  /\ SubSeq(recs, m + 1, Len(recs)) \in Seq(Records)
           /\ Flow(in, skip, SubSeq(recs, m + 1, Len(recs)), bytes, sent, hnd)
  <1>1. PICK w \in Seq(Bytes), here \in Nat, mid \in Nat, packets \in Seq(Speech) :
          FlowOf(w, here, mid, packets, in, skip, recs, bytes, sent, hnd)
    BY DEF Flow
  <1>2. here + Len(in) \in Nat
    OBVIOUS
  <1>3. Strung(recs, w, here + Len(in), mid)
    BY <1>1 DEF FlowOf
  <1>4. /\ SubSeq(recs, m + 1, Len(recs)) \in Seq(Records)
        /\ Strung(SubSeq(recs, m + 1, Len(recs)), w, here + Len(in), mid)
    BY <1>2, <1>3, StrungDrop
  <1>5. FlowOf(w, here, mid, packets, in, skip, SubSeq(recs, m + 1, Len(recs)), bytes, sent, hnd)
    BY <1>1, <1>4 DEF FlowOf
  <1> QED
    BY <1>4, <1>5 DEF Flow

\* The first bytes of the first record, or all of them, get into the buffer.
Taken(recs, m, head, left) ==
    /\ recs # <<>> /\ recs[1].kind = "data" /\ m \in 0 .. Len(recs[1].bytes)
    /\ head = SubSeq(recs[1].bytes, 1, m)
    /\ LET rest == SubSeq(recs[1].bytes, m + 1, Len(recs[1].bytes))
       IN  left = IF rest = <<>> THEN Tail(recs) ELSE <<Data(rest)>> \o Tail(recs)

\* What is taken off a record goes on flowing.
LEMMA FlowTake ==
    ASSUME NEW in \in Seq(Bytes), NEW skip, NEW recs \in Seq(Records),
           NEW bytes, NEW sent, NEW hnd,
           Flow(in, skip, recs, bytes, sent, hnd),
           NEW m, NEW head, NEW left, Taken(recs, m, head, left)
    PROVE  /\ head \in Seq(Bytes) /\ Len(head) = m /\ left \in Seq(Records)
           /\ Flow(in \o head, skip, left, bytes, sent, hnd)
  <1>0. /\ recs # <<>> /\ recs[1].kind = "data" /\ m \in 0 .. Len(recs[1].bytes)
        /\ head = SubSeq(recs[1].bytes, 1, m)
    BY DEF Taken
  <1>20. PICK rest : /\ rest = SubSeq(recs[1].bytes, m + 1, Len(recs[1].bytes))
                     /\ left = IF rest = <<>> THEN Tail(recs) ELSE <<Data(rest)>> \o Tail(recs)
    BY DEF Taken
  <1>1. PICK w \in Seq(Bytes), here \in Nat, mid \in Nat, packets \in Seq(Speech) :
          FlowOf(w, here, mid, packets, in, skip, recs, bytes, sent, hnd)
    BY DEF Flow
  <1>2. PICK i \in Nat, k \in Nat : i = Len(in) /\ k = Len(w)
    OBVIOUS
  <1>3. /\ recs[1] \in Records /\ Tail(recs) \in Seq(Records)
        /\ At(recs[1].bytes, w, here + i)
        /\ Strung(Tail(recs), w, (here + i) + Len(recs[1].bytes), mid)
    <2>1. Strung(recs, w, here + i, mid) /\ here + i \in Nat
      BY <1>1, <1>2 DEF FlowOf
    <2> QED
      BY <1>0, <2>1, RecordsCarry, StrungHead
  <1>4. PICK b \in Seq(Bytes) : b = recs[1].bytes
    BY <1>3 DEF Records
  <1>5. PICK l \in Nat : l = Len(b)
    OBVIOUS
  <1>6. m \in Nat /\ 0 <= m /\ m <= l /\ l <= l
    BY <1>0, <1>4, <1>5
  <1>7. head \in Seq(Bytes) /\ Len(head) = m /\ At(head, w, here + i)
    <2>1. 0 + 1 = 1 /\ m - 0 = m /\ (here + i) + 0 = here + i /\ 0 \in Nat /\ here + i \in Nat
      BY <1>6
    <2>2. /\ SubSeq(b, 0 + 1, m) \in Seq(Bytes) /\ Len(SubSeq(b, 0 + 1, m)) = m - 0
          /\ At(SubSeq(b, 0 + 1, m), w, (here + i) + 0)
      <3>1. At(b, w, here + i) /\ m <= Len(b) /\ Len(w) \in Nat
        BY <1>2, <1>3, <1>4, <1>5, <1>6
      <3> QED
        BY <1>6, <2>1, <3>1, AtPart
    <2> QED
      BY <1>0, <1>4, <2>1, <2>2
  <1>8. rest \in Seq(Bytes) /\ Len(rest) = l - m /\ At(rest, w, (here + i) + m)
    <2>1. here + i \in Nat /\ rest = SubSeq(b, m + 1, l) /\ At(b, w, here + i)
      BY <1>3, <1>4, <1>5, <1>20
    <2>2. /\ SubSeq(b, m + 1, l) \in Seq(Bytes) /\ Len(SubSeq(b, m + 1, l)) = l - m
          /\ At(SubSeq(b, m + 1, l), w, (here + i) + m)
      BY <1>2, <1>5, <1>6, <2>1, AtPart
    <2> QED
      BY <2>1, <2>2
  <1>9. At(in \o head, w, here) /\ Len(in \o head) = i + m
    <2>1. At(in, w, here)
      BY <1>1 DEF FlowOf
    <2> QED
      BY <1>2, <1>7, <2>1, AtJoin, Joined
  <1>10. left \in Seq(Records) /\ Strung(left, w, here + (i + m), mid)
    <2>1. Strung(Tail(recs), w, (here + i) + l, mid)
      BY <1>3, <1>4, <1>5
    <2>2. CASE rest = <<>>
      <3>1. l - m = 0
        BY <1>8, <2>2
      <3>2. (here + i) + l = here + (i + m)
        BY <1>6, <3>1
      <3> QED
        BY <1>3, <1>20, <2>1, <2>2, <3>2
    <2>3. CASE rest # <<>>
      <3>1. Data(rest) \in Records /\ Data(rest).bytes = rest
        BY <1>8 DEF Data, Records, Kinds
      <3>2. PICK d \in Records : d = Data(rest)
        BY <3>1
      <3>3. d.bytes = rest /\ left = <<d>> \o Tail(recs)
        BY <1>20, <2>3, <3>1, <3>2
      <3>4. (here + i) + m = here + (i + m) /\ (here + (i + m)) + (l - m) = (here + i) + l
            /\ here + (i + m) \in Nat
        BY <1>6
      <3>5. At(d.bytes, w, here + (i + m))
        BY <1>8, <3>3, <3>4
      <3>6. Strung(Tail(recs), w, (here + (i + m)) + Len(d.bytes), mid)
        BY <1>8, <2>1, <3>3, <3>4
      <3>7. Strung(<<d>> \o Tail(recs), w, here + (i + m), mid)
        BY <1>3, <3>4, <3>5, <3>6, RecordsCarry, StrungCons
      <3>8. <<d>> \o Tail(recs) \in Seq(Records)
        BY <1>3
      <3> QED
        BY <3>3, <3>7, <3>8
    <2> QED
      BY <2>2, <2>3
  <1>11. FlowOf(w, here, mid, packets, in \o head, skip, left, bytes, sent, hnd)
    BY <1>1, <1>9, <1>10 DEF FlowOf
  <1>12. Flow(in \o head, skip, left, bytes, sent, hnd)
    BY <1>11 DEF Flow
  <1> QED
    BY <1>7, <1>10, <1>12

\* Bytes of an oversized message are counted off.
LEMMA FlowSkip ==
    ASSUME NEW in \in Seq(Bytes), NEW skip \in Nat, NEW recs, NEW bytes, NEW sent, NEW hnd,
           Flow(in, skip, recs, bytes, sent, hnd),
           NEW m \in Nat, m <= skip, m <= Len(in)
    PROVE  /\ SubSeq(in, m + 1, Len(in)) \in Seq(Bytes)
           /\ Len(SubSeq(in, m + 1, Len(in))) = Len(in) - m
           /\ Flow(SubSeq(in, m + 1, Len(in)), skip - m, recs, bytes, sent, hnd)
  <1>1. PICK w \in Seq(Bytes), here \in Nat, mid \in Nat, packets \in Seq(Speech) :
          FlowOf(w, here, mid, packets, in, skip, recs, bytes, sent, hnd)
    BY DEF Flow
  <1>2. PICK i \in Nat, k \in Nat : i = Len(in) /\ k = Len(w)
    OBVIOUS
  <1>3. m <= i /\ i <= i
    BY <1>2
  <1> DEFINE rest == SubSeq(in, m + 1, i)
  <1>4. rest \in Seq(Bytes) /\ Len(rest) = i - m /\ At(rest, w, here + m)
    <2>1. At(in, w, here)
      BY <1>1 DEF FlowOf
    <2> QED
      BY <1>2, <1>3, <2>1, AtPart
  <1> HIDE DEF rest
  <1>5. /\ here + m \in Nat /\ (here + m) + (i - m) = here + i
        /\ (here + m) + (skip - m) = here + skip
    BY <1>3
  <1>6. FlowOf(w, here + m, mid, packets, rest, skip - m, recs, bytes, sent, hnd)
    BY <1>1, <1>2, <1>4, <1>5 DEF FlowOf
  <1>7. Flow(rest, skip - m, recs, bytes, sent, hnd)
    BY <1>5, <1>6 DEF Flow
  <1> QED
    BY <1>2, <1>4, <1>7 DEF rest

\* One packet less, at the front.
LEMMA RemainingHandled ==
    ASSUME NEW packets \in Seq(Speech), packets # <<>>, NEW S, NEW sent \in Seq(S), NEW hnd \in Seq(S),
           Remaining(packets, sent, hnd)
    PROVE  /\ Len(hnd) < Len(sent) /\ packets[1].seen = sent[Len(hnd) + 1]
           /\ Remaining(Tail(packets), sent, Append(hnd, packets[1].seen))
  <1>1. PICK n \in Nat, k \in Nat, h \in Nat : n = Len(packets) /\ k = Len(sent) /\ h = Len(hnd)
    OBVIOUS
  <1>2. n >= 1
    BY <1>1
  <1>3. /\ k = h + n
        /\ \A i \in 1 .. h : hnd[i] = sent[i]
        /\ \A i \in 1 .. n : packets[i].seen = sent[h + i]
    BY <1>1 DEF Remaining
  <1> DEFINE rest == Tail(packets)
             more == Append(hnd, packets[1].seen)
  <1>4. Len(rest) = n - 1 /\ \A i \in 1 .. n - 1 : rest[i] = packets[i + 1]
    BY <1>1
  <1>5. Len(more) = h + 1 /\ more[h + 1] = packets[1].seen /\ \A i \in 1 .. h : more[i] = hnd[i]
    BY <1>1
  <1> HIDE DEF rest, more
  <1>6. h < k /\ packets[1].seen = sent[h + 1]
    <2>1. 1 \in 1 .. n /\ h < k
      BY <1>2, <1>3
    <2> QED
      BY <1>3, <2>1
  <1>7. ASSUME NEW i \in 1 .. h + 1 PROVE more[i] = sent[i]
    <2>1. CASE i = h + 1
      BY <1>5, <1>6, <2>1
    <2>2. CASE i # h + 1
      <3>1. i \in 1 .. h
        BY <2>2
      <3> QED
        BY <1>3, <1>5, <3>1
    <2> QED
      BY <2>1, <2>2
  <1>8. ASSUME NEW i \in 1 .. n - 1 PROVE rest[i].seen = sent[(h + 1) + i]
    <2>1. i + 1 \in 1 .. n /\ h + (i + 1) = (h + 1) + i
      OBVIOUS
    <2> QED
      BY <1>3, <1>4, <2>1
  <1>9. k = (h + 1) + (n - 1)
    BY <1>3
  <1>10. Remaining(rest, sent, more)
    BY <1>1, <1>4, <1>5, <1>7, <1>8, <1>9 DEF Remaining
  <1> QED
    BY <1>1, <1>6, <1>10 DEF rest, more

\* What the reader has before it, once nothing is left to skip: nothing at all, or
\* the next packet, whole or in part; and what is left when its first m bytes are
\* taken.
LEMMA FlowNext ==
    ASSUME NEW in \in Seq(Bytes), NEW recs, NEW bytes, NEW S, NEW sent \in Seq(S), NEW hnd \in Seq(S),
           Flow(in, 0, recs, bytes, sent, hnd)
    PROVE  \/ in = <<>>
           \/ \E x \in Speech :
                /\ Len(hnd) < Len(sent) /\ x.seen = sent[Len(hnd) + 1]
                /\ Agrees(in, x.bytes)
                /\ \A m \in Nat :
                     m <= Len(in) /\ m <= Len(x.bytes) =>
                       /\ SubSeq(in, m + 1, Len(in)) \in Seq(Bytes)
                       /\ Len(SubSeq(in, m + 1, Len(in))) = Len(in) - m
                       /\ Flow(SubSeq(in, m + 1, Len(in)), Len(x.bytes) - m, recs, bytes,
                               sent, Append(hnd, x.seen))
  <1>1. PICK w \in Seq(Bytes), here \in Nat, mid \in Nat, packets \in Seq(Speech) :
          FlowOf(w, here, mid, packets, in, 0, recs, bytes, sent, hnd)
    BY DEF Flow
  <1>2. PICK i \in Nat, k \in Nat : i = Len(in) /\ k = Len(w)
    OBVIOUS
  <1>3. /\ here + i <= k /\ \A x \in 1 .. i : w[here + x] = in[x]
        /\ Strung(packets, w, here, k) /\ Remaining(packets, sent, hnd)
    <2>1. here + 0 = here
      OBVIOUS
    <2> QED
      BY <1>1, <1>2, <2>1 DEF FlowOf, At
  <1>4. CASE packets = <<>>
    <2>1. PICK pos \in [0 .. 0 -> Nat] : pos[0] = here /\ pos[0] = k
      <3>1. Len(packets) = 0
        BY <1>4
      <3> QED
        BY <1>3, <3>1 DEF Strung
    <2>2. i = 0
      BY <1>3, <2>1
    <2> QED
      BY <1>2, <2>2, EmptySeq
  <1>5. CASE packets # <<>>
    <2>1. PICK x \in Speech : x = packets[1]
      BY <1>5
    <2>2. /\ Tail(packets) \in Seq(Speech) /\ At(x.bytes, w, here)
          /\ Strung(Tail(packets), w, here + Len(x.bytes), k)
      BY <1>3, <1>5, <2>1, RecordsCarry, StrungHead
    <2>3. /\ Len(hnd) < Len(sent) /\ x.seen = sent[Len(hnd) + 1]
          /\ Remaining(Tail(packets), sent, Append(hnd, x.seen))
      BY <1>3, <1>5, <2>1, RemainingHandled
    <2>4. PICK l \in Nat : l = Len(x.bytes)
      BY SpeechBytes
    <2>5. Agrees(in, x.bytes)
      <3>1. \A y \in 1 .. l : w[here + y] = x.bytes[y]
        BY <2>2, <2>4 DEF At
      <3>2. \A y \in 1 .. l : y <= i => y \in 1 .. i
        OBVIOUS
      <3> QED
        BY <1>2, <1>3, <2>4, <3>1, <3>2 DEF Agrees
    <2>6. ASSUME NEW m \in Nat, m <= Len(in), m <= Len(x.bytes)
          PROVE  /\ SubSeq(in, m + 1, Len(in)) \in Seq(Bytes)
                 /\ Len(SubSeq(in, m + 1, Len(in))) = Len(in) - m
                 /\ Flow(SubSeq(in, m + 1, Len(in)), Len(x.bytes) - m, recs, bytes,
                         sent, Append(hnd, x.seen))
      <3>1. m <= i /\ m <= l /\ i <= i
        BY <1>2, <2>4, <2>6
      <3> DEFINE rest == SubSeq(in, m + 1, i)
      <3>2. rest \in Seq(Bytes) /\ Len(rest) = i - m /\ At(rest, w, here + m)
        <4>1. At(in, w, here)
          BY <1>1 DEF FlowOf
        <4> QED
          BY <1>2, <3>1, <4>1, AtPart, ZenonT(60)
      <3> HIDE DEF rest
      <3>3. /\ here + m \in Nat /\ (here + m) + (i - m) = here + i
            /\ (here + m) + (l - m) = here + l
        BY <3>1
      <3>4. FlowOf(w, here + m, mid, Tail(packets), rest, l - m, recs, bytes, sent,
                   Append(hnd, x.seen))
        BY <1>1, <1>2, <2>2, <2>3, <2>4, <3>2, <3>3 DEF FlowOf
      <3>5. Flow(rest, l - m, recs, bytes, sent, Append(hnd, x.seen))
        BY <2>2, <3>3, <3>4 DEF Flow
      <3> QED
        BY <1>2, <2>4, <3>2, <3>5 DEF rest
    <2> QED
      BY <2>3, <2>5, <2>6
  <1> QED
    BY <1>4, <1>5

-----------------------------------------------------------------------------
(* Reading from the session. *)

\* A read of at most cap bytes takes what it says off the records, and nothing else.
Passes(in, skip, ahead, bytes, sent, hnd, cap, r) ==
    /\ r.bytes \in Seq(Bytes) /\ Len(r.bytes) <= cap
    /\ r.left \in Seq(Records) /\ Len(r.left) <= Len(ahead)
    /\ Flow(in \o r.bytes, skip, r.left, bytes, sent, hnd)

\* Nothing read, and some records without bytes passed over.
LEMMA PassesNothing ==
    ASSUME NEW in \in Seq(Bytes), NEW skip, NEW ahead \in Seq(Records), NEW bytes, NEW sent, NEW hnd,
           Flow(in, skip, ahead, bytes, sent, hnd), NEW cap \in Nat,
           NEW m \in 0 .. Len(ahead), \A j \in 1 .. m : ahead[j].bytes = <<>>,
           NEW r, r.bytes = <<>>, r.left = SubSeq(ahead, m + 1, Len(ahead))
    PROVE  Passes(in, skip, ahead, bytes, sent, hnd, cap, r)
  <1>1. r.left \in Seq(Records) /\ Flow(in, skip, r.left, bytes, sent, hnd)
    BY FlowDrop
  <1>2. in \o r.bytes = in /\ r.bytes \in Seq(Bytes) /\ Len(r.bytes) <= cap
    BY ConcatEmptySeq
  <1>3. Len(r.left) <= Len(ahead)
    <2>1. PICK n \in Nat : n = Len(ahead)
      OBVIOUS
    <2>2. m + 1 \in Int /\ n \in Int /\ m \in 0 .. n /\ \A i \in m + 1 .. n : ahead[i] \in Records
      BY <2>1
    <2>3. Len(r.left) = IF m + 1 <= n THEN n - (m + 1) + 1 ELSE 0
      BY <2>1, <2>2, SubSeqProperties
    <2>4. (IF m + 1 <= n THEN n - (m + 1) + 1 ELSE 0) <= n
      BY <2>2
    <2> QED
      BY <2>1, <2>3, <2>4
  <1> QED
    BY <1>1, <1>2, <1>3 DEF Passes

\* A read of the TLS library takes what it says off the records.
LEMMA SslRead ==
    ASSUME NEW in \in Seq(Bytes), NEW skip, NEW ahead \in Seq(Records), NEW bytes, NEW sent, NEW hnd,
           Flow(in, skip, ahead, bytes, sent, hnd), NEW cap \in Nat,
           NEW r, r = ssl_read(ahead, cap)
    PROVE  /\ Passes(in, skip, ahead, bytes, sent, hnd, cap, r)
           /\ r.code # "OK" => r.bytes = <<>>
  <1>1. CASE ahead = <<>>
    <2>1. r.code # "OK" /\ r.bytes = <<>> /\ r.left = <<>>
      BY <1>1 DEF ssl_read, tls_bio_recv
    <2>2. Len(ahead) = 0 /\ 0 \in 0 .. Len(ahead) /\ SubSeq(ahead, 0 + 1, Len(ahead)) = <<>>
      BY <1>1, SubSeqEmpty
    <2>3. \A j \in 1 .. 0 : ahead[j].bytes = <<>>
      OBVIOUS
    <2> QED
      BY <2>1, <2>2, <2>3, PassesNothing
  <1>2. CASE ahead # <<>> /\ ahead[1].kind # "data"
    <2>1. r.code # "OK" /\ r.bytes = <<>> /\ r.left = ahead
      BY <1>2 DEF ssl_read, tls_bio_recv, tls_bio_send
    <2>2. Len(ahead) \in Nat /\ 0 \in 0 .. Len(ahead) /\ SubSeq(ahead, 0 + 1, Len(ahead)) = ahead
      BY SubSeqFull
    <2>3. \A j \in 1 .. 0 : ahead[j].bytes = <<>>
      OBVIOUS
    <2> QED
      BY <2>1, <2>2, <2>3, PassesNothing
  <1>3. CASE ahead # <<>> /\ ahead[1].kind = "data"
    <2>1. ahead[1] \in Records
      BY <1>3
    <2>2. PICK b \in Seq(Bytes) : b = ahead[1].bytes
      BY <2>1 DEF Records
    <2>3. PICK l \in Nat : l = Len(b)
      OBVIOUS
    <2> DEFINE m == Min({cap, l})
    <2>4. m \in 0 .. l /\ m <= cap
      <3>1. m = IF cap <= l THEN cap ELSE l
        BY MinOfTwo
      <3> HIDE DEF m
      <3> QED
        BY <3>1
    <2>5. /\ r.bytes = SubSeq(b, 1, m)
          /\ r.left = IF SubSeq(b, m + 1, l) = <<>> THEN Tail(ahead)
                      ELSE <<Data(SubSeq(b, m + 1, l))>> \o Tail(ahead)
          /\ r.code = "OK"
      BY <1>3, <2>2, <2>3 DEF ssl_read
    <2> HIDE DEF m
    <2>6. Taken(ahead, m, r.bytes, r.left)
      BY <1>3, <2>2, <2>3, <2>4, <2>5 DEF Taken
    <2>7. /\ r.bytes \in Seq(Bytes) /\ Len(r.bytes) = m /\ r.left \in Seq(Records)
          /\ Flow(in \o r.bytes, skip, r.left, bytes, sent, hnd)
      BY <2>6, FlowTake
    <2>8. Len(r.left) <= Len(ahead)
      <3>0. Tail(ahead) \in Seq(Records) /\ Len(ahead) \in Nat
        BY <1>3, HeadTailProperties, LenProperties
      <3>1. PICK n \in Nat, t \in Seq(Records) : n = Len(ahead) /\ t = Tail(ahead)
        BY <3>0
      <3>2. Len(t) = n - 1 /\ n >= 1
        BY <1>3, <3>1
      <3>3. PICK d : d = Data(SubSeq(b, m + 1, l))
        OBVIOUS
      <3>4. r.left = t \/ r.left = <<d>> \o t
        BY <2>5, <3>1, <3>3
      <3>5. Len(<<d>> \o t) = 1 + (n - 1)
        BY <3>1, <3>2
      <3>6. n - 1 <= n /\ 1 + (n - 1) <= n
        BY <3>2
      <3> QED
        BY <3>1, <3>2, <3>4, <3>5, <3>6
    <2> QED
      BY <2>4, <2>5, <2>7, <2>8 DEF Passes
  <1> QED
    BY <1>1, <1>2, <1>3

\* What an answer of the library makes of a session.
Failures == {"EAGAIN", "ENOTCONN", "ECONNRESET", "EPROTO"}

\* An error of the library is a failure of ours, and the session a session.
LEMMA Translated ==
    ASSUME NEW ses \in Sessions, NEW code
    PROVE  /\ tls_translate(ses, code).rc \in Failures
           /\ tls_translate(ses, code).tls \in Sessions
  <1>1. tls_translate(ses, code).rc \in Failures
    BY DEF tls_translate, Failures
  <1>2. tls_record_error(ses) \in Sessions
    BY DEF tls_record_error, Sessions
  <1>3. (IF code \in {"WANT_READ", "WANT_WRITE", "CLOSE_NOTIFY"}
         THEN ses ELSE tls_record_error(ses)) \in Sessions
    BY <1>2
  <1>4. PICK t \in Sessions : t = IF code \in {"WANT_READ", "WANT_WRITE", "CLOSE_NOTIFY"}
                                  THEN ses ELSE tls_record_error(ses)
    BY <1>3
  <1>5. tls_translate(ses, code).tls = [t EXCEPT !.wants_write = (code = "WANT_WRITE")]
    BY <1>4 DEF tls_translate
  <1>6. [t EXCEPT !.wants_write = (code = "WANT_WRITE")] \in Sessions
    <2>1. (code = "WANT_WRITE") \in BOOLEAN
      OBVIOUS
    <2> QED
      BY <2>1 DEF Sessions
  <1> QED
    BY <1>1, <1>5, <1>6

\* So does inkwell_tls_client_read(), which steps over a bounded number of
\* tickets: whatever it answers, no byte is lost.
LEMMA TlsRead ==
    ASSUME NEW in \in Seq(Bytes), NEW skip, NEW ahead \in Seq(Records), NEW bytes, NEW sent, NEW hnd,
           Flow(in, skip, ahead, bytes, sent, hnd), NEW cap \in Nat,
           NEW ses \in Sessions, NEW writable,
           NEW r, r = tls_client_read(ses, ahead, cap, writable)
    PROVE  /\ Passes(in, skip, ahead, bytes, sent, hnd, cap, r)
           /\ r.rc # "OK" => r.bytes = <<>> /\ r.rc \in Failures
           /\ r.tls \in Sessions
  <1>1. PICK n \in Nat : n = Len(ahead)
    OBVIOUS
  <1> DEFINE stops == {i \in 1 .. Len(ahead) + 1 : i > Len(ahead) \/ ~PassedOver(ahead[i], writable)}
             stop == Min(stops)
             tickets(k) == Cardinality({i \in 1 .. k : ahead[i].kind = "ticket"})
             spent == {k \in 1 .. stop - 1 : tickets(k) = TicketsPerRead}
             open == [ses EXCEPT !.more_to_read = FALSE]
             read == ssl_read(SubSeq(ahead, stop, Len(ahead)), cap)
             answer == IF read.code = "OK"
                       THEN [rc |-> "OK", tls |-> [open EXCEPT !.wants_write = FALSE]]
                       ELSE tls_translate(open, read.code)
  <1>2. r = IF spent # {}
            THEN [rc |-> TicketsSpent(open).rc, tls |-> TicketsSpent(open).tls, bytes |-> <<>>,
                  left |-> SubSeq(ahead, Min(spent) + 1, Len(ahead))]
            ELSE [rc |-> answer.rc, tls |-> answer.tls, bytes |-> read.bytes, left |-> read.left]
    BY DEF tls_client_read
  <1>3. /\ stop \in 1 .. n + 1
        /\ \A i \in 1 .. stop - 1 : i \in 1 .. n /\ PassedOver(ahead[i], writable)
    <2>1. stops \in SUBSET Nat
      BY <1>1
    <2>2. n + 1 \in stops
      BY <1>1
    <2>3. stops \subseteq 1 .. n + 1
      BY <1>1
    <2>4. \A i \in 1 .. n : i \notin stops => PassedOver(ahead[i], writable)
      BY <1>1
    <2> HIDE DEF stops
    <2>5. stop \in stops /\ \A y \in stops : stop <= y
      BY <2>1, <2>2, MinIs
    <2> HIDE DEF stop
    <2>6. stop \in 1 .. n + 1
      BY <2>3, <2>5
    <2>7. ASSUME NEW i \in 1 .. stop - 1 PROVE i \in 1 .. n /\ PassedOver(ahead[i], writable)
      <3>1. i \in 1 .. n /\ ~(stop <= i)
        BY <2>6
      <3> QED
        BY <2>4, <2>5, <3>1
    <2> QED
      BY <2>6, <2>7
  <1> HIDE DEF stops, stop
  <1>4. \A i \in 1 .. stop - 1 : ahead[i].bytes = <<>>
    <2> SUFFICES ASSUME NEW i \in 1 .. stop - 1 PROVE ahead[i].bytes = <<>>
      OBVIOUS
    <2>1. i \in 1 .. n /\ PassedOver(ahead[i], writable)
      BY <1>3
    <2>2. ahead[i] \in Records /\ ahead[i].kind # "data"
      BY <1>1, <2>1 DEF PassedOver
    <2> QED
      BY <2>2 DEF Records
  <1>5. open \in Sessions
    BY DEF Sessions
  <1> HIDE DEF tickets, spent, open, read, answer
  <1>6. CASE spent # {}
    <2>1. spent \in SUBSET Nat /\ spent \subseteq 1 .. stop - 1
      BY <1>3 DEF spent
    <2>2. PICK m : m = Min(spent)
      OBVIOUS
    <2>3. m \in 1 .. stop - 1
      BY <1>6, <2>1, <2>2, MinIs
    <2>4. m \in 0 .. Len(ahead)
      BY <1>1, <1>3, <2>3
    <2>5. \A j \in 1 .. m : ahead[j].bytes = <<>>
      <3>1. \A j \in 1 .. m : j \in 1 .. stop - 1
        BY <1>3, <2>3
      <3> QED
        BY <1>4, <3>1
    <2>6. /\ r.bytes = <<>> /\ r.left = SubSeq(ahead, m + 1, Len(ahead))
          /\ r.rc = TicketsSpent(open).rc /\ r.tls = TicketsSpent(open).tls
      <3>1. PICK t, l, e : t = TicketsSpent(open) /\ l = SubSeq(ahead, m + 1, Len(ahead)) /\ e = <<>>
        OBVIOUS
      <3>2. r = [rc |-> t.rc, tls |-> t.tls, bytes |-> e, left |-> l]
        BY <1>2, <1>6, <2>2, <3>1
      <3>3. r.rc = t.rc /\ r.tls = t.tls /\ r.bytes = e /\ r.left = l
        BY <3>2
      <3> QED
        BY <3>1, <3>3
    <2>7. r.rc = "EAGAIN" /\ r.tls \in Sessions
      <3>1. TicketsSpent(open).tls = [open EXCEPT !.wants_write = FALSE, !.more_to_read = TRUE]
        BY DEF TicketsSpent
      <3>2. [open EXCEPT !.wants_write = FALSE, !.more_to_read = TRUE] \in Sessions
        BY <1>5 DEF Sessions
      <3> QED
        BY <2>6, <3>1, <3>2 DEF TicketsSpent
    <2>8. Passes(in, skip, ahead, bytes, sent, hnd, cap, r)
      BY <2>4, <2>5, <2>6, PassesNothing
    <2> QED
      BY <2>6, <2>7, <2>8 DEF Failures
  <1>7. CASE spent = {}
    <2>1. r.rc = answer.rc /\ r.tls = answer.tls /\ r.bytes = read.bytes /\ r.left = read.left
      BY <1>2, <1>7
    <2>2. PICK m \in Nat : m = stop - 1 /\ m + 1 = stop
      BY <1>3
    <2>3. m \in 0 .. Len(ahead)
      BY <1>1, <1>3, <2>2
    <2>4. PICK rest : rest = SubSeq(ahead, m + 1, Len(ahead))
      OBVIOUS
    <2>5. rest \in Seq(Records) /\ Flow(in, skip, rest, bytes, sent, hnd)
      BY <1>4, <2>2, <2>3, <2>4, FlowDrop
    <2>6. read = ssl_read(rest, cap)
      BY <2>2, <2>4 DEF read
    <2>7. /\ Passes(in, skip, rest, bytes, sent, hnd, cap, read)
          /\ read.code # "OK" => read.bytes = <<>>
      BY <2>5, <2>6, SslRead
    <2>8. Len(rest) <= n
      <3>1. m + 1 \in Int /\ n \in Int /\ m \in 0 .. n /\ \A i \in m + 1 .. n : ahead[i] \in Records
        BY <1>1, <2>3
      <3>2. Len(rest) = IF m + 1 <= n THEN n - (m + 1) + 1 ELSE 0
        BY <1>1, <2>4, <3>1, SubSeqProperties
      <3>3. (IF m + 1 <= n THEN n - (m + 1) + 1 ELSE 0) <= n
        BY <3>1
      <3> QED
        BY <3>2, <3>3
    <2>9. Passes(in, skip, ahead, bytes, sent, hnd, cap, r)
      <3>0. Len(r.left) \in Nat /\ Len(rest) \in Nat
        BY <2>1, <2>5, <2>7, LenProperties DEF Passes
      <3>1. PICK a \in Nat, b \in Nat : a = Len(r.left) /\ b = Len(rest)
        BY <3>0
      <3>2. a <= b /\ b <= n
        BY <2>1, <2>7, <2>8, <3>1 DEF Passes
      <3>3. a <= n
        BY <3>2
      <3> QED
        BY <1>1, <2>1, <2>7, <3>1, <3>3 DEF Passes
    <2>10. CASE read.code = "OK"
      <3>1. answer.rc = "OK" /\ answer.tls = [open EXCEPT !.wants_write = FALSE]
        BY <2>10 DEF answer
      <3>2. [open EXCEPT !.wants_write = FALSE] \in Sessions
        BY <1>5 DEF Sessions
      <3> QED
        BY <2>1, <2>9, <3>1, <3>2
    <2>11. CASE read.code # "OK"
      <3>1. answer.rc = tls_translate(open, read.code).rc
            /\ answer.tls = tls_translate(open, read.code).tls
        BY <2>11 DEF answer
      <3>2. answer.rc \in Failures /\ answer.tls \in Sessions
        BY <1>5, <3>1, Translated
      <3> QED
        BY <2>1, <2>7, <2>9, <2>11, <3>2
    <2> QED
      BY <2>10, <2>11
  <1> QED
    BY <1>6, <1>7

\* mqtt_raw_read(), with and without TLS.
LEMMA RawRead ==
    ASSUME NEW in \in Seq(Bytes), NEW skip, NEW ahead \in Seq(Records), NEW bytes, NEW sent, NEW hnd,
           Flow(in, skip, ahead, bytes, sent, hnd), NEW cap \in Nat,
           NEW k, k.tls \in Sessions, k.secure \in BOOLEAN,
           NEW r, r = mqtt_raw_read(k, ahead, cap)
    PROVE  /\ Passes(in, skip, ahead, bytes, sent, hnd, cap, r)
           /\ r.rc # "OK" => r.bytes = <<>> /\ r.rc \in Failures
           /\ r.tls \in Sessions
  <1>1. CASE k.secure
    <2>1a. PICK ses \in Sessions : ses = k.tls
      OBVIOUS
    <2>1b. PICK b : b = net.writable
      OBVIOUS
    <2>1. ses = k.tls /\ b = net.writable
      BY <2>1a, <2>1b
    <2>2. r = tls_client_read(ses, ahead, cap, b)
      BY <1>1, <2>1 DEF mqtt_raw_read
    <2> QED
      BY <2>2, TlsRead
  <1>2. CASE ~k.secure
    <2>1. PICK s : s = ssl_read(ahead, cap)
      OBVIOUS
    <2>2. /\ Passes(in, skip, ahead, bytes, sent, hnd, cap, s)
          /\ s.code # "OK" => s.bytes = <<>>
      BY <2>1, SslRead
    <2>3. PICK rc : rc = CASE s.code = "OK" -> "OK" [] s.code = "WANT_READ" -> "EAGAIN"
                           [] OTHER -> "ENOTCONN"
      OBVIOUS
    <2>4. r = [rc |-> rc, tls |-> k.tls, bytes |-> s.bytes, left |-> s.left]
      BY <1>2, <2>1, <2>3 DEF mqtt_raw_read
    <2>5. r.rc = rc /\ r.tls = k.tls /\ r.bytes = s.bytes /\ r.left = s.left
      BY <2>4
    <2>6. rc # "OK" => s.code # "OK" /\ rc \in Failures
      BY <2>3 DEF Failures
    <2> QED
      BY <2>2, <2>5, <2>6 DEF Passes
  <1> QED
    BY <1>1, <1>2

\* Wherever the session stops reading ahead, nothing changes but the border.
LEMMA LiesIs ==
    ASSUME NEW left \in Seq(Records), NEW ahead, ahead = net.inside \o net.sock,
           net.inside \in Seq(Records), net.sock \in Seq(Records),
           Len(left) <= Len(ahead),
           net = [inside |-> net.inside, sock |-> net.sock, writable |-> net.writable],
           NEW n \in Lies(left, ahead)
    PROVE  /\ n = [inside |-> n.inside, sock |-> n.sock, writable |-> net.writable]
           /\ n.inside \in Seq(Records) /\ n.sock \in Seq(Records)
           /\ n.inside \o n.sock = left
  <1>1. PICK l \in Nat, a \in Nat, i \in Nat : l = Len(left) /\ a = Len(ahead) /\ i = Len(net.inside)
    BY LenProperties, ConcatProperties
  <1>2. l <= a /\ i <= a
    <2>1. PICK s \in Nat : s = Len(net.sock)
      BY LenProperties
    <2>2. a = i + s
      BY <1>1, <2>1, ConcatProperties
    <2> QED
      BY <1>1, <2>2
  <1> DEFINE begun == /\ left # <<>>
                      /\ \/ left[1].kind = "request"
                         \/ left[1] # ahead[Len(ahead) - Len(left) + 1]
             one == IF begun THEN 1 ELSE 0
             least == Max({Len(net.inside) - (Len(ahead) - Len(left)), one})
             most == Cardinality({j \in DOMAIN left : left[j].kind # "eof"})
  <1>3. least \in 0 .. l
    <2>1. one \in 0 .. l
      <3>1. CASE begun
        <4>1. l # 0
          BY <1>1, <3>1, EmptySeq
        <4> QED
          BY <3>1, <4>1
      <3>2. CASE ~begun
        BY <3>2
      <3> QED
        BY <3>1, <3>2
    <2>2. PICK u \in Int : u = i - (a - l)
      BY <1>1
    <2>3. u <= l
      BY <1>2, <2>2
    <2>4. least = Max({u, one})
      BY <1>1, <2>2
    <2> HIDE DEF one, least
    <2>5. PICK v \in 0 .. l : v = one
      BY <2>1
    <2>6. \E x \in {u, v} : \A y \in {u, v} : x >= y
      BY <2>5
    <2>7. Max({u, v}) \in {u, v} /\ \A y \in {u, v} : Max({u, v}) >= y
      BY <2>6 DEF Max
    <2>8. PICK z : z = Max({u, v})
      OBVIOUS
    <2>9. z \in {u, v} /\ z >= v
      BY <2>7, <2>8
    <2>10. z \in 0 .. l
      BY <2>3, <2>9
    <2> QED
      BY <2>4, <2>5, <2>8, <2>10
  <1>4. most \in 0 .. l
    <2> DEFINE T == {j \in DOMAIN left : left[j].kind # "eof"}
    <2>1. T \in SUBSET (1 .. l)
      BY <1>1
    <2>2. most = Cardinality(T)
      OBVIOUS
    <2> HIDE DEF T, most
    <2>3. IsFiniteSet(1 .. l) /\ Cardinality(1 .. l) = IF 1 > l THEN 0 ELSE l - 1 + 1
      <3>1. 1 \in Int /\ l \in Int
        OBVIOUS
      <3> QED
        BY <3>1, FS_Interval, Zenon
    <2>4. Cardinality(1 .. l) = l
      BY <2>3
    <2>5. IsFiniteSet(T) /\ Cardinality(T) <= l
      BY <2>1, <2>3, <2>4, FS_Subset
    <2>6. Cardinality(T) \in Nat
      BY <2>5, FS_CardinalityType
    <2>7. PICK z \in Nat : z = Cardinality(T)
      BY <2>6
    <2>8. z <= l
      BY <2>5, <2>7
    <2>9. z \in 0 .. l
      BY <2>8
    <2> QED
      BY <2>2, <2>7, <2>9
  <1> HIDE DEF begun, one, least, most
  <1>5. PICK m \in 0 .. l :
          n = [net EXCEPT !.inside = SubSeq(left, 1, m), !.sock = SubSeq(left, m + 1, Len(left))]
    <2>1. Lies(left, ahead) =
            {[net EXCEPT !.inside = SubSeq(left, 1, m), !.sock = SubSeq(left, m + 1, Len(left))] :
               m \in IF c.secure THEN {least, most} ELSE {0}}
      BY DEF Lies, least, most, one, begun
    <2>2. (IF c.secure THEN {least, most} ELSE {0}) \subseteq 0 .. l
      BY <1>3, <1>4
    <2> QED
      BY <2>1, <2>2
  <1> DEFINE p == SubSeq(left, 1, m)
             q == SubSeq(left, m + 1, l)
  <1>6. p \in Seq(Records) /\ q \in Seq(Records)
    <2>1. \A j \in 1 .. l : left[j] \in Records
      BY <1>1
    <2>2. \A j \in 1 .. m : left[j] \in Records
      BY <2>1
    <2>3. \A j \in m + 1 .. l : left[j] \in Records
      BY <2>1
    <2>4. 1 \in Int /\ m \in Int /\ m + 1 \in Int /\ l \in Int
      OBVIOUS
    <2>5. SubSeq(left, 1, m) \in Seq(Records)
      BY <2>2, <2>4, SubSeqProperties
    <2>6. SubSeq(left, m + 1, l) \in Seq(Records)
      BY <2>3, <2>4, SubSeqProperties
    <2> QED
      BY <2>5, <2>6
  <1>7. p \o q = left
    <2>1. 1 \in 1 .. Len(left) + 1 /\ m \in 1 - 1 .. Len(left) /\ Len(left) \in m .. Len(left)
      BY <1>1
    <2>2. SubSeq(left, 1, m) \o SubSeq(left, m + 1, Len(left)) = SubSeq(left, 1, Len(left))
      BY <2>1, ConcatAdjacentSubSeq
    <2> QED
      BY <1>1, <2>2, SubSeqFull
  <1> HIDE DEF p, q
  <1>8. n = [inside |-> p, sock |-> q, writable |-> net.writable]
    BY <1>1, <1>5 DEF p, q
  <1> QED
    BY <1>6, <1>7, <1>8

-----------------------------------------------------------------------------
(* The inductive invariant. *)

\* The types.  The client's packets are packets, and what the broker sends and the
\* reader makes of it is speech.
SessionConnections ==
    [tls : Sessions, secure : BOOLEAN, in : Seq(Bytes), skip : Nat, more_to_read : BOOLEAN,
     read_wants_write : BOOLEAN, out : Seq(Ours), want_write : BOOLEAN]
Subs == [filters : Seq(Filters), filter_sent : Nat, subscribe_id : Nat, full : BOOLEAN]
Readers ==
    [at : {"idle", "reading", "consuming", "callback"}, turn : Nat,
     cont : {"none", "connack", "read"}]
Nets == [inside : Seq(Records), sock : Seq(Records), writable : BOOLEAN]
Meanings == {x.seen : x \in Speech}
Brokers ==
    [heard : Seq(Ours), bytes : Seq(Bytes), sent : Seq(Meanings), asked : SUBSET Filters,
     nonsense : {FALSE}]

SessionTyped ==
    /\ session \in {"WAITING", "SECURING", "GREETING", "READY"}
    /\ c \in SessionConnections /\ subs \in Subs /\ reader \in Readers /\ lib \in Process
    /\ net \in Nets /\ broker \in Brokers /\ handled \in Seq(Meanings) /\ why # "protocol"

\* The limits of the buffers; the reader never waits with a full one.
Limits ==
    /\ Len(c.in) <= InMax /\ Len(c.out) <= OutMax /\ Len(subs.filters) <= FiltersMax
    /\ reader.at \in {"idle", "reading"} => Len(c.in) < InMax

\* No greeting is under way from the client to the broker.
Quiet(k, b) ==
    /\ \A i \in 1 .. Len(k.out) : k.out[i] # Greeting
    /\ \A i \in 1 .. Len(b.heard) : b.heard[i] # Greeting

\* No CONNACK is sent but the first packet.
OneConnack(sent) == \A i \in 2 .. Len(sent) : sent[i].type # CONNACK

\* A session that is greeting: the greeting is queued, with the broker, or answered.
Greeted ==
    \/ c.out = <<Greeting>> /\ broker.heard = <<>> /\ broker.sent = <<>>
    \/ c.out = <<>> /\ broker.heard = <<Greeting>> /\ broker.sent = <<>>
    \/ /\ c.out = <<>> /\ broker.heard = <<>> /\ broker.sent # <<>>
       /\ broker.sent[1].type = CONNACK /\ OneConnack(broker.sent)

Phase ==
    /\ session \in {"WAITING", "SECURING"} =>
         /\ reader = Idle /\ handled = <<>> /\ broker = NoBroker
         /\ net.inside = <<>> /\ net.sock = <<>>
         /\ c.in = <<>> /\ c.skip = 0 /\ c.out = <<>>
    /\ session = "GREETING" => handled = <<>> /\ reader.at # "callback" /\ Greeted
    /\ session = "READY" =>
         Quiet(c, broker) /\ handled # <<>> /\ OneConnack(broker.sent)

\* How far the subscribing has come, with the connection k and the broker b.
AskedIn(k, b) == b.asked \cup FiltersIn(k.out)
Pump(k, b, s) ==
    /\ s.filter_sent <= Len(s.filters)
    /\ \A i \in 1 .. s.filter_sent : s.filters[i] \in AskedIn(k, b)
    /\ s.subscribe_id # 0 =>
         /\ s.subscribe_id = s.filter_sent + 1 /\ s.subscribe_id <= Len(s.filters)
         /\ s.filters[s.subscribe_id] \in AskedIn(k, b)
Moving(s) == s.filter_sent < Len(s.filters) => s.subscribe_id # 0 \/ s.full

Subscribing ==
    /\ session # "READY" => subs.filter_sent = 0 /\ subs.subscribe_id = 0
    /\ session = "READY" =>
         /\ Pump(c, broker, subs)
         /\ Moving(subs) \/ (reader.at = "callback" /\ reader.cont = "connack")

SessionFlow ==
    Flow(c.in, c.skip, net.inside \o net.sock, broker.bytes, broker.sent, handled)

SessionInv == SessionTyped /\ Limits /\ Phase /\ Subscribing /\ SessionFlow

-----------------------------------------------------------------------------
(* Writing. *)

\* The connection and the broker after something may have been written: what was
\* queued still is, or the broker has it.
Wrote(k, queue, b, f) ==
    /\ f.c \in SessionConnections /\ f.broker \in Brokers
    /\ f.c.in = k.in /\ f.c.skip = k.skip
    /\ f.broker.bytes = b.bytes /\ f.broker.sent = b.sent
    /\ \/ f.c.out = queue /\ f.broker = b
       \/ /\ f.c.out = <<>> /\ f.broker.heard = b.heard \o queue
          /\ f.broker.asked = b.asked \cup FiltersIn(queue)

\* mqtt_arm() touches the interest in OUT and nothing else.
LEMMA ArmIs ==
    ASSUME NEW k \in SessionConnections
    PROVE  mqtt_arm(k) = [k EXCEPT !.want_write = mqtt_arm(k).want_write]
           /\ mqtt_arm(k) \in SessionConnections
  <1>1. PICK v \in BOOLEAN : mqtt_arm(k) = [k EXCEPT !.want_write = v]
    BY DEF mqtt_arm
  <1> QED
    BY <1>1 DEF SessionConnections

\* The broker takes packets of ours for what they are.
LEMMA ReceivedIs ==
    ASSUME NEW b \in Brokers, NEW queue \in Seq(Ours)
    PROVE  /\ Received(b, queue) \in Brokers
           /\ Received(b, queue).heard = b.heard \o queue
           /\ Received(b, queue).bytes = b.bytes /\ Received(b, queue).sent = b.sent
           /\ Received(b, queue).asked = b.asked \cup FiltersIn(queue)
  <1>1. FiltersIn(queue) \in SUBSET Filters
    BY DEF FiltersIn
  <1>2. b.heard \o queue \in Seq(Ours)
    BY ConcatProperties DEF Brokers
  <1>3. ~(\E i \in DOMAIN queue : Asks(queue[i]) = {} /\ queue[i] # OurMessage)
    <2> SUFFICES ASSUME NEW i \in DOMAIN queue PROVE Asks(queue[i]) # {} \/ queue[i] = OurMessage
      OBVIOUS
    <2>1. queue[i] \in Ours
      OBVIOUS
    <2> QED
      BY <2>1, AsksIs
  <1>4. PICK h \in Seq(Ours), a \in SUBSET Filters :
          h = b.heard \o queue /\ a = b.asked \cup FiltersIn(queue)
    BY <1>1, <1>2 DEF Brokers
  <1>5. Received(b, queue) = [b EXCEPT !.heard = h, !.asked = a, !.nonsense = FALSE]
    <2>1. b.nonsense = FALSE
      BY DEF Brokers
    <2>2. (b.nonsense \/ \E i \in DOMAIN queue : Asks(queue[i]) = {} /\ queue[i] # OurMessage) = FALSE
      BY <1>3, <2>1
    <2> QED
      BY <1>4, <2>2 DEF Received
  <1> QED
    BY <1>4, <1>5 DEF Brokers

\* A write leaves a TLS session.
LEMMA WriteIs ==
    ASSUME NEW k \in SessionConnections, NEW kernel \in {"took", "full"}
    PROVE  mqtt_raw_write(k, kernel).tls \in Sessions
  <1>1. k.tls \in Sessions
    BY DEF SessionConnections
  <1>2. CASE ~k.secure
    BY <1>1, <1>2 DEF mqtt_raw_write
  <1>3. CASE k.secure
    <2>1. mqtt_raw_write(k, kernel) = tls_client_write(k.tls, kernel)
      BY <1>3 DEF mqtt_raw_write
    <2>2a. PICK t \in Sessions : t = k.tls
      BY <1>1
    <2>2b. PICK code : code = tls_bio_send(kernel)
      OBVIOUS
    <2>2. t = k.tls /\ code = tls_bio_send(kernel)
      BY <2>2a, <2>2b
    <2>3. [t EXCEPT !.wants_write = FALSE] \in Sessions /\ tls_translate(t, code).tls \in Sessions
      BY Translated DEF Sessions
    <2>4. tls_client_write(t, kernel) =
            IF code = "OK" THEN [rc |-> "OK", tls |-> [t EXCEPT !.wants_write = FALSE]]
            ELSE tls_translate(t, code)
      BY <2>2 DEF tls_client_write
    <2>5. CASE code = "OK"
      BY <2>1, <2>2, <2>3, <2>4, <2>5
    <2>6. CASE code # "OK"
      BY <2>1, <2>2, <2>3, <2>4, <2>6
    <2> QED
      BY <2>5, <2>6
  <1> QED
    BY <1>2, <1>3

\* mqtt_flush() is such a write.
LEMMA FlushIs ==
    ASSUME NEW k \in SessionConnections, NEW b \in Brokers, NEW f, f = mqtt_flush(k, b)
    PROVE  Wrote(k, k.out, b, f)
  <1>1. PICK wrote : wrote = mqtt_raw_write(k, IF net.writable THEN "took" ELSE "full")
    OBVIOUS
  <1>2. wrote.tls \in Sessions
    BY <1>1, WriteIs
  <1>3. CASE k.out = <<>>
    <2>1. f = [c |-> mqtt_arm(k), broker |-> b]
      BY <1>3 DEF mqtt_flush
    <2>2. PICK v : v = mqtt_arm(k).want_write
      OBVIOUS
    <2>3. mqtt_arm(k) = [k EXCEPT !.want_write = v] /\ mqtt_arm(k) \in SessionConnections
      BY <2>2, ArmIs
    <2>4. f.c = [k EXCEPT !.want_write = v] /\ f.broker = b /\ f.c \in SessionConnections
      BY <2>1, <2>3
    <2>5. f.c.in = k.in /\ f.c.skip = k.skip /\ f.c.out = k.out
      BY <2>4 DEF SessionConnections
    <2> QED
      BY <2>4, <2>5 DEF Wrote
  <1>4. CASE k.out # <<>> /\ wrote.rc = "OK"
    <2>1. PICK d : d = [k EXCEPT !.tls = wrote.tls, !.out = <<>>]
      OBVIOUS
    <2>2. d \in SessionConnections /\ d.in = k.in /\ d.skip = k.skip /\ d.out = <<>>
      <3>1. <<>> \in Seq(Ours)
        OBVIOUS
      <3> QED
        BY <1>2, <2>1, <3>1 DEF SessionConnections
    <2>3. f = [c |-> mqtt_arm(d), broker |-> Received(b, k.out)]
      BY <1>1, <1>4, <2>1 DEF mqtt_flush
    <2>4. PICK v : v = mqtt_arm(d).want_write
      OBVIOUS
    <2>5. mqtt_arm(d) = [d EXCEPT !.want_write = v] /\ mqtt_arm(d) \in SessionConnections
      BY <2>2, <2>4, ArmIs
    <2>6. f.c = [d EXCEPT !.want_write = v] /\ f.broker = Received(b, k.out) /\ f.c \in SessionConnections
      BY <2>3, <2>5
    <2>7. f.c.in = k.in /\ f.c.skip = k.skip /\ f.c.out = <<>>
      BY <2>2, <2>6 DEF SessionConnections
    <2>8. PICK queue \in Seq(Ours) : queue = k.out
      BY DEF SessionConnections
    <2>9. PICK r : r = Received(b, queue)
      OBVIOUS
    <2>10. /\ r \in Brokers /\ r.heard = b.heard \o queue /\ r.bytes = b.bytes /\ r.sent = b.sent
           /\ r.asked = b.asked \cup FiltersIn(queue)
      BY <2>9, ReceivedIs
    <2>11. f.broker = r
      BY <2>6, <2>8, <2>9
    <2>12. Wrote(k, queue, b, f)
      BY <2>6, <2>7, <2>10, <2>11 DEF Wrote
    <2> QED
      BY <2>8, <2>12
  <1>5. CASE k.out # <<>> /\ wrote.rc # "OK"
    <2>1. PICK d : d = [k EXCEPT !.tls = wrote.tls]
      OBVIOUS
    <2>2. d \in SessionConnections /\ d.in = k.in /\ d.skip = k.skip /\ d.out = k.out
      BY <1>2, <2>1 DEF SessionConnections
    <2>3. f = [c |-> mqtt_arm(d), broker |-> b]
      BY <1>1, <1>5, <2>1 DEF mqtt_flush
    <2>4. PICK v : v = mqtt_arm(d).want_write
      OBVIOUS
    <2>5. mqtt_arm(d) = [d EXCEPT !.want_write = v] /\ mqtt_arm(d) \in SessionConnections
      BY <2>2, <2>4, ArmIs
    <2>6. f.c = [d EXCEPT !.want_write = v] /\ f.broker = b /\ f.c \in SessionConnections
      BY <2>3, <2>5
    <2>7. f.c.in = k.in /\ f.c.skip = k.skip /\ f.c.out = k.out
      BY <2>2, <2>6 DEF SessionConnections
    <2> QED
      BY <2>6, <2>7 DEF Wrote
  <1> QED
    BY <1>3, <1>4, <1>5

\* mqtt_queue() is one behind a packet that was appended.
LEMMA QueueIs ==
    ASSUME NEW k \in SessionConnections, NEW b \in Brokers, NEW p \in Ours,
           NEW f, f = mqtt_queue(k, b, p)
    PROVE  Wrote(k, Append(k.out, p), b, f)
  <1>1. PICK d : d = [k EXCEPT !.out = Append(k.out, p)]
    OBVIOUS
  <1>2. Append(k.out, p) \in Seq(Ours)
    BY DEF SessionConnections
  <1>3. d \in SessionConnections /\ d.in = k.in /\ d.skip = k.skip /\ d.out = Append(k.out, p)
    BY <1>1, <1>2 DEF SessionConnections
  <1>4. f = mqtt_flush(d, b)
    BY <1>1 DEF mqtt_queue
  <1>5. Wrote(d, d.out, b, f)
    BY <1>3, <1>4, FlushIs
  <1> QED
    BY <1>3, <1>5 DEF Wrote

\* What the broker is asked for is in the queue or with the broker, nothing else
\* gets into either, and the queue does not grow behind the client's back.
LEMMA WroteKeeps ==
    ASSUME NEW k, NEW queue \in Seq(Ours), NEW b \in Brokers, NEW f, Wrote(k, queue, b, f)
    PROVE  /\ AskedIn(f.c, f.broker) = b.asked \cup FiltersIn(queue)
           /\ Len(f.c.out) <= Len(queue)
           /\ (/\ \A i \in 1 .. Len(queue) : queue[i] # Greeting
               /\ \A i \in 1 .. Len(b.heard) : b.heard[i] # Greeting) => Quiet(f.c, f.broker)
  <1>1. CASE f.c.out = queue /\ f.broker = b
    <2>1. Len(queue) \in Nat
      OBVIOUS
    <2> QED
      BY <1>1, <2>1 DEF AskedIn, Quiet
  <1>2. CASE /\ f.c.out = <<>> /\ f.broker.heard = b.heard \o queue
             /\ f.broker.asked = b.asked \cup FiltersIn(queue)
    <2>1. FiltersIn(<<>>) = {}
      BY DEF FiltersIn
    <2>2. AskedIn(f.c, f.broker) = b.asked \cup FiltersIn(queue)
      BY <1>2, <2>1 DEF AskedIn
    <2>3. Len(f.c.out) = 0 /\ Len(queue) \in Nat /\ 0 <= Len(queue)
      BY <1>2
    <2>4. ASSUME \A i \in 1 .. Len(queue) : queue[i] # Greeting,
                 \A i \in 1 .. Len(b.heard) : b.heard[i] # Greeting
          PROVE  Quiet(f.c, f.broker)
      <3>1. PICK h \in Seq(Ours) : h = b.heard
        BY DEF Brokers
      <3>2. PICK n \in Nat, m \in Nat : n = Len(h) /\ m = Len(queue)
        OBVIOUS
      <3>3. /\ Len(h \o queue) = n + m
            /\ \A i \in 1 .. n + m : (h \o queue)[i] = IF i <= n THEN h[i] ELSE queue[i - n]
        BY <3>2, ConcatProperties
      <3>4. ASSUME NEW i \in 1 .. n + m PROVE (h \o queue)[i] # Greeting
        <4>1. CASE i <= n
          <5>1. i \in 1 .. n
            BY <4>1
          <5> QED
            BY <2>4, <3>1, <3>2, <3>3, <4>1, <5>1
        <4>2. CASE ~(i <= n)
          <5>1. i - n \in 1 .. m
            BY <4>2
          <5> QED
            BY <2>4, <3>2, <3>3, <4>2, <5>1
        <4> QED
          BY <4>1, <4>2
      <3>5. \A i \in 1 .. Len(f.broker.heard) : f.broker.heard[i] # Greeting
        BY <1>2, <3>1, <3>3, <3>4
      <3>6. \A i \in 1 .. Len(f.c.out) : f.c.out[i] # Greeting
        <4>1. 1 .. 0 = {}
          OBVIOUS
        <4> QED
          BY <2>3, <4>1
      <3> QED
        BY <3>5, <3>6 DEF Quiet
    <2>5. Len(f.c.out) <= Len(queue)
      BY <2>3
    <2> QED
      BY <2>2, <2>4, <2>5
  <1> QED
    BY <1>1, <1>2 DEF Wrote

\* A packet more in the queue: it asks for its filter, and leaves the others.
LEMMA FiltersInAppend ==
    ASSUME NEW queue \in Seq(Ours), NEW p \in Ours
    PROVE  /\ FiltersIn(queue) \subseteq FiltersIn(Append(queue, p))
           /\ \A id \in 1 .. FiltersMax, f \in Filters :
                p = SubscribeOf(id, f) => f \in FiltersIn(Append(queue, p))
  <1>1. PICK n \in Nat : n = Len(queue)
    OBVIOUS
  <1>2. PICK more : more = Append(queue, p)
    OBVIOUS
  <1>3. DOMAIN queue = 1 .. n /\ DOMAIN more = 1 .. n + 1 /\ more[n + 1] = p
        /\ \A i \in 1 .. n : more[i] = queue[i]
    BY <1>1, <1>2
  <1>4. FiltersIn(queue) \subseteq FiltersIn(more)
    <2> SUFFICES ASSUME NEW f \in FiltersIn(queue) PROVE f \in FiltersIn(more)
      OBVIOUS
    <2>1. f \in Filters /\ \E i \in DOMAIN queue, id \in 1 .. FiltersMax : queue[i] = SubscribeOf(id, f)
      BY DEF FiltersIn
    <2>2. PICK i \in DOMAIN queue, id \in 1 .. FiltersMax : queue[i] = SubscribeOf(id, f)
      BY <2>1
    <2>3. i \in DOMAIN more /\ more[i] = SubscribeOf(id, f)
      BY <1>3, <2>2
    <2> QED
      BY <2>1, <2>3 DEF FiltersIn
  <1>5. ASSUME NEW id \in 1 .. FiltersMax, NEW f \in Filters, p = SubscribeOf(id, f)
        PROVE  f \in FiltersIn(more)
    <2>1. n + 1 \in DOMAIN more /\ more[n + 1] = SubscribeOf(id, f)
      BY <1>3, <1>5
    <2> QED
      BY <2>1 DEF FiltersIn
  <1> QED
    BY <1>2, <1>4, <1>5

\* mqtt_queue() of anything but a greeting, where there is room.
LEMMA QueueKeeps ==
    ASSUME NEW k \in SessionConnections, NEW b \in Brokers, NEW p \in Ours, p # Greeting,
           Quiet(k, b), Room(k), NEW q, q = mqtt_queue(k, b, p)
    PROVE  /\ q.c \in SessionConnections /\ q.broker \in Brokers
           /\ q.c.in = k.in /\ q.c.skip = k.skip
           /\ q.broker.bytes = b.bytes /\ q.broker.sent = b.sent
           /\ Quiet(q.c, q.broker) /\ Len(q.c.out) <= OutMax
           /\ AskedIn(k, b) \subseteq AskedIn(q.c, q.broker)
           /\ \A id \in 1 .. FiltersMax, f \in Filters :
                p = SubscribeOf(id, f) => f \in AskedIn(q.c, q.broker)
  <1>1. PICK queue \in Seq(Ours) : queue = k.out
    BY DEF SessionConnections
  <1>2. PICK more \in Seq(Ours) : more = Append(queue, p)
    BY AppendProperties
  <1>3. Wrote(k, more, b, q)
    BY <1>1, <1>2, QueueIs
  <1>4. PICK n \in Nat : n = Len(queue)
    OBVIOUS
  <1>5. Len(more) = n + 1 /\ more[n + 1] = p /\ \A i \in 1 .. n : more[i] = queue[i]
    BY <1>2, <1>4
  <1>6. n < OutMax
    BY <1>1, <1>4 DEF Room
  <1>7. \A i \in 1 .. Len(more) : more[i] # Greeting
    <2> SUFFICES ASSUME NEW i \in 1 .. n + 1 PROVE more[i] # Greeting
      BY <1>5
    <2>1. CASE i = n + 1
      BY <1>5, <2>1
    <2>2. CASE i # n + 1
      <3>1. i \in 1 .. n
        BY <2>2
      <3> QED
        BY <1>1, <1>4, <1>5, <3>1 DEF Quiet
    <2> QED
      BY <2>1, <2>2
  <1>8. /\ AskedIn(q.c, q.broker) = b.asked \cup FiltersIn(more)
        /\ Len(q.c.out) <= Len(more) /\ Quiet(q.c, q.broker)
    <2>1. \A i \in 1 .. Len(b.heard) : b.heard[i] # Greeting
      BY DEF Quiet
    <2> QED
      BY <1>3, <1>7, <2>1, WroteKeeps
  <1>9. Len(q.c.out) <= OutMax
    <2>1. q.c.out \in Seq(Ours)
      BY <1>3 DEF Wrote, SessionConnections
    <2>2. PICK m \in Nat : m = Len(q.c.out)
      BY <2>1, LenProperties
    <2>3. m <= n + 1
      BY <1>5, <1>8, <2>2
    <2>4. m <= OutMax
      BY <1>6, <2>3, SizesAssumption
    <2> QED
      BY <2>2, <2>4
  <1>10. /\ AskedIn(k, b) \subseteq AskedIn(q.c, q.broker)
         /\ \A id \in 1 .. FiltersMax, f \in Filters :
              p = SubscribeOf(id, f) => f \in AskedIn(q.c, q.broker)
    BY <1>1, <1>2, <1>8, FiltersInAppend DEF AskedIn
  <1> QED
    BY <1>3, <1>8, <1>9, <1>10 DEF Wrote

\* mqtt_pump_subscribes(): what it is about stays true, and it is not stalled.
Pumps(k, b, s, p) ==
    /\ p.c \in SessionConnections /\ p.broker \in Brokers /\ p.subs \in Subs
    /\ p.c.in = k.in /\ p.c.skip = k.skip
    /\ p.broker.bytes = b.bytes /\ p.broker.sent = b.sent
    /\ Quiet(p.c, p.broker) /\ Len(p.c.out) <= OutMax
    /\ p.subs.filters = s.filters
    /\ Pump(p.c, p.broker, p.subs) /\ Moving(p.subs)

\* mqtt_pump_subscribes() does not lose count of the filters, and does not stall.
LEMMA PumpIs ==
    ASSUME NEW k \in SessionConnections, NEW b \in Brokers, NEW s \in Subs,
           Quiet(k, b), Len(k.out) <= OutMax, Len(s.filters) <= FiltersMax, Pump(k, b, s),
           NEW p, p = mqtt_pump_subscribes(k, b, s)
    PROVE  Pumps(k, b, s, p)
  <1>1. PICK l \in Nat, g \in Nat, i \in Nat :
          l = Len(s.filters) /\ g = s.filter_sent /\ i = s.subscribe_id
    BY LenProperties DEF Subs
  <1>2. g <= l /\ l <= FiltersMax
    BY <1>1 DEF Pump
  <1>3. CASE i # 0 \/ g >= l
    <2>1. p = [c |-> k, broker |-> b, subs |-> s]
      BY <1>1, <1>3 DEF mqtt_pump_subscribes
    <2>2. p.c = k /\ p.broker = b /\ p.subs = s
      BY <2>1
    <2>3. Moving(s)
      <3>1. g < l => i # 0
        BY <1>3
      <3> QED
        BY <1>1, <3>1 DEF Moving
    <2> QED
      BY <2>2, <2>3 DEF Pumps
  <1>4. CASE i = 0 /\ g < l /\ ~Room(k)
    <2>1. PICK t : t = [s EXCEPT !.full = TRUE]
      OBVIOUS
    <2>2. p = [c |-> k, broker |-> b, subs |-> t]
      <3>1. ~(i # 0 \/ g >= l)
        BY <1>4
      <3> QED
        BY <1>1, <1>4, <2>1, <3>1 DEF mqtt_pump_subscribes
    <2>3. p.c = k /\ p.broker = b /\ p.subs = t
      BY <2>2
    <2>4. /\ t \in Subs /\ t.filters = s.filters /\ t.filter_sent = s.filter_sent
          /\ t.subscribe_id = s.subscribe_id /\ t.full = TRUE
      BY <2>1 DEF Subs
    <2>5. Pump(k, b, t) /\ Moving(t)
      BY <2>4 DEF Pump, Moving
    <2> QED
      BY <2>3, <2>4, <2>5 DEF Pumps
  <1>5. CASE i = 0 /\ g < l /\ Room(k)
    <2>1. g + 1 \in 1 .. FiltersMax /\ g + 1 \in 1 .. l /\ g + 1 \in Nat /\ g + 1 # 0
      BY <1>2, <1>5, SizesAssumption
    <2>2. PICK f \in Filters : f = s.filters[g + 1]
      <3>1. s.filters \in Seq(Filters)
        BY DEF Subs
      <3> QED
        BY <1>1, <2>1, <3>1
    <2>3. NextSubscribe(s) = SubscribeOf(g + 1, f)
      BY <1>1, <2>1, <2>2, EncodedSubscribe DEF NextSubscribe
    <2>4. PICK a : a = SubscribeOf(g + 1, f)
      OBVIOUS
    <2>5. a \in Ours /\ a # Greeting
      <3>1. a \in Ours
        <4>1. <<g + 1, f>> \in (1 .. FiltersMax) \X Filters
          BY <2>1
        <4>2. a = SubscribeOf(<<g + 1, f>>[1], <<g + 1, f>>[2])
          BY <2>4
        <4>3. a \in Subscriptions
          BY <4>1, <4>2 DEF Subscriptions
        <4> QED
          BY <4>3 DEF Ours
      <3>2. a[1] = 130
        BY <2>1, <2>4, EncodedSubscribe
      <3>3. Greeting[1] = 16
        BY OursIs
      <3> QED
        BY <3>1, <3>2, <3>3
    <2>6. PICK q : q = mqtt_queue(k, b, a)
      OBVIOUS
    <2>7. PICK t : t = [s EXCEPT !.subscribe_id = g + 1, !.full = FALSE]
      OBVIOUS
    <2>8. p = [c |-> q.c, broker |-> q.broker, subs |-> t]
      <3>1. ~(i # 0 \/ g >= l)
        BY <1>5
      <3> QED
        BY <1>1, <1>5, <2>3, <2>4, <2>6, <2>7, <3>1 DEF mqtt_pump_subscribes
    <2>9. p.c = q.c /\ p.broker = q.broker /\ p.subs = t
      BY <2>8
    <2>10. /\ q.c \in SessionConnections /\ q.broker \in Brokers
           /\ q.c.in = k.in /\ q.c.skip = k.skip
           /\ q.broker.bytes = b.bytes /\ q.broker.sent = b.sent
           /\ Quiet(q.c, q.broker) /\ Len(q.c.out) <= OutMax
           /\ AskedIn(k, b) \subseteq AskedIn(q.c, q.broker)
           /\ f \in AskedIn(q.c, q.broker)
      BY <1>5, <2>1, <2>4, <2>5, <2>6, QueueKeeps
    <2>11. /\ t \in Subs /\ t.filters = s.filters /\ t.filter_sent = g
           /\ t.subscribe_id = g + 1
      BY <1>1, <2>1, <2>7 DEF Subs
    <2>12. Pump(q.c, q.broker, t)
      <3>1. \A j \in 1 .. g : s.filters[j] \in AskedIn(k, b)
        BY <1>1 DEF Pump
      <3>2. g + 1 <= l
        BY <2>1
      <3> QED
        BY <1>1, <1>2, <2>2, <2>10, <2>11, <3>1, <3>2 DEF Pump
    <2>13. Moving(t)
      BY <2>1, <2>11 DEF Moving
    <2> QED
      BY <2>9, <2>10, <2>11, <2>12, <2>13 DEF Pumps
  <1> QED
    <2>1. (i # 0 \/ g >= l) \/ (i = 0 /\ g < l)
      OBVIOUS
    <2> QED
      BY <1>3, <1>4, <1>5, <2>1

-----------------------------------------------------------------------------
(* The steps. *)

\* The empty states have their types.
LEMMA NothingIs ==
    /\ NoBroker \in Brokers /\ NoNet \in Nets /\ Idle \in Readers /\ Unconnected \in SessionConnections
    /\ <<>> \in Seq(Meanings) /\ <<>> \o <<>> = <<>>
  <1>1. \A S : <<>> \in Seq(S)
    OBVIOUS
  <1>2. NoSession \in Sessions
    BY DEF NoSession, Sessions
  <1>3. NoBroker \in Brokers
    BY <1>1 DEF NoBroker, Brokers
  <1>4. NoNet \in Nets
    BY <1>1 DEF NoNet, Nets
  <1>5. Idle \in Readers
    BY DEF Idle, Readers
  <1>6. Unconnected \in SessionConnections
    BY <1>1, <1>2 DEF Unconnected, SessionConnections
  <1>7. <<>> \o <<>> = <<>>
    BY <1>1, ConcatEmptySeq
  <1> QED
    BY <1>1, <1>3, <1>4, <1>5, <1>6, <1>7

\* Before a session there is nothing in any of its places.
LEMMA Unstarted ==
    ASSUME NEW t \in Sessions, NEW k,
           \/ k = [Unconnected EXCEPT !.tls = t]
           \/ k = [Unconnected EXCEPT !.tls = t, !.secure = TRUE]
    PROVE  /\ k \in SessionConnections /\ k.in = <<>> /\ k.skip = 0 /\ k.out = <<>>
           /\ k.tls = t /\ Len(k.in) = 0 /\ Len(k.out) = 0
  <1>1. k \in SessionConnections /\ k.in = <<>> /\ k.skip = 0 /\ k.out = <<>> /\ k.tls = t
    BY NothingIs DEF Unconnected, SessionConnections
  <1>2. Len(<<>>) = 0
    OBVIOUS
  <1> QED
    BY <1>1, <1>2

\* The end of a session, for any reason but one.
LEMMA EndKeeps ==
    ASSUME SessionInv, NEW r, EndSession(r), r # "protocol", lib' \in Process
    PROVE  SessionInv'
  <1>1. /\ session' = "WAITING" /\ why' = r /\ reader' = Idle
        /\ c' = [Unconnected EXCEPT !.tls = tls_client_stop(c.tls)]
        /\ subs' = [subs EXCEPT !.filter_sent = 0, !.subscribe_id = 0, !.full = FALSE]
        /\ net' = NoNet /\ broker' = NoBroker /\ handled' = <<>>
    BY DEF EndSession
  <1>2. PICK t : t = tls_client_stop(c.tls)
    OBVIOUS
  <1>3. t \in Sessions
    <2>1. c.tls \in Sessions
      BY DEF SessionInv, SessionTyped, SessionConnections
    <2> QED
      BY <1>2, <2>1 DEF tls_client_stop, tls_release, Sessions
  <1>4. c' = [Unconnected EXCEPT !.tls = t]
    BY <1>1, <1>2
  <1>5. /\ c' \in SessionConnections /\ c'.in = <<>> /\ c'.skip = 0 /\ c'.out = <<>>
        /\ Len(c'.in) = 0 /\ Len(c'.out) = 0
    BY <1>3, <1>4, Unstarted
  <1>6. /\ subs' \in Subs /\ subs'.filters = subs.filters
        /\ subs'.filter_sent = 0 /\ subs'.subscribe_id = 0
    BY <1>1 DEF SessionInv, SessionTyped, Subs
  <1>7. SessionTyped'
    BY <1>1, <1>5, <1>6, NothingIs DEF SessionTyped
  <1>8. Limits'
    <2>1. Len(subs'.filters) <= FiltersMax
      BY <1>6 DEF SessionInv, Limits
    <2>2. 0 <= InMax /\ 0 <= OutMax /\ 0 < InMax
      BY SizesAssumption, BufferAssumption
    <2> QED
      BY <1>5, <2>1, <2>2 DEF Limits
  <1>9. net'.inside = <<>> /\ net'.sock = <<>>
    BY <1>1 DEF NoNet
  <1>10. Phase'
    BY <1>1, <1>5, <1>9 DEF Phase
  <1>11. Subscribing'
    BY <1>1, <1>6 DEF Subscribing
  <1>12. SessionFlow'
    <2>1. net'.inside \o net'.sock = <<>>
      BY <1>9, NothingIs
    <2>2. broker'.bytes = <<>> /\ broker'.sent = <<>>
      BY <1>1 DEF NoBroker
    <2> QED
      BY <1>1, <1>5, <2>1, <2>2, FlowNone DEF SessionFlow
  <1> QED
    BY <1>7, <1>8, <1>10, <1>11, <1>12 DEF SessionInv

\* A pump of the connection k and the filters s, with `hnd` handled.
LEMMA PumpKeeps ==
    ASSUME SessionInv, session = "READY", session' = session,
           NEW k \in SessionConnections, NEW s \in Subs, NEW hnd \in Seq(Meanings), hnd # <<>>,
           k.out = c.out, Len(k.in) <= InMax, Len(s.filters) <= FiltersMax,
           Pump(k, broker, s),
           Flow(k.in, k.skip, net.inside \o net.sock, broker.bytes, broker.sent, hnd),
           Pumped(mqtt_pump_subscribes(k, broker, s)),
           handled' = hnd, UNCHANGED <<lib, net, why>>, reader' \in Readers,
           reader'.at \in {"idle", "reading"} => Len(k.in) < InMax
    PROVE  SessionInv'
  <1>1. broker \in Brokers /\ net \in Nets /\ lib \in Process /\ why # "protocol"
    BY DEF SessionInv, SessionTyped
  <1>2. Quiet(k, broker) /\ OneConnack(broker.sent)
    BY DEF SessionInv, Phase, Quiet
  <1>3. Len(k.out) <= OutMax
    BY DEF SessionInv, Limits
  <1>4. PICK p : p = mqtt_pump_subscribes(k, broker, s)
    OBVIOUS
  <1>5. c' = p.c /\ broker' = p.broker /\ subs' = p.subs
    BY <1>4 DEF Pumped
  <1>6. Pumps(k, broker, s, p)
    BY <1>1, <1>2, <1>3, <1>4, PumpIs
  <1>7. /\ c' \in SessionConnections /\ broker' \in Brokers /\ subs' \in Subs
        /\ c'.in = k.in /\ c'.skip = k.skip
        /\ broker'.bytes = broker.bytes /\ broker'.sent = broker.sent
        /\ Quiet(c', broker') /\ Len(c'.out) <= OutMax
        /\ subs'.filters = s.filters
        /\ Pump(c', broker', subs') /\ Moving(subs')
    BY <1>5, <1>6 DEF Pumps
  <1>8. SessionTyped'
    BY <1>1, <1>7 DEF SessionTyped
  <1>9. Limits'
    BY <1>7 DEF Limits
  <1>10. Phase'
    BY <1>2, <1>7 DEF Phase
  <1>11. Subscribing'
    BY <1>7 DEF Subscribing
  <1>12. SessionFlow'
    BY <1>7 DEF SessionFlow
  <1> QED
    BY <1>8, <1>9, <1>10, <1>11, <1>12 DEF SessionInv

\* A filter more changes nothing about those before it.
LEMMA PumpAppend ==
    ASSUME NEW k, NEW b, NEW s \in Subs, Pump(k, b, s), NEW f \in Filters,
           NEW t, t = [s EXCEPT !.filters = Append(s.filters, f)]
    PROVE  /\ t \in Subs /\ Len(t.filters) = Len(s.filters) + 1
           /\ t.filter_sent = s.filter_sent /\ t.subscribe_id = s.subscribe_id
           /\ Pump(k, b, t)
  <1>1. PICK o \in Seq(Filters), n \in Nat : o = s.filters /\ n = Len(o)
    BY LenProperties DEF Subs
  <1>2. PICK m : m = Append(o, f)
    OBVIOUS
  <1>3. m \in Seq(Filters) /\ Len(m) = n + 1 /\ \A i \in 1 .. n : m[i] = o[i]
    BY <1>1, <1>2
  <1>4. /\ t \in Subs /\ t.filters = m
        /\ t.filter_sent = s.filter_sent /\ t.subscribe_id = s.subscribe_id
    BY <1>1, <1>2, <1>3 DEF Subs
  <1>5. PICK g \in Nat, i \in Nat : g = s.filter_sent /\ i = s.subscribe_id
    BY DEF Subs
  <1>6. /\ g <= n /\ \A j \in 1 .. g : o[j] \in AskedIn(k, b)
        /\ i # 0 => i = g + 1 /\ i <= n /\ o[i] \in AskedIn(k, b)
    BY <1>1, <1>5 DEF Pump
  <1>7. /\ g <= n + 1 /\ \A j \in 1 .. g : m[j] \in AskedIn(k, b)
        /\ i # 0 => i = g + 1 /\ i <= n + 1 /\ m[i] \in AskedIn(k, b)
    <2>1. \A j \in 1 .. g : j \in 1 .. n
      BY <1>6
    <2>2. i # 0 => i \in 1 .. n
      BY <1>6
    <2> QED
      BY <1>3, <1>6, <2>1, <2>2, SMTT(60)
  <1>8. Pump(k, b, t)
    BY <1>3, <1>4, <1>5, <1>7 DEF Pump
  <1> QED
    BY <1>1, <1>3, <1>4, <1>8

\* One more filter, sent at once in a session that is up.
LEMMA SubscribeKeeps ==
    ASSUME SessionInv, NEW f \in Filters, Subscribe(f)
    PROVE  SessionInv'
  <1>1. PICK s : s = [subs EXCEPT !.filters = Append(subs.filters, f)]
    OBVIOUS
  <1>2. /\ Len(subs.filters) < FiltersMax
        /\ UNCHANGED <<session, reader, lib, net, handled, why>>
        /\ IF session = "READY" THEN Pumped(mqtt_pump_subscribes(c, broker, s))
           ELSE subs' = s /\ UNCHANGED <<c, broker>>
    BY <1>1 DEF Subscribe
  <1>3. c \in SessionConnections /\ subs \in Subs /\ handled \in Seq(Meanings) /\ reader \in Readers
    BY DEF SessionInv, SessionTyped
  <1>4. s \in Subs /\ Len(s.filters) <= FiltersMax /\ s.filter_sent = subs.filter_sent
        /\ s.subscribe_id = subs.subscribe_id
    <2>1. PICK o \in Seq(Filters), n \in Nat : o = subs.filters /\ n = Len(o)
      BY <1>3, LenProperties DEF Subs
    <2>2. PICK m : m = Append(o, f)
      OBVIOUS
    <2>3. m \in Seq(Filters) /\ Len(m) = n + 1
      BY <2>1, <2>2
    <2>4. n + 1 <= FiltersMax
      BY <1>2, <2>1, SizesAssumption
    <2> QED
      BY <1>1, <1>3, <2>1, <2>2, <2>3, <2>4 DEF Subs
  <1>5. CASE session = "READY"
    <2>1. Pump(c, broker, s)
      BY <1>1, <1>3, <1>5, PumpAppend DEF SessionInv, Subscribing
    <2>2. handled # <<>> /\ Len(c.in) <= InMax
      BY <1>5 DEF SessionInv, Phase, Limits
    <2>3. reader'.at \in {"idle", "reading"} => Len(c.in) < InMax
      BY <1>2 DEF SessionInv, Limits
    <2>4. Flow(c.in, c.skip, net.inside \o net.sock, broker.bytes, broker.sent, handled)
      BY DEF SessionInv, SessionFlow
    <2>5. Pumped(mqtt_pump_subscribes(c, broker, s))
      BY <1>2, <1>5
    <2>6. reader' \in Readers /\ handled' = handled /\ UNCHANGED <<lib, net, why>> /\ session' = session
      BY <1>2, <1>3
    <2> QED
      BY <1>3, <1>4, <1>5, <2>1, <2>2, <2>3, <2>4, <2>5, <2>6, PumpKeeps
  <1>6. CASE session # "READY"
    <2>1. subs' = s /\ UNCHANGED <<session, c, broker, reader, lib, net, handled, why>>
      BY <1>2, <1>6
    <2>2. SessionTyped'
      BY <1>4, <2>1 DEF SessionInv, SessionTyped
    <2>3. Limits'
      BY <1>4, <2>1 DEF SessionInv, Limits
    <2>4. Phase'
      BY <2>1 DEF SessionInv, Phase, Greeted
    <2>5. Subscribing'
      BY <1>4, <1>6, <2>1 DEF SessionInv, Subscribing
    <2>6. SessionFlow'
      BY <2>1 DEF SessionInv, SessionFlow
    <2> QED
      BY <2>2, <2>3, <2>4, <2>5, <2>6 DEF SessionInv
  <1> QED
    BY <1>5, <1>6

\* All filters are forgotten; an answer that is under way finds none of them.
LEMMA ClearKeeps ==
    ASSUME SessionInv, ClearFilters
    PROVE  SessionInv'
  <1>1. /\ subs' = [filters |-> <<>>, filter_sent |-> 0, subscribe_id |-> 0, full |-> FALSE]
        /\ UNCHANGED <<session, c, broker, reader, lib, net, handled, why>>
    BY DEF ClearFilters
  <1>2. /\ subs' \in Subs /\ subs'.filters = <<>> /\ Len(subs'.filters) = 0
        /\ subs'.filter_sent = 0 /\ subs'.subscribe_id = 0
    BY <1>1 DEF Subs
  <1>3. Pump(c, broker, subs') /\ Moving(subs')
    <2>1. 1 .. 0 = {} /\ 0 <= 0 /\ ~(0 < 0)
      OBVIOUS
    <2> QED
      BY <1>2, <2>1 DEF Pump, Moving
  <1>4. SessionTyped'
    BY <1>1, <1>2 DEF SessionInv, SessionTyped
  <1>5. Limits'
    <2>1. 0 <= FiltersMax
      BY SizesAssumption
    <2> QED
      BY <1>1, <1>2, <2>1 DEF SessionInv, Limits
  <1>6. Phase'
    BY <1>1 DEF SessionInv, Phase, Greeted
  <1>7. Subscribing'
    BY <1>1, <1>2, <1>3 DEF Subscribing
  <1>8. SessionFlow'
    BY <1>1 DEF SessionInv, SessionFlow
  <1> QED
    BY <1>4, <1>5, <1>6, <1>7, <1>8 DEF SessionInv

\* A packet of an established session is queued.
LEMMA QueueStep ==
    ASSUME SessionInv, session = "READY", NEW p \in Ours, p # Greeting, Room(c),
           NEW q, q = mqtt_queue(c, broker, p), c' = q.c, broker' = q.broker,
           UNCHANGED <<session, subs, reader, lib, net, handled, why>>
    PROVE  SessionInv'
  <1>1. c \in SessionConnections /\ broker \in Brokers /\ subs \in Subs
    BY DEF SessionInv, SessionTyped
  <1>2. Quiet(c, broker) /\ OneConnack(broker.sent) /\ handled # <<>>
    BY DEF SessionInv, Phase
  <1>3. /\ c' \in SessionConnections /\ broker' \in Brokers
        /\ c'.in = c.in /\ c'.skip = c.skip
        /\ broker'.bytes = broker.bytes /\ broker'.sent = broker.sent
        /\ Quiet(c', broker') /\ Len(c'.out) <= OutMax
        /\ AskedIn(c, broker) \subseteq AskedIn(c', broker')
    BY <1>1, <1>2, QueueKeeps
  <1>4. SessionTyped'
    BY <1>3 DEF SessionInv, SessionTyped
  <1>5. Limits'
    BY <1>3 DEF SessionInv, Limits
  <1>6. Phase'
    BY <1>2, <1>3 DEF Phase
  <1>7. Subscribing'
    <2>1. Pump(c, broker, subs) /\ (Moving(subs) \/ (reader.at = "callback" /\ reader.cont = "connack"))
      BY DEF SessionInv, Subscribing
    <2>2. Pump(c', broker', subs)
      BY <1>3, <2>1 DEF Pump
    <2> QED
      BY <2>1, <2>2 DEF Subscribing
  <1>8. SessionFlow'
    BY <1>3 DEF SessionInv, SessionFlow
  <1> QED
    BY <1>4, <1>5, <1>6, <1>7, <1>8 DEF SessionInv

\* The application publishes.
LEMMA PublishMessageKeeps ==
    ASSUME SessionInv, PublishMessage
    PROVE  SessionInv'
  <1>1. PICK q : q = mqtt_queue(c, broker, OurMessage)
    OBVIOUS
  <1>2. /\ session = "READY" /\ Room(c) /\ c' = q.c /\ broker' = q.broker
        /\ UNCHANGED <<session, subs, reader, lib, net, handled, why>>
    BY <1>1, EncodedPublish DEF PublishMessage
  <1>3. OurMessage \in Ours /\ OurMessage # Greeting
    BY EncodedPublish, OursIs DEF Ours
  <1> QED
    BY <1>1, <1>2, <1>3, QueueStep

\* A PINGREQ is queued, or the session given up.
LEMMA TickKeepaliveKeeps ==
    ASSUME SessionInv, TickKeepalive
    PROVE  SessionInv'
  <1>1. session = "READY" /\ lib' = lib
    BY DEF TickKeepalive
  <1>2. CASE Room(c)
    <2>1. PICK p : p = Wire(PINGREQ, 0, <<>>)
      OBVIOUS
    <2>2. PICK q : q = mqtt_queue(c, broker, p)
      OBVIOUS
    <2>3. /\ c' = q.c /\ broker' = q.broker
          /\ UNCHANGED <<session, subs, reader, lib, net, handled, why>>
      BY <1>1, <1>2, <2>1, <2>2, EncodedPing DEF TickKeepalive
    <2>4. p \in Ours /\ p # Greeting
      BY <2>1, EncodedPing, OursIs DEF Ours
    <2> QED
      BY <1>1, <1>2, <2>2, <2>3, <2>4, QueueStep
  <1>3. CASE ~Room(c)
    <2>1. EndSession("closed") /\ lib' \in Process
      BY <1>1, <1>3 DEF TickKeepalive, SessionInv, SessionTyped
    <2> QED
      BY <2>1, EndKeeps
  <1> QED
    BY <1>2, <1>3

\* mqtt_send_connect() on a connection with nothing in it.
LEMMA GreetKeeps ==
    ASSUME SessionInv, session \in {"WAITING", "SECURING"},
           NEW k \in SessionConnections, k.in = <<>>, k.skip = 0, k.out = <<>>,
           Greet(k), UNCHANGED <<subs, reader, lib, net, handled>>, why' # "protocol"
    PROVE  SessionInv'
  <1>1. PICK q : q = mqtt_queue(k, broker, Greeting)
    OBVIOUS
  <1>2. c' = q.c /\ broker' = q.broker /\ session' = "GREETING"
    BY <1>1, EncodedConnect DEF Greet
  <1>3. /\ reader = Idle /\ handled = <<>> /\ broker = NoBroker /\ net.inside = <<>> /\ net.sock = <<>>
    BY DEF SessionInv, Phase
  <1>4. Greeting \in Ours /\ broker \in Brokers
    BY DEF Ours, SessionInv, SessionTyped
  <1>5. PICK g : g = <<Greeting>>
    OBVIOUS
  <1>6. g \in Seq(Ours) /\ Append(k.out, Greeting) = g /\ Len(g) = 1
    BY <1>4, <1>5
  <1>7. Wrote(k, g, broker, q)
    BY <1>1, <1>4, <1>6, QueueIs
  <1>8. /\ c' \in SessionConnections /\ broker' \in Brokers
        /\ c'.in = <<>> /\ c'.skip = 0
        /\ broker'.bytes = <<>> /\ broker'.sent = <<>>
        /\ \/ c'.out = g /\ broker' = broker
           \/ c'.out = <<>> /\ broker'.heard = broker.heard \o g
    BY <1>2, <1>3, <1>7 DEF Wrote, NoBroker
  <1>9. \/ c'.out = g /\ broker'.heard = <<>>
        \/ c'.out = <<>> /\ broker'.heard = g
    <2>1. broker.heard = <<>>
      BY <1>3 DEF NoBroker
    <2>2. <<>> \o g = g
      BY <1>6, ConcatEmptySeq
    <2> QED
      BY <1>8, <2>1, <2>2
  <1>10. SessionTyped'
    BY <1>2, <1>8 DEF SessionInv, SessionTyped
  <1>11. Limits'
    <2>1. Len(<<>>) = 0
      OBVIOUS
    <2>2. 0 <= InMax /\ 0 < InMax /\ 0 <= OutMax /\ 1 <= OutMax
      BY SizesAssumption, BufferAssumption
    <2> QED
      BY <1>6, <1>8, <1>9, <2>1, <2>2 DEF SessionInv, Limits
  <1>12. Phase'
    <2>1. Greeted'
      BY <1>5, <1>8, <1>9 DEF Greeted
    <2>2. reader'.at # "callback" /\ handled' = <<>>
      BY <1>3 DEF Idle
    <2> QED
      BY <1>2, <2>1, <2>2 DEF Phase
  <1>13. Subscribing'
    BY <1>2 DEF SessionInv, Subscribing
  <1>14. SessionFlow'
    BY <1>3, <1>8, NothingIs, FlowNone DEF SessionFlow
  <1> QED
    BY <1>10, <1>11, <1>12, <1>13, <1>14 DEF SessionInv

\* A plain socket is greeted at once.
LEMMA ConnectPlainKeeps ==
    ASSUME SessionInv, ConnectPlain
    PROVE  SessionInv'
  <1>1. Unconnected \in SessionConnections /\ Unconnected.in = <<>> /\ Unconnected.skip = 0 /\ Unconnected.out = <<>>
    BY NothingIs DEF Unconnected
  <1>2. /\ session = "WAITING" /\ Greet(Unconnected) /\ why' # "protocol"
        /\ UNCHANGED <<subs, reader, lib, net, handled>>
    BY DEF ConnectPlain
  <1> QED
    BY <1>1, <1>2, GreetKeeps

\* What a start leaves behind.
LEMMA TlsStart ==
    ASSUME NEW l \in Process, NEW bundle \in BOOLEAN, NEW o \in tls_client_start(l, bundle)
    PROVE  o.lib \in Process /\ o.tls \in Sessions
  <1> DEFINE begun == [NoSession EXCEPT !.state = "handshaking"]
             with == [l EXCEPT !.psa = TRUE]
             loaded == {tls_load_roots(with, parses) : parses \in BOOLEAN}
  <1>1. begun \in Sessions /\ NoSession \in Sessions
    BY DEF NoSession, Sessions
  <1>2. with \in Process
    BY DEF Process
  <1>3. loaded \subseteq Process
    <2> HIDE DEF with
    <2>1. ASSUME NEW parses \in BOOLEAN PROVE tls_load_roots(with, parses) \in Process
      BY <1>2 DEF tls_load_roots, Process
    <2> QED
      BY <2>1
  <1>4. \/ o = [lib |-> l, tls |-> NoSession]
        \/ \E m \in (IF bundle THEN {with} ELSE loaded) : o = [lib |-> m, tls |-> NoSession]
        \/ \E m \in (IF bundle THEN {with} ELSE {x \in loaded : x.roots_ready}) :
             o = [lib |-> m, tls |-> begun]
    BY DEF tls_client_start
  <1> HIDE DEF begun, with, loaded
  <1>5. \A m \in (IF bundle THEN {with} ELSE loaded) : m \in Process
    BY <1>2, <1>3
  <1>6. \A m \in (IF bundle THEN {with} ELSE {x \in loaded : x.roots_ready}) : m \in Process
    BY <1>2, <1>3
  <1> QED
    BY <1>1, <1>4, <1>5, <1>6

\* The reasons a session of TLS ends for.
LEMMA ReasonIs == \A t : tls_client_reason(t) # "protocol"
  BY DEF tls_client_reason

\* A TLS session is started, or the attempt given up.
LEMMA ConnectSecureKeeps ==
    ASSUME SessionInv, ConnectSecure
    PROVE  SessionInv'
  <1>1. session = "WAITING" /\ lib \in Process
    BY DEF ConnectSecure, SessionInv, SessionTyped
  <1>2. PICK o \in UNION {tls_client_start(lib, bundle) : bundle \in {~lib.table, FALSE}} :
          /\ lib' = o.lib
          /\ IF o.tls = NoSession
             THEN EndSession(tls_client_reason(o.tls))
             ELSE /\ session' = "SECURING"
                  /\ c' = [Unconnected EXCEPT !.tls = o.tls, !.secure = TRUE]
                  /\ why' = "none"
                  /\ UNCHANGED <<subs, reader, net, broker, handled>>
    BY DEF ConnectSecure
  <1>3. o.lib \in Process /\ o.tls \in Sessions
    <2>1. PICK bundle \in BOOLEAN : o \in tls_client_start(lib, bundle)
      BY <1>2
    <2> QED
      BY <1>1, <2>1, TlsStart
  <1>4. CASE o.tls = NoSession
    <2>1. PICK r : r = tls_client_reason(o.tls)
      OBVIOUS
    <2>2. EndSession(r) /\ r # "protocol" /\ lib' \in Process
      BY <1>2, <1>3, <1>4, <2>1, ReasonIs
    <2> QED
      BY <2>2, EndKeeps
  <1>5. CASE o.tls # NoSession
    <2>1. /\ session' = "SECURING" /\ why' = "none" /\ lib' = o.lib
          /\ c' = [Unconnected EXCEPT !.tls = o.tls, !.secure = TRUE]
          /\ UNCHANGED <<subs, reader, net, broker, handled>>
      BY <1>2, <1>5
    <2>2. PICK t \in Sessions : t = o.tls
      BY <1>3
    <2>3. /\ c' \in SessionConnections /\ c'.in = <<>> /\ c'.skip = 0 /\ c'.out = <<>>
          /\ Len(c'.in) = 0 /\ Len(c'.out) = 0
      BY <2>1, <2>2, Unstarted, Zenon
    <2>4. c.in = <<>> /\ c.skip = 0 /\ c.out = <<>>
      BY <1>1 DEF SessionInv, Phase
    <2>5. SessionTyped'
      BY <1>3, <2>1, <2>3 DEF SessionInv, SessionTyped
    <2>6. Limits'
      <3>1. 0 <= InMax /\ 0 < InMax /\ 0 <= OutMax
        BY SizesAssumption, BufferAssumption
      <3> QED
        BY <2>1, <2>3, <3>1 DEF SessionInv, Limits
    <2>7. Phase'
      BY <1>1, <2>1, <2>3 DEF SessionInv, Phase
    <2>8. Subscribing'
      BY <1>1, <2>1 DEF SessionInv, Subscribing
    <2>9. SessionFlow'
      BY <2>1, <2>3, <2>4 DEF SessionInv, SessionFlow
    <2> QED
      BY <2>5, <2>6, <2>7, <2>8, <2>9 DEF SessionInv
  <1> QED
    BY <1>4, <1>5

\* What a handshake leaves of a session.
LEMMA TlsHandshake ==
    ASSUME NEW t \in Sessions, NEW code, NEW flags
    PROVE  tls_client_handshake(t, code, flags).tls \in Sessions
  <1>1. CASE t.state = "up"
    BY <1>1 DEF tls_client_handshake
  <1>2. CASE t.state # "up" /\ code = "OK"
    <2>1. [t EXCEPT !.state = "up", !.wants_write = FALSE] \in Sessions
      BY DEF Sessions
    <2> QED
      BY <1>2, <2>1 DEF tls_client_handshake
  <1>3. CASE t.state # "up" /\ code = "VERIFY_FAILED"
    <2>1. PICK b \in BOOLEAN : b = (flags = {"future"})
      OBVIOUS
    <2>2. [t EXCEPT !.wants_write = FALSE, !.clock_behind = b] \in Sessions
      BY DEF Sessions
    <2>3. tls_client_handshake(t, code, flags).tls = [t EXCEPT !.wants_write = FALSE, !.clock_behind = b]
      BY <1>3, <2>1 DEF tls_client_handshake
    <2> QED
      BY <2>2, <2>3
  <1>4. CASE t.state # "up" /\ code # "OK" /\ code # "VERIFY_FAILED"
    <2>1. tls_client_handshake(t, code, flags) = tls_translate(t, code)
      BY <1>4 DEF tls_client_handshake
    <2> QED
      BY <2>1, Translated
  <1> QED
    BY <1>1, <1>2, <1>3, <1>4

\* The handshake goes on, succeeds and greets the broker, or fails.
LEMMA SecureKeeps ==
    ASSUME SessionInv, SecureSession
    PROVE  SessionInv'
  <1>1. session = "SECURING" /\ lib' = lib /\ lib \in Process /\ c \in SessionConnections /\ why # "protocol"
    BY DEF SecureSession, SessionInv, SessionTyped
  <1>2. PICK code \in {"OK", "WANT_READ", "WANT_WRITE", "VERIFY_FAILED", "CONN_RESET"},
             flags \in {{"future"}, {"future", "untrusted"}} :
          LET o == tls_client_handshake(c.tls, code, flags)
          IN  CASE o.rc = "EAGAIN" ->
                     /\ c' = mqtt_arm([c EXCEPT !.tls = o.tls])
                     /\ UNCHANGED <<session, subs, reader, net, broker, handled, why>>
                [] o.rc = "OK" ->
                     /\ Greet([c EXCEPT !.tls = o.tls])
                     /\ UNCHANGED <<subs, reader, net, handled, why>>
                [] OTHER -> EndSession(tls_client_reason(o.tls))
    BY DEF SecureSession
  <1>3. PICK o : o = tls_client_handshake(c.tls, code, flags)
    OBVIOUS
  <1>4. o.tls \in Sessions
    <2>1. PICK t \in Sessions : t = c.tls
      BY <1>1 DEF SessionConnections
    <2> QED
      BY <1>3, <2>1, TlsHandshake
  <1>5. PICK k : k = [c EXCEPT !.tls = o.tls]
    OBVIOUS
  <1>6. k \in SessionConnections /\ k.in = <<>> /\ k.skip = 0 /\ k.out = <<>>
    <2>1. c.in = <<>> /\ c.skip = 0 /\ c.out = <<>>
      BY <1>1 DEF SessionInv, Phase
    <2> QED
      BY <1>1, <1>4, <1>5, <2>1 DEF SessionConnections
  <1>7. CASE o.rc = "EAGAIN"
    <2>1. c' = mqtt_arm(k) /\ UNCHANGED <<session, subs, reader, net, broker, handled, why>>
      BY <1>2, <1>3, <1>5, <1>7
    <2>2. PICK v : v = mqtt_arm(k).want_write
      OBVIOUS
    <2>3. c' = [k EXCEPT !.want_write = v] /\ c' \in SessionConnections
      BY <1>6, <2>1, <2>2, ArmIs
    <2>4. c'.in = <<>> /\ c'.skip = 0 /\ c'.out = <<>>
      BY <1>6, <2>3 DEF SessionConnections
    <2>5. c.in = <<>> /\ c.skip = 0 /\ c.out = <<>>
      BY <1>1 DEF SessionInv, Phase
    <2>6. SessionTyped'
      BY <1>1, <2>1, <2>3 DEF SessionInv, SessionTyped
    <2>7. Limits'
      BY <2>1, <2>4, <2>5 DEF SessionInv, Limits
    <2>8. Phase'
      BY <1>1, <2>1, <2>4 DEF SessionInv, Phase
    <2>9. Subscribing'
      BY <1>1, <2>1 DEF SessionInv, Subscribing
    <2>10. SessionFlow'
      BY <2>1, <2>4, <2>5 DEF SessionInv, SessionFlow
    <2> QED
      BY <2>6, <2>7, <2>8, <2>9, <2>10 DEF SessionInv
  <1>8. CASE o.rc = "OK"
    <2>1. Greet(k) /\ UNCHANGED <<subs, reader, lib, net, handled>> /\ why' # "protocol"
      BY <1>1, <1>2, <1>3, <1>5, <1>8
    <2> QED
      BY <1>1, <1>6, <2>1, GreetKeeps
  <1>9. CASE o.rc # "EAGAIN" /\ o.rc # "OK"
    <2>1. PICK r : r = tls_client_reason(o.tls)
      OBVIOUS
    <2>2. EndSession(r) /\ r # "protocol" /\ lib' \in Process
      BY <1>1, <1>2, <1>3, <1>9, <2>1, ReasonIs
    <2> QED
      BY <2>2, EndKeeps
  <1> QED
    BY <1>7, <1>8, <1>9

\* A session that goes on: something may have been written, and the stream between
\* the broker and the reader is still whole.
LEMMA LiveStep ==
    ASSUME SessionInv, session \in Live, reader.at # "callback",
           c' \in SessionConnections, net' \in Nets, reader' \in Readers, reader'.at # "callback",
           NEW f, Wrote(c, c.out, broker, f), c'.out = f.c.out, broker' = f.broker,
           Len(c'.in) <= InMax, reader'.at \in {"idle", "reading"} => Len(c'.in) < InMax,
           Flow(c'.in, c'.skip, net'.inside \o net'.sock, broker.bytes, broker.sent, handled),
           UNCHANGED <<session, subs, lib, handled, why>>
    PROVE  SessionInv'
  <1>1. PICK queue \in Seq(Ours) : queue = c.out
    BY DEF SessionInv, SessionTyped, SessionConnections
  <1>2. broker \in Brokers /\ Wrote(c, queue, broker, f)
    BY <1>1 DEF SessionInv, SessionTyped
  <1>3. /\ broker' \in Brokers /\ broker'.bytes = broker.bytes /\ broker'.sent = broker.sent
        /\ \/ c'.out = queue /\ broker' = broker
           \/ c'.out = <<>> /\ broker'.heard = broker.heard \o queue
    BY <1>2 DEF Wrote
  <1>4. /\ AskedIn(c', broker') = AskedIn(c, broker) /\ Len(c'.out) <= Len(queue)
        /\ Quiet(c, broker) => Quiet(c', broker')
    <2>1. /\ AskedIn(f.c, f.broker) = broker.asked \cup FiltersIn(queue)
          /\ Len(f.c.out) <= Len(queue)
          /\ (/\ \A i \in 1 .. Len(queue) : queue[i] # Greeting
              /\ \A i \in 1 .. Len(broker.heard) : broker.heard[i] # Greeting) => Quiet(f.c, f.broker)
      BY <1>2, WroteKeeps
    <2>2. AskedIn(c', broker') = AskedIn(f.c, f.broker) /\ (Quiet(c', broker') <=> Quiet(f.c, f.broker))
      BY DEF AskedIn, Quiet
    <2>3. AskedIn(c, broker) = broker.asked \cup FiltersIn(queue)
      BY <1>1 DEF AskedIn
    <2> QED
      BY <1>1, <2>1, <2>2, <2>3 DEF Quiet
  <1>5. SessionTyped'
    BY <1>3 DEF SessionInv, SessionTyped
  <1>6. Limits'
    <2>1. Len(queue) <= OutMax
      BY <1>1 DEF SessionInv, Limits
    <2>2. PICK m \in Nat, n \in Nat : m = Len(c'.out) /\ n = Len(queue)
      <3>1. c'.out \in Seq(Ours)
        BY DEF SessionConnections
      <3> QED
        BY <3>1, LenProperties
    <2>3. m <= OutMax
      BY <1>4, <2>1, <2>2, SizesAssumption
    <2> QED
      BY <2>2, <2>3 DEF SessionInv, Limits
  <1>7. Phase'
    <2>1. CASE session = "READY"
      <3>1. Quiet(c, broker) /\ handled # <<>> /\ OneConnack(broker.sent)
        BY <2>1 DEF SessionInv, Phase
      <3> QED
        BY <1>3, <1>4, <2>1, <3>1 DEF Phase
    <2>2. CASE session = "GREETING"
      <3>1. handled = <<>> /\ Greeted
        BY <2>2 DEF SessionInv, Phase
      <3>2. CASE c'.out = queue /\ broker' = broker
        <4>1. Greeted'
          BY <1>1, <3>1, <3>2 DEF Greeted
        <4> QED
          BY <2>2, <3>1, <4>1 DEF Phase
      <3>3. CASE c'.out = <<>> /\ broker'.heard = broker.heard \o queue
        <4>1. PICK g : g = <<Greeting>>
          OBVIOUS
        <4>2. g \in Seq(Ours) /\ <<>> \o g = g /\ g \o <<>> = g /\ <<>> \o <<>> = <<>>
          <5>1. Greeting \in Ours
            BY DEF Ours
          <5>2. g \in Seq(Ours)
            BY <4>1, <5>1
          <5> QED
            BY <5>2, ConcatEmptySeq, NothingIs
        <4>3. \/ queue = g /\ broker.heard = <<>> /\ broker.sent = <<>>
              \/ queue = <<>> /\ broker.heard = g /\ broker.sent = <<>>
              \/ /\ queue = <<>> /\ broker.heard = <<>> /\ broker.sent # <<>>
                 /\ broker.sent[1].type = CONNACK /\ OneConnack(broker.sent)
          BY <1>1, <3>1, <4>1 DEF Greeted
        <4>4. \/ broker'.heard = g /\ broker'.sent = <<>>
              \/ /\ broker'.heard = <<>> /\ broker'.sent # <<>>
                 /\ broker'.sent[1].type = CONNACK /\ OneConnack(broker'.sent)
          BY <1>3, <3>3, <4>2, <4>3
        <4>5. Greeted'
          BY <3>3, <4>1, <4>4 DEF Greeted
        <4> QED
          BY <2>2, <3>1, <4>5 DEF Phase
      <3> QED
        BY <1>3, <3>2, <3>3
    <2> QED
      BY <2>1, <2>2 DEF Live
  <1>8. Subscribing'
    <2>1. CASE session = "READY"
      <3>1. Pump(c, broker, subs) /\ Moving(subs)
        BY <2>1 DEF SessionInv, Subscribing
      <3>2. Pump(c', broker', subs)
        BY <1>4, <3>1 DEF Pump
      <3> QED
        BY <2>1, <3>1, <3>2 DEF Subscribing
    <2>2. CASE session # "READY"
      BY <2>2 DEF SessionInv, Subscribing
    <2> QED
      BY <2>1, <2>2
  <1>9. SessionFlow'
    BY <1>3 DEF SessionFlow
  <1> QED
    BY <1>5, <1>6, <1>7, <1>8, <1>9 DEF SessionInv

\* Nothing written is a case of that.
LEMMA WroteNothing ==
    ASSUME SessionInv
    PROVE  Wrote(c, c.out, broker, [c |-> c, broker |-> broker])
  <1>1. c \in SessionConnections /\ broker \in Brokers
    BY DEF SessionInv, SessionTyped
  <1>2. PICK f : f = [c |-> c, broker |-> broker]
    OBVIOUS
  <1>3. f.c = c /\ f.broker = broker
    BY <1>2
  <1>4. Wrote(c, c.out, broker, f)
    BY <1>1, <1>3 DEF Wrote
  <1> QED
    BY <1>2, <1>4

\* A reader that does something has a session, and a buffer with room if it waits.
LEMMA ReaderIs ==
    ASSUME SessionInv
    PROVE  /\ reader.at # "idle" => session \in Live
           /\ reader.at \in {"idle", "reading"} => Len(c.in) < InMax
           /\ Len(c.in) <= InMax
           /\ c \in SessionConnections /\ net \in Nets /\ broker \in Brokers /\ reader \in Readers
           /\ lib \in Process
           /\ Flow(c.in, c.skip, net.inside \o net.sock, broker.bytes, broker.sent, handled)
  BY DEF SessionInv, SessionTyped, Phase, Limits, SessionFlow, Live, Idle

\* The head of mqtt_read_ready(), behind a write or none.
LEMMA ReadingKeeps ==
    ASSUME SessionInv, session \in Live, reader = Idle,
           NEW f, Wrote(c, c.out, broker, f), Reading(f.c), broker' = f.broker,
           UNCHANGED <<session, subs, lib, net, handled, why>>
    PROVE  SessionInv'
  <1>1. PICK k \in SessionConnections : k = f.c
    BY DEF Wrote
  <1>2. /\ c' = [k EXCEPT !.more_to_read = FALSE, !.read_wants_write = FALSE]
        /\ reader' = [at |-> "reading", turn |-> 0, cont |-> "none"]
    BY <1>1 DEF Reading
  <1>3. c' \in SessionConnections /\ c'.in = k.in /\ c'.skip = k.skip /\ c'.out = k.out
    BY <1>2 DEF SessionConnections
  <1>4. c'.in = c.in /\ c'.skip = c.skip /\ c'.out = f.c.out
    BY <1>1, <1>3 DEF Wrote
  <1>5. reader' \in Readers /\ reader'.at = "reading" /\ reader.at = "idle"
    BY <1>2 DEF Readers, Idle
  <1>6. /\ Len(c.in) < InMax /\ Len(c.in) <= InMax /\ net \in Nets
        /\ Flow(c.in, c.skip, net.inside \o net.sock, broker.bytes, broker.sent, handled)
    BY <1>5, ReaderIs
  <1>7. net' = net
    OBVIOUS
  <1> QED
    BY <1>3, <1>4, <1>5, <1>6, <1>7, LiveStep

\* The socket is ready, hung up, or the tick takes up what was left.
LEMMA EventKeeps ==
    ASSUME SessionInv, SocketReadable \/ TickReads \/ SocketWritable \/ HangsUp
    PROVE  SessionInv'
  <1>1. CASE SocketReadable \/ TickReads
    <2>1. PICK f : f = [c |-> c, broker |-> broker]
      OBVIOUS
    <2>2. Wrote(c, c.out, broker, f) /\ f.c = c /\ f.broker = broker
      BY <2>1, WroteNothing
    <2>3. /\ session \in Live /\ reader = Idle /\ Reading(f.c) /\ broker' = f.broker
          /\ UNCHANGED <<session, subs, lib, net, handled, why>>
      BY <1>1, <2>2 DEF SocketReadable, TickReads
    <2> QED
      BY <2>2, <2>3, ReadingKeeps
  <1>2. CASE SocketWritable
    <2>1. PICK f : f = mqtt_flush(c, broker)
      OBVIOUS
    <2>2. /\ reader = Idle /\ session \in Live /\ broker' = f.broker
          /\ IF c.read_wants_write THEN Reading(f.c) ELSE c' = f.c /\ UNCHANGED reader
          /\ UNCHANGED <<session, subs, lib, net, handled, why>>
      BY <1>2, <2>1 DEF SocketWritable
    <2>3. Wrote(c, c.out, broker, f)
      BY <2>1, ReaderIs, FlushIs
    <2>4. CASE c.read_wants_write
      BY <2>2, <2>3, <2>4, ReadingKeeps
    <2>5. CASE ~c.read_wants_write
      <3>1. c' = f.c /\ reader' = reader /\ net' = net
        BY <2>2, <2>5
      <3>2. c' \in SessionConnections /\ c'.in = c.in /\ c'.skip = c.skip /\ c'.out = f.c.out
        BY <2>3, <3>1 DEF Wrote
      <3>3. reader' \in Readers /\ reader'.at = "idle" /\ reader.at = "idle"
        BY <2>2, <3>1, NothingIs DEF Idle
      <3>4. /\ Len(c.in) < InMax /\ Len(c.in) <= InMax /\ net \in Nets
            /\ Flow(c.in, c.skip, net.inside \o net.sock, broker.bytes, broker.sent, handled)
        BY <3>3, ReaderIs
      <3> QED
        BY <2>2, <2>3, <3>1, <3>2, <3>3, <3>4, LiveStep
    <2> QED
      BY <2>4, <2>5
  <1>3. CASE HangsUp
    <2>1. EndSession("closed") /\ lib' = lib
      BY <1>3 DEF HangsUp
    <2> QED
      BY <2>1, ReaderIs, EndKeeps
  <1> QED
    BY <1>1, <1>2, <1>3

\* One read: it gets some bytes, none for now, or the end.
LEMMA ReadKeeps ==
    ASSUME SessionInv, Read
    PROVE  SessionInv'
  <1>1. /\ reader.at = "reading" /\ session \in Live /\ c \in SessionConnections /\ net \in Nets
        /\ broker \in Brokers /\ reader \in Readers /\ lib \in Process /\ lib' = lib
        /\ Len(c.in) < InMax
        /\ Flow(c.in, c.skip, net.inside \o net.sock, broker.bytes, broker.sent, handled)
    BY ReaderIs DEF Read
  <1>2. PICK f : f = [c |-> c, broker |-> broker]
    OBVIOUS
  <1>3. Wrote(c, c.out, broker, f) /\ f.c = c /\ f.broker = broker
    BY <1>2, WroteNothing
  <1>4. CASE BudgetSpent /\ UNCHANGED <<session, subs, net, broker, handled, why>>
    <2>1. c' = [c EXCEPT !.more_to_read = TRUE] /\ reader' = Idle /\ net' = net
      BY <1>4 DEF BudgetSpent
    <2>2. c' \in SessionConnections /\ c'.in = c.in /\ c'.skip = c.skip /\ c'.out = c.out
      BY <1>1, <2>1 DEF SessionConnections
    <2>3. reader' \in Readers /\ reader'.at = "idle"
      BY <2>1, NothingIs DEF Idle
    <2>4. Len(c'.in) < InMax /\ Len(c'.in) <= InMax
      BY <2>2, ReaderIs, <1>1
    <2> QED
      BY <1>1, <1>3, <1>4, <2>1, <2>2, <2>3, <2>4, LiveStep
  <1>5. ASSUME NEW ahead, ahead = net.inside \o net.sock,
               NEW r, r = mqtt_raw_read(c, ahead, InMax - Len(c.in)),
               NEW k, k = [c EXCEPT !.tls = r.tls],
               CASE r.rc = "OK" ->
                      /\ c' = [k EXCEPT !.in = @ \o r.bytes]
                      /\ reader' = [reader EXCEPT !.at = "consuming"]
                      /\ net' \in Lies(r.left, ahead)
                      /\ UNCHANGED <<session, subs, broker, handled, why>>
                 [] r.rc = "EAGAIN" ->
                      /\ c' = IF r.tls.more_to_read THEN [k EXCEPT !.more_to_read = TRUE]
                              ELSE mqtt_arm([k EXCEPT !.read_wants_write =
                                                        k.secure /\ k.tls.wants_write])
                      /\ reader' = Idle
                      /\ net' \in Lies(r.left, ahead)
                      /\ UNCHANGED <<session, subs, broker, handled, why>>
                 [] r.rc \in {"ENOTCONN", "ECONNRESET"} -> EndSession("closed")
                 [] OTHER -> EndSession(tls_client_reason(r.tls))
        PROVE  SessionInv'
    <2>1. net.inside \in Seq(Records) /\ net.sock \in Seq(Records) /\ ahead \in Seq(Records)
          /\ net = [inside |-> net.inside, sock |-> net.sock, writable |-> net.writable]
          /\ net.writable \in BOOLEAN
      BY <1>1, <1>5, ConcatProperties DEF Nets
    <2>2. PICK in \in Seq(Bytes), n \in Nat : in = c.in /\ n = Len(in)
      BY <1>1, LenProperties DEF SessionConnections
    <2>3. InMax - n \in Nat /\ n < InMax /\ InMax - Len(c.in) = InMax - n
      BY <1>1, <2>2, SizesAssumption
    <2>4. c.tls \in Sessions /\ c.secure \in BOOLEAN
      BY <1>1 DEF SessionConnections
    <2>5. PICK cap \in Nat : cap = InMax - n
      BY <2>3
    <2>6. /\ Passes(in, c.skip, ahead, broker.bytes, broker.sent, handled, cap, r)
          /\ r.rc # "OK" => r.bytes = <<>> /\ r.rc \in Failures
          /\ r.tls \in Sessions
      <3>1. Flow(in, c.skip, ahead, broker.bytes, broker.sent, handled)
        BY <1>1, <1>5, <2>2
      <3>2. r = mqtt_raw_read(c, ahead, cap)
        BY <1>5, <2>3, <2>5
      <3>3. PICK skip, bytes, sent :
              skip = c.skip /\ bytes = broker.bytes /\ sent = broker.sent
        OBVIOUS
      <3>4. Flow(in, skip, ahead, bytes, sent, handled)
        BY <3>1, <3>3
      <3>5. /\ Passes(in, skip, ahead, bytes, sent, handled, cap, r)
            /\ r.rc # "OK" => r.bytes = <<>> /\ r.rc \in Failures
            /\ r.tls \in Sessions
        BY ONLY <2>1, <2>4, <3>2, <3>4, RawRead, Zenon
      <3> QED
        BY <3>3, <3>5
    <2>7. /\ r.bytes \in Seq(Bytes) /\ Len(r.bytes) <= cap
          /\ r.left \in Seq(Records) /\ Len(r.left) <= Len(ahead)
          /\ Flow(in \o r.bytes, c.skip, r.left, broker.bytes, broker.sent, handled)
      BY <2>6 DEF Passes
    <2>8. k \in SessionConnections /\ k.in = in /\ k.skip = c.skip /\ k.out = c.out
      BY <1>1, <1>5, <2>2, <2>6 DEF SessionConnections
    <2>9. ASSUME net' \in Lies(r.left, ahead)
          PROVE  net' \in Nets /\ net'.inside \o net'.sock = r.left
      <3>1a. PICK left \in Seq(Records) : left = r.left
        BY <2>7
      <3>1b. PICK m : m = net'
        OBVIOUS
      <3>1. left = r.left /\ m = net'
        BY <3>1a, <3>1b
      <3>2. m \in Lies(left, ahead)
        BY <2>9, <3>1
      <3>3. /\ m = [inside |-> m.inside, sock |-> m.sock, writable |-> net.writable]
            /\ m.inside \in Seq(Records) /\ m.sock \in Seq(Records)
            /\ m.inside \o m.sock = left
        BY <1>5, <2>1, <2>7, <3>1, <3>2, LiesIs, ZenonT(60)
      <3>4. m \in Nets
        BY <2>1, <3>3 DEF Nets
      <3> QED
        BY <3>1, <3>3, <3>4
    <2>10. CASE r.rc = "OK"
      <3>1. /\ c' = [k EXCEPT !.in = k.in \o r.bytes]
            /\ reader' = [reader EXCEPT !.at = "consuming"]
            /\ net' \in Lies(r.left, ahead)
            /\ UNCHANGED <<session, subs, broker, handled, why>>
        BY <1>5, <2>10
      <3>2. PICK more : more = in \o r.bytes
        OBVIOUS
      <3>3. more \in Seq(Bytes) /\ Len(more) = n + Len(r.bytes)
        BY <2>2, <2>7, <3>2, Joined
      <3>4. c' \in SessionConnections /\ c'.in = more /\ c'.skip = c.skip /\ c'.out = c.out
        BY <2>8, <3>1, <3>2, <3>3 DEF SessionConnections
      <3>5. reader' \in Readers /\ reader'.at = "consuming"
        BY <1>1, <3>1 DEF Readers
      <3>6. Len(more) <= InMax
        <4>1. PICK b \in Nat : b = Len(r.bytes)
          BY <2>7, LenProperties
        <4>2. b <= cap
          BY <2>7, <4>1
        <4>3. n + b <= InMax
          BY ONLY <2>5, <4>2, SizesAssumption, n \in Nat, b \in Nat, cap \in Nat
        <4> QED
          BY <3>3, <4>1, <4>3
      <3>7. net' \in Nets /\ net'.inside \o net'.sock = r.left
        BY <2>9, <3>1
      <3>8. Flow(c'.in, c'.skip, net'.inside \o net'.sock, broker.bytes, broker.sent, handled)
        BY <2>7, <3>2, <3>4, <3>7
      <3> QED
        BY <1>1, <1>3, <3>1, <3>4, <3>5, <3>6, <3>7, <3>8, LiveStep
    <2>11. CASE r.rc = "EAGAIN"
      <3>1. /\ c' = IF r.tls.more_to_read THEN [k EXCEPT !.more_to_read = TRUE]
                    ELSE mqtt_arm([k EXCEPT !.read_wants_write = k.secure /\ k.tls.wants_write])
            /\ reader' = Idle
            /\ net' \in Lies(r.left, ahead)
            /\ UNCHANGED <<session, subs, broker, handled, why>>
        BY <1>5, <2>11
      <3>2. c' \in SessionConnections /\ c'.in = in /\ c'.skip = c.skip /\ c'.out = c.out
        <4>1. CASE r.tls.more_to_read
          <5>1. c' = [k EXCEPT !.more_to_read = TRUE]
            BY <3>1, <4>1
          <5> QED
            BY <2>8, <5>1 DEF SessionConnections
        <4>2. CASE ~r.tls.more_to_read
          <5>1. PICK v \in BOOLEAN : v = (k.secure /\ k.tls.wants_write)
            OBVIOUS
          <5>2. PICK d : d = [k EXCEPT !.read_wants_write = v]
            OBVIOUS
          <5>3. c' = mqtt_arm(d)
            BY <3>1, <4>2, <5>1, <5>2
          <5>4. d \in SessionConnections /\ d.in = in /\ d.skip = c.skip /\ d.out = c.out
            BY <2>8, <5>1, <5>2 DEF SessionConnections
          <5>5. PICK w : w = mqtt_arm(d).want_write
            OBVIOUS
          <5>6. c' = [d EXCEPT !.want_write = w] /\ c' \in SessionConnections
            BY <5>3, <5>4, <5>5, ArmIs
          <5> QED
            BY <5>4, <5>6 DEF SessionConnections
        <4> QED
          BY <4>1, <4>2
      <3>3. reader' \in Readers /\ reader'.at = "idle"
        BY <3>1, NothingIs DEF Idle
      <3>4. net' \in Nets /\ net'.inside \o net'.sock = r.left
        BY <2>9, <3>1
      <3>5. in \o r.bytes = in
        BY <2>6, <2>11, ConcatEmptySeq
      <3>6. Flow(c'.in, c'.skip, net'.inside \o net'.sock, broker.bytes, broker.sent, handled)
        BY <2>7, <3>2, <3>4, <3>5
      <3>7. Len(c'.in) < InMax /\ Len(c'.in) <= InMax
        BY <1>1, <2>2, <3>2, ReaderIs
      <3> QED
        BY <1>1, <1>3, <3>1, <3>2, <3>3, <3>4, <3>6, <3>7, LiveStep
    <2>12. CASE r.rc # "OK" /\ r.rc # "EAGAIN"
      <3>1. EndSession("closed") \/ EndSession(tls_client_reason(r.tls))
        BY <1>5, <2>12
      <3>2. CASE EndSession("closed")
        BY <1>1, <3>2, EndKeeps
      <3>3. CASE EndSession(tls_client_reason(r.tls))
        <4>1. PICK y : y = tls_client_reason(r.tls)
          OBVIOUS
        <4>2. EndSession(y) /\ y # "protocol"
          BY <3>3, <4>1, ReasonIs
        <4> QED
          BY <1>1, <4>2, EndKeeps
      <3> QED
        BY <3>1, <3>2, <3>3
    <2> QED
      BY <2>10, <2>11, <2>12
  <1> QED
    BY <1>4, <1>5 DEF Read

-----------------------------------------------------------------------------
(* Cutting the stream into packets. *)

\* mqtt_consume() first counts off what is to be skipped: either it all was, or
\* nothing is left in the buffer.
LEMMA SkipOffKeeps ==
    ASSUME SessionInv, NEW k, k = SkipOff(c)
    PROVE  /\ k \in SessionConnections /\ k.out = c.out
           /\ Len(k.in) <= InMax /\ (k.skip > 0 => Len(k.in) < InMax)
           /\ Flow(k.in, k.skip, net.inside \o net.sock, broker.bytes, broker.sent, handled)
  <1>1. /\ c \in SessionConnections /\ Len(c.in) <= InMax
        /\ Flow(c.in, c.skip, net.inside \o net.sock, broker.bytes, broker.sent, handled)
    BY ReaderIs
  <1>2. PICK in \in Seq(Bytes), skip \in Nat, n \in Nat : in = c.in /\ skip = c.skip /\ n = Len(in)
    BY <1>1, LenProperties DEF SessionConnections
  <1>3. PICK recs, bytes, sent :
          recs = net.inside \o net.sock /\ bytes = broker.bytes /\ sent = broker.sent
    OBVIOUS
  <1>4. Flow(in, skip, recs, bytes, sent, handled)
    BY <1>1, <1>2, <1>3
  <1>5. PICK m : m = Min({skip, n})
    OBVIOUS
  <1>6. m = IF skip <= n THEN skip ELSE n
    BY <1>5, MinOfTwo
  <1>7. m \in Nat /\ m <= skip /\ m <= n /\ (m < skip => m = n)
    BY <1>6
  <1>8. PICK rest : rest = SubSeq(in, m + 1, Len(in))
    OBVIOUS
  <1>9. /\ rest \in Seq(Bytes) /\ Len(rest) = Len(in) - m
        /\ Flow(rest, skip - m, recs, bytes, sent, handled)
    BY <1>2, <1>4, <1>7, <1>8, FlowSkip
  <1>10. k = [c EXCEPT !.in = rest, !.skip = c.skip - m]
    BY <1>2, <1>5, <1>8 DEF SkipOff
  <1>11. PICK left \in Nat : left = skip - m
    BY <1>7
  <1>12. k \in SessionConnections /\ k.out = c.out /\ k.in = rest /\ k.skip = left
    BY <1>1, <1>2, <1>9, <1>10, <1>11 DEF SessionConnections
  <1>13. PICK j \in Nat : j = Len(rest)
    BY <1>9, LenProperties
  <1>14. j = n - m
    BY <1>2, <1>9, <1>13
  <1>15. n <= InMax
    BY <1>1, <1>2
  <1>16. j <= InMax /\ (left > 0 => j < InMax)
    BY ONLY <1>7, <1>11, <1>14, <1>15, SizesAssumption, BufferAssumption,
            n \in Nat, j \in Nat, left \in Nat, skip \in Nat
  <1>17. Flow(rest, left, recs, bytes, sent, handled)
    BY <1>9, <1>11
  <1> QED
    BY <1>3, <1>12, <1>13, <1>16, <1>17

\* The packet x stands at the head of the buffer, of the connection k that has
\* nothing to skip, and its header of h bytes is all there.
Comes(k, x, t, f, body, h) ==
    /\ x.seen \in Meanings /\ Makes(t, f, body, x.seen)
    /\ Len(handled) < Len(broker.sent) /\ x.seen = broker.sent[Len(handled) + 1]
    /\ decode_header(k.in) = [ok |-> TRUE, bad |-> FALSE, type |-> t, flags |-> f,
                              remaining |-> Len(body), header_len |-> h]
    /\ h \in {2, 3} /\ h <= Len(k.in) /\ Len(Wire(t, f, body)) = h + Len(body)
    /\ SubSeq(k.in, h + 1, Len(k.in)) \in Seq(Bytes)
    /\ Len(SubSeq(k.in, h + 1, Len(k.in))) <= InMax
    /\ Flow(SubSeq(k.in, h + 1, Len(k.in)), Len(body), net.inside \o net.sock, broker.bytes,
            broker.sent, Append(handled, x.seen))
    /\ h + Len(body) <= Len(k.in) =>
         /\ SubSeq(k.in, h + 1, h + Len(body)) = body
         /\ SubSeq(k.in, h + Len(body) + 1, Len(k.in)) \in Seq(Bytes)
         /\ Len(SubSeq(k.in, h + Len(body) + 1, Len(k.in))) <= InMax
         /\ Flow(SubSeq(k.in, h + Len(body) + 1, Len(k.in)), 0, net.inside \o net.sock,
                 broker.bytes, broker.sent, Append(handled, x.seen))

\* The buffer holds too little to tell, and then it has room; or a packet is at its
\* head, of which the header reads as the broker wrote it.
LEMMA HeaderComes ==
    ASSUME SessionInv, NEW k \in SessionConnections, k.skip = 0, Len(k.in) <= InMax,
           Flow(k.in, k.skip, net.inside \o net.sock, broker.bytes, broker.sent, handled)
    PROVE  \/ decode_header(k.in) = NotYet /\ Len(k.in) < InMax
           \/ \E x \in Speech, t \in 1 .. 14, f \in 0 .. 15, body \in Seq(Bytes), h \in Nat :
                Comes(k, x, t, f, body, h)
  <1>1. PICK in \in Seq(Bytes), n \in Nat : in = k.in /\ n = Len(in)
    BY LenProperties DEF SessionConnections
  <1>2a. PICK recs, bytes : recs = net.inside \o net.sock /\ bytes = broker.bytes
    OBVIOUS
  <1>2b. PICK sent \in Seq(Meanings) : sent = broker.sent
    BY ReaderIs DEF Brokers
  <1>2. recs = net.inside \o net.sock /\ bytes = broker.bytes /\ sent = broker.sent
    BY <1>2a, <1>2b
  <1>3. handled \in Seq(Meanings)
    BY DEF SessionInv, SessionTyped
  <1>4. Flow(in, 0, recs, bytes, sent, handled)
    BY <1>1, <1>2
  <1>5. CASE in = <<>>
    <2>1. decode_header(in) = NotYet
      BY <1>5 DEF decode_header
    <2>2. n = 0
      BY <1>1, <1>5, EmptySeq
    <2>3. 0 < InMax
      BY BufferAssumption, SizesAssumption
    <2> QED
      BY <1>1, <2>1, <2>2, <2>3
  <1>6. CASE in # <<>>
    <2>1. PICK x \in Speech :
            /\ Len(handled) < Len(sent) /\ x.seen = sent[Len(handled) + 1]
            /\ Agrees(in, x.bytes)
            /\ \A m \in Nat :
                 m <= Len(in) /\ m <= Len(x.bytes) =>
                   /\ SubSeq(in, m + 1, Len(in)) \in Seq(Bytes)
                   /\ Len(SubSeq(in, m + 1, Len(in))) = Len(in) - m
                   /\ Flow(SubSeq(in, m + 1, Len(in)), Len(x.bytes) - m, recs, bytes,
                           sent, Append(handled, x.seen))
      BY <1>3, <1>4, <1>6, FlowNext
    <2>2. PICK t \in 1 .. 14, f \in 0 .. 15, body \in Seq(Bytes) : Meant(x, t, f, body)
      BY SpeechIs
    <2>3. /\ x.bytes = Wire(t, f, body) /\ Short(Len(body)) /\ mqtt_flags_are_legal(t, f)
          /\ Makes(t, f, body, x.seen)
      BY <2>2 DEF Meant
    <2>4. PICK p, h : p = Wire(t, f, body) /\ h = 1 + Len(LengthOf(Len(body)))
      OBVIOUS
    <2>5a. Agrees(in, p)
      BY <2>1, <2>3, <2>4
    <2>5. \A y \in 1 .. Len(p) : y <= Len(in) => in[y] = p[y]
      BY <2>5a DEF Agrees
    <2>6a. Parses(in, p, t, f, body, h)
      BY <2>3, <2>4, <2>5a, HeaderRead
    <2>6. /\ h \in {2, 3} /\ Len(p) = h + Len(body) /\ p \in Seq(Bytes)
          /\ \A y \in 1 .. Len(body) : p[h + y] = body[y]
          /\ Len(in) < h => decode_header(in) = NotYet
          /\ Len(in) >= h =>
               decode_header(in) =
                 [ok |-> TRUE, bad |-> FALSE, type |-> t, flags |-> f,
                  remaining |-> Len(body), header_len |-> h]
      BY <2>6a DEF Parses
    <2>7. PICK l \in Nat, u \in Nat : l = Len(body) /\ u = Len(p)
      BY <2>6, LenProperties
    <2>8. h \in Nat /\ u = h + l /\ n <= InMax
      BY <1>1, <2>6, <2>7
    <2>9. CASE n < h
      <3>1. n < InMax
        BY <2>6, <2>9, BufferAssumption, SizesAssumption
      <3> QED
        BY <1>1, <2>6, <2>9, <3>1
    <2>10. CASE n >= h
      <3>1. ASSUME NEW m \in Nat, m <= n, m <= u
            PROVE  /\ SubSeq(in, m + 1, Len(in)) \in Seq(Bytes)
                   /\ Len(SubSeq(in, m + 1, Len(in))) <= InMax
                   /\ Flow(SubSeq(in, m + 1, Len(in)), u - m, recs, bytes,
                           sent, Append(handled, x.seen))
        <4>1. PICK rest : rest = SubSeq(in, m + 1, Len(in))
          OBVIOUS
        <4>2. m <= Len(in) /\ m <= Len(x.bytes) /\ Len(x.bytes) = u
          BY <1>1, <2>3, <2>4, <2>7, <3>1
        <4>3. /\ rest \in Seq(Bytes) /\ Len(rest) = Len(in) - m
              /\ Flow(rest, u - m, recs, bytes, sent, Append(handled, x.seen))
          BY <2>1, <3>1, <4>1, <4>2
        <4>4. n - m <= InMax
          BY ONLY n \in Nat, m \in Nat, <2>8, SizesAssumption
        <4> QED
          BY <1>1, <4>1, <4>3, <4>4
      <3>2. /\ h <= u /\ u - h = l /\ u - u = 0 /\ u <= u /\ h <= n
        BY ONLY <2>8, <2>10, h \in Nat, l \in Nat, u \in Nat, n \in Nat
      <3>3. /\ SubSeq(in, h + 1, Len(in)) \in Seq(Bytes)
            /\ Len(SubSeq(in, h + 1, Len(in))) <= InMax
            /\ Flow(SubSeq(in, h + 1, Len(in)), l, recs, bytes, sent, Append(handled, x.seen))
        BY <2>8, <3>1, <3>2
      <3>4. ASSUME u <= n
            PROVE  /\ SubSeq(in, h + 1, h + Len(body)) = body
                   /\ SubSeq(in, u + 1, Len(in)) \in Seq(Bytes)
                   /\ Len(SubSeq(in, u + 1, Len(in))) <= InMax
                   /\ Flow(SubSeq(in, u + 1, Len(in)), 0, recs, bytes, sent, Append(handled, x.seen))
        <4>1. \A y \in 1 .. l : h + y \in 1 .. u /\ h + y <= n
          BY ONLY <2>8, <3>4, h \in Nat, l \in Nat, u \in Nat, n \in Nat
        <4>2. \A y \in 1 .. Len(body) : in[h + y] = body[y]
          BY <1>1, <2>5, <2>6, <2>7, <4>1
        <4>3. h + Len(body) <= Len(in)
          BY <1>1, <2>7, <2>8, <3>4
        <4>4. SubSeq(in, h + 1, h + Len(body)) = body
          BY <2>8, <4>2, <4>3, SubSeqIs
        <4> QED
          BY <3>1, <3>2, <3>4, <4>4
      <3>5. x.seen \in Meanings
        BY DEF Meanings
      <3>6. Comes(k, x, t, f, body, h)
        <4>1. /\ x.seen \in Meanings /\ Makes(t, f, body, x.seen)
              /\ Len(handled) < Len(broker.sent) /\ x.seen = broker.sent[Len(handled) + 1]
              /\ decode_header(k.in) = [ok |-> TRUE, bad |-> FALSE, type |-> t, flags |-> f,
                                        remaining |-> Len(body), header_len |-> h]
              /\ h \in {2, 3} /\ h <= Len(k.in) /\ Len(Wire(t, f, body)) = h + Len(body)
          BY <1>1, <1>2, <2>1, <2>3, <2>4, <2>6, <2>10, <3>2, <3>5
        <4>2. /\ SubSeq(k.in, h + 1, Len(k.in)) \in Seq(Bytes)
              /\ Len(SubSeq(k.in, h + 1, Len(k.in))) <= InMax
              /\ Flow(SubSeq(k.in, h + 1, Len(k.in)), Len(body), net.inside \o net.sock, broker.bytes,
                      broker.sent, Append(handled, x.seen))
          BY <1>1, <1>2, <2>7, <3>3
        <4>3. h + Len(body) <= Len(k.in) =>
                /\ SubSeq(k.in, h + 1, h + Len(body)) = body
                /\ SubSeq(k.in, h + Len(body) + 1, Len(k.in)) \in Seq(Bytes)
                /\ Len(SubSeq(k.in, h + Len(body) + 1, Len(k.in))) <= InMax
                /\ Flow(SubSeq(k.in, h + Len(body) + 1, Len(k.in)), 0, net.inside \o net.sock,
                        broker.bytes, broker.sent, Append(handled, x.seen))
          <5>1. u = h + Len(body) /\ n = Len(k.in) /\ in = k.in
            BY <1>1, <2>7, <2>8
          <5> QED
            BY <1>2, <3>4, <5>1
        <4> QED
          BY <4>1, <4>2, <4>3 DEF Comes
      <3> QED
        BY <2>8, <3>6
    <2> QED
      <3>1. n < h \/ n >= h
        BY ONLY <2>8, n \in Nat
      <3> QED
        BY <2>9, <2>10, <3>1
  <1> QED
    BY <1>5, <1>6

\* Something handled in a session that is up, and nothing asked of the broker.
LEMMA HandledKeeps ==
    ASSUME SessionInv, session = "READY", reader.at = "consuming", session' = session,
           c' \in SessionConnections, c'.out = c.out, Len(c'.in) <= InMax,
           NEW s \in Meanings, handled' = Append(handled, s),
           Flow(c'.in, c'.skip, net.inside \o net.sock, broker.bytes, broker.sent, Append(handled, s)),
           UNCHANGED <<subs, lib, net, broker, why>>,
           reader' \in Readers, reader'.at \in {"consuming", "callback"}
    PROVE  SessionInv'
  <1>1. handled' \in Seq(Meanings) /\ handled' # <<>>
    <2>1. handled \in Seq(Meanings)
      BY DEF SessionInv, SessionTyped
    <2>2a. PICK hnd \in Seq(Meanings) : hnd = handled
      BY <2>1
    <2>2b. PICK more : more = Append(hnd, s)
      OBVIOUS
    <2>2. hnd = handled /\ more = Append(hnd, s)
      BY <2>2a, <2>2b
    <2>3. more \in Seq(Meanings) /\ more # <<>>
      BY <2>2, AppendProperties
    <2> QED
      BY <2>2, <2>3
  <1>2. SessionTyped'
    BY <1>1 DEF SessionInv, SessionTyped
  <1>3. Limits'
    BY DEF SessionInv, Limits
  <1>4. Phase'
    BY <1>1 DEF SessionInv, Phase, Quiet
  <1>5. Subscribing'
    <2>1. Pump(c, broker, subs) /\ Moving(subs)
      BY DEF SessionInv, Subscribing
    <2>2. AskedIn(c', broker) = AskedIn(c, broker)
      BY DEF AskedIn
    <2>3. Pump(c', broker, subs)
      BY <2>1, <2>2 DEF Pump
    <2> QED
      BY <2>1, <2>3 DEF Subscribing
  <1>6. SessionFlow'
    BY DEF SessionFlow
  <1> QED
    BY <1>2, <1>3, <1>4, <1>5, <1>6 DEF SessionInv

\* The first packet of a session is the CONNACK, and no other is.
LEMMA ComesWhen ==
    ASSUME SessionInv, session \in Live, NEW s, Len(handled) < Len(broker.sent),
           s = broker.sent[Len(handled) + 1]
    PROVE  /\ session = "GREETING" => /\ s.type = CONNACK /\ handled = <<>> /\ OneConnack(broker.sent)
                                      /\ c.out = <<>> /\ broker.heard = <<>>
           /\ session = "READY" => s.type # CONNACK
  <1>1. PICK sent \in Seq(Meanings), n \in Nat : sent = broker.sent /\ n = Len(sent)
    BY ReaderIs, LenProperties DEF Brokers
  <1>2. PICK hnd \in Seq(Meanings), m \in Nat : hnd = handled /\ m = Len(hnd)
    BY LenProperties DEF SessionInv, SessionTyped
  <1>3. m < n /\ s = sent[m + 1]
    BY <1>1, <1>2
  <1>4. CASE session = "GREETING"
    <2>1. handled = <<>> /\ Greeted
      BY <1>4 DEF SessionInv, Phase
    <2>2. m = 0
      BY <1>2, <2>1, EmptySeq
    <2>3. sent # <<>>
      <3>1. ASSUME sent = <<>> PROVE FALSE
        <4>1. n = 0
          BY <1>1, <3>1, EmptySeq
        <4> QED
          BY <1>3, <4>1
      <3> QED
        BY <3>1
    <2>4. /\ c.out = <<>> /\ broker.heard = <<>> /\ sent[1].type = CONNACK /\ OneConnack(broker.sent)
      BY <1>1, <2>1, <2>3 DEF Greeted
    <2>5. s = sent[1]
      BY <1>3, <2>2
    <2> QED
      BY <1>4, <2>1, <2>4, <2>5
  <1>5. CASE session = "READY"
    <2>1. handled # <<>> /\ OneConnack(broker.sent)
      BY <1>5 DEF SessionInv, Phase
    <2>2. m # 0
      BY <1>2, <2>1, EmptySeq
    <2>3. m + 1 \in 2 .. n
      BY ONLY m \in Nat, n \in Nat, <1>3, <2>2
    <2>4. \A i \in 2 .. n : sent[i].type # CONNACK
      BY <1>1, <2>1 DEF OneConnack
    <2> QED
      BY <1>3, <1>5, <2>3, <2>4
  <1> QED
    BY <1>4, <1>5 DEF Live

\* The CONNACK makes a session or ends it.
LEMMA ConnackKeeps ==
    ASSUME SessionInv, session = "GREETING", reader.at = "consuming", lib' = lib,
           NEW k \in SessionConnections, k.out = c.out, Len(k.in) <= InMax,
           c.out = <<>>, broker.heard = <<>>, handled = <<>>, OneConnack(broker.sent),
           NEW body, NEW code \in {0, 5},
           decode_connack(body) = [ok |-> TRUE, bad |-> FALSE, code |-> code],
           NEW s \in Meanings, s = Seen(CONNACK, <<code>>),
           Flow(k.in, k.skip, net.inside \o net.sock, broker.bytes, broker.sent, Append(handled, s)),
           mqtt_on_connack(k, body)
    PROVE  SessionInv'
  <1>1. PICK d : d = decode_connack(body)
    OBVIOUS
  <1>2. d.bad = FALSE /\ d.code = code
    BY <1>1
  <1>3. CASE code # 0
    <2>1. EndSession("refused")
      BY <1>1, <1>2, <1>3 DEF mqtt_on_connack
    <2> QED
      BY <2>1, ReaderIs, EndKeeps
  <1>4. CASE code = 0
    <2>1. /\ session' = "READY" /\ c' = k
          /\ reader' = [reader EXCEPT !.at = "callback", !.cont = "connack"]
          /\ why' = "none" /\ handled' = Append(handled, s)
          /\ UNCHANGED <<subs, net, broker>>
      BY <1>1, <1>2, <1>4 DEF mqtt_on_connack, Handled
    <2>2. reader' \in Readers /\ reader'.at = "callback" /\ reader'.cont = "connack"
      BY <2>1, ReaderIs DEF Readers
    <2>3. handled' \in Seq(Meanings) /\ handled' # <<>>
      <3>1a. PICK hnd \in Seq(Meanings) : hnd = handled
        BY NothingIs
      <3>1b. PICK more : more = Append(hnd, s)
        OBVIOUS
      <3>1. hnd = handled /\ more = Append(hnd, s)
        BY <3>1a, <3>1b
      <3>2. more \in Seq(Meanings) /\ more # <<>>
        BY <3>1, AppendProperties
      <3> QED
        BY <2>1, <3>1, <3>2
    <2>4. SessionTyped'
      BY <2>1, <2>2, <2>3 DEF SessionInv, SessionTyped
    <2>5. Limits'
      BY <2>1, <2>2 DEF SessionInv, Limits
    <2>6. Phase'
      <3>1. Len(<<>>) = 0 /\ 1 .. 0 = {}
        OBVIOUS
      <3>2. Quiet(c', broker')
        BY <2>1, <3>1 DEF Quiet
      <3> QED
        BY <2>1, <2>3, <3>2 DEF Phase
    <2>7. Subscribing'
      <3>1. subs.filter_sent = 0 /\ subs.subscribe_id = 0 /\ subs.filters \in Seq(Filters)
        BY DEF SessionInv, SessionTyped, Subscribing, Subs
      <3>2. PICK n \in Nat : n = Len(subs.filters)
        BY <3>1, LenProperties
      <3>3. 0 <= n /\ 1 .. 0 = {}
        OBVIOUS
      <3>4. Pump(c', broker', subs')
        BY <2>1, <3>1, <3>2, <3>3 DEF Pump
      <3> QED
        BY <2>1, <2>2, <3>4 DEF Subscribing
    <2>8. SessionFlow'
      BY <2>1 DEF SessionFlow
    <2> QED
      BY <2>4, <2>5, <2>6, <2>7, <2>8 DEF SessionInv
  <1> QED
    BY <1>3, <1>4

\* A SUBACK moves the filters on when it is for the one in flight, and is passed
\* over when it is not.
LEMMA SubackKeeps ==
    ASSUME SessionInv, session = "READY", reader.at = "consuming", lib' = lib,
           NEW k \in SessionConnections, k.out = c.out, Len(k.in) <= InMax,
           NEW body, NEW id \in 1 .. FiltersMax, NEW code,
           decode_suback(body) = [ok |-> TRUE, bad |-> FALSE, id |-> id, code |-> code],
           NEW s \in Meanings, s = Seen(SUBACK, <<id, code>>),
           Flow(k.in, k.skip, net.inside \o net.sock, broker.bytes, broker.sent, Append(handled, s)),
           mqtt_on_suback(k, body)
    PROVE  SessionInv'
  <1>1. PICK d : d = decode_suback(body)
    OBVIOUS
  <1>2. d.bad = FALSE /\ d.id = id /\ d.code = code
    BY <1>1
  <1>3. PICK t : t = [subs EXCEPT !.filter_sent = subs.filter_sent + 1, !.subscribe_id = 0]
    OBVIOUS
  <1>4. /\ IF id = subs.subscribe_id THEN Pumped(mqtt_pump_subscribes(k, broker, t))
           ELSE c' = k /\ UNCHANGED <<broker, subs>>
        /\ handled' = Append(handled, s)
        /\ UNCHANGED <<session, reader, net, why>>
    BY <1>1, <1>2, <1>3 DEF mqtt_on_suback, Handled
  <1>5. reader' \in Readers /\ reader'.at = "consuming"
    BY <1>4, ReaderIs
  <1>6. CASE id = subs.subscribe_id
    <2>1. PICK g \in Nat, o \in Seq(Filters), n \in Nat :
            g = subs.filter_sent /\ o = subs.filters /\ n = Len(o)
      BY LenProperties DEF SessionInv, SessionTyped, Subs
    <2>2. subs \in Subs /\ Len(subs.filters) <= FiltersMax /\ Pump(c, broker, subs)
      BY DEF SessionInv, SessionTyped, Limits, Subscribing
    <2>3. id # 0
      BY ONLY id \in 1 .. FiltersMax, SizesAssumption
    <2>4. /\ \A i \in 1 .. g : o[i] \in AskedIn(c, broker)
          /\ id = g + 1 /\ id <= n /\ o[id] \in AskedIn(c, broker)
      BY <1>6, <2>1, <2>2, <2>3 DEF Pump
    <2>5. g + 1 <= n /\ \A i \in 1 .. g + 1 : o[i] \in AskedIn(c, broker)
      <3>1. \A i \in 1 .. g + 1 : i \in 1 .. g \/ i = g + 1
        OBVIOUS
      <3> QED
        BY <2>4, <3>1
    <2>6a. PICK g1 \in Nat : g1 = g + 1
      OBVIOUS
    <2>6b. t = [subs EXCEPT !.filter_sent = g1, !.subscribe_id = 0]
      BY <1>3, <2>1, <2>6a
    <2>6. /\ t \in Subs /\ t.filters = o /\ t.filter_sent = g + 1 /\ t.subscribe_id = 0
      BY <2>1, <2>2, <2>6a, <2>6b DEF Subs
    <2>7. AskedIn(k, broker) = AskedIn(c, broker)
      BY DEF AskedIn
    <2>8. Pump(k, broker, t)
      BY <2>1, <2>5, <2>6, <2>7 DEF Pump
    <2>9. Len(t.filters) <= FiltersMax
      BY <2>1, <2>2, <2>6
    <2>10. PICK hnd \in Seq(Meanings) : hnd = Append(handled, s) /\ hnd # <<>>
      <3>1. handled \in Seq(Meanings)
        BY DEF SessionInv, SessionTyped
      <3>2a. PICK was \in Seq(Meanings) : was = handled
        BY <3>1
      <3>2b. PICK more : more = Append(was, s)
        OBVIOUS
      <3>2. was = handled /\ more = Append(was, s)
        BY <3>2a, <3>2b
      <3>3. more \in Seq(Meanings) /\ more # <<>>
        BY <3>2, AppendProperties
      <3> QED
        BY <3>2, <3>3
    <2>11. Flow(k.in, k.skip, net.inside \o net.sock, broker.bytes, broker.sent, hnd)
      BY <2>10
    <2>12. /\ Pumped(mqtt_pump_subscribes(k, broker, t)) /\ handled' = hnd /\ session' = session
           /\ UNCHANGED <<lib, net, why>>
      BY <1>4, <1>6, <2>10
    <2>13. reader'.at \in {"idle", "reading"} => Len(k.in) < InMax
      BY <1>5
    <2> QED
      BY <1>5, <2>6, <2>8, <2>9, <2>10, <2>11, <2>12, <2>13, PumpKeeps
  <1>7. CASE id # subs.subscribe_id
    <2>1. c' = k /\ UNCHANGED <<subs, lib, net, broker, why>> /\ session' = session
      BY <1>4, <1>7
    <2> QED
      BY <1>4, <1>5, <2>1, HandledKeeps
  <1> QED
    BY <1>6, <1>7

\* Whatever the packet, its handler does as it should.
LEMMA HandleKeeps ==
    ASSUME SessionInv, session \in Live, reader.at = "consuming", lib' = lib,
           NEW k \in SessionConnections, k.out = c.out, Len(k.in) <= InMax,
           NEW t \in 1 .. 14, NEW f, NEW body \in Seq(Bytes), NEW header,
           header.type = t, header.flags = f,
           NEW s \in Meanings, Makes(t, f, body, s), ~(Len(Wire(t, f, body)) > InMax),
           Len(handled) < Len(broker.sent), s = broker.sent[Len(handled) + 1],
           Flow(k.in, k.skip, net.inside \o net.sock, broker.bytes, broker.sent, Append(handled, s)),
           mqtt_handle(k, header, body)
    PROVE  SessionInv'
  <1>1. /\ session = "GREETING" => /\ s.type = CONNACK /\ handled = <<>> /\ OneConnack(broker.sent)
                                   /\ c.out = <<>> /\ broker.heard = <<>>
        /\ session = "READY" => s.type # CONNACK
    BY ComesWhen
  <1>2. /\ CONNACK = 2 /\ PINGRESP = 13 /\ SUBACK = 9 /\ PUBLISH = 3 /\ PUBREL = 6
    BY DEF CONNACK, PINGRESP, SUBACK, PUBLISH, PUBREL
  <1>3. /\ CONNACK # PINGRESP /\ CONNACK # SUBACK /\ CONNACK # PUBLISH
        /\ PINGRESP # SUBACK /\ PINGRESP # PUBLISH /\ SUBACK # PUBLISH
    BY <1>2
  <1>4. \/ t = CONNACK /\ s.type = CONNACK
        \/ t = PINGRESP /\ body = <<>> /\ s = Seen(PINGRESP, <<>>)
        \/ t = SUBACK /\ s.type = SUBACK
        \/ t = PUBLISH /\ s.type = PUBLISH
    <2>1. t \in {CONNACK, PINGRESP, SUBACK, PUBLISH}
      BY DEF Makes
    <2>2. CASE t = CONNACK
      <3>1. \E code \in {0, 5} : s = Seen(CONNACK, <<code>>)
        BY <1>3, <2>2, Zenon DEF Makes
      <3> QED
        BY <2>2, <3>1 DEF Seen
    <2>3. CASE t = PINGRESP
      <3>1. body = <<>> /\ s = Seen(PINGRESP, <<>>)
        BY <1>3, <2>3, Zenon DEF Makes
      <3> QED
        BY <2>3, <3>1
    <2>4. CASE t = SUBACK
      <3>1. \E id \in 1 .. FiltersMax, code \in {0, 128} :
              /\ decode_suback(body) = [ok |-> TRUE, bad |-> FALSE, id |-> id, code |-> code]
              /\ s = Seen(SUBACK, <<id, code>>)
        BY <1>3, <2>4, Zenon DEF Makes
      <3> QED
        BY <2>4, <3>1 DEF Seen
    <2>5. CASE t = PUBLISH
      <3>1. \E m : s = Seen(PUBLISH, <<m.topic, m.payload>>)
        BY <1>3, <2>5, Zenon DEF Makes
      <3> QED
        BY <2>5, <3>1 DEF Seen
    <2> QED
      BY <2>1, <2>2, <2>3, <2>4, <2>5
  <1>5. CASE t = CONNACK
    <2>1. PICK code \in {0, 5} :
            /\ decode_connack(body) = [ok |-> TRUE, bad |-> FALSE, code |-> code]
            /\ s = Seen(CONNACK, <<code>>)
      BY <1>3, <1>5, Zenon DEF Makes
    <2>2. s.type = CONNACK
      BY <2>1 DEF Seen
    <2>3. session = "GREETING"
      BY <1>1, <2>2 DEF Live
    <2>4. mqtt_on_connack(k, body)
      BY <1>2, <1>5 DEF mqtt_handle
    <2> QED
      BY <1>1, <2>1, <2>3, <2>4, ConnackKeeps
  <1>6. CASE t # CONNACK
    <2>1. session = "READY"
      BY <1>1, <1>4, <1>2, <1>6 DEF Live, Seen
    <2>2. CASE t = SUBACK
      <3>1. PICK id \in 1 .. FiltersMax, code \in {0, 128} :
              /\ decode_suback(body) = [ok |-> TRUE, bad |-> FALSE, id |-> id, code |-> code]
              /\ s = Seen(SUBACK, <<id, code>>)
        BY <1>3, <2>2, Zenon DEF Makes
      <3>2. mqtt_on_suback(k, body)
        BY <1>2, <2>2 DEF mqtt_handle
      <3> QED
        BY <2>1, <3>1, <3>2, SubackKeeps
    <2>3. CASE t = PUBLISH
      <3>1. PICK m \in Messages :
              /\ decode_publish(f, body) =
                   [ok |-> TRUE, bad |-> FALSE, topic |-> m.topic, payload |-> m.payload]
              /\ s = Seen(PUBLISH, <<m.topic, m.payload>>)
        BY <1>3, <2>3, Zenon DEF Makes
      <3>2. mqtt_on_publish(k, f, body)
        BY <1>2, <2>3 DEF mqtt_handle
      <3>3. PICK d : d = decode_publish(f, body)
        OBVIOUS
      <3>4. d.bad = FALSE /\ d.topic = m.topic /\ d.payload = m.payload
        BY <3>1, <3>3
      <3>5. /\ c' = k /\ reader' = [reader EXCEPT !.at = "callback", !.cont = "read"]
            /\ handled' = Append(handled, s)
            /\ UNCHANGED <<session, subs, net, broker, why>>
        BY <3>1, <3>2, <3>3, <3>4 DEF mqtt_on_publish, Handled
      <3>6. reader' \in Readers /\ reader'.at \in {"consuming", "callback"}
        BY <3>5, ReaderIs DEF Readers
      <3> QED
        BY <2>1, <3>5, <3>6, HandledKeeps
    <2>4. CASE t = PINGRESP
      <3>1. s = Seen(t, body)
        BY <1>4, <1>2, <2>4
      <3>2. /\ c' = k /\ handled' = Append(handled, s)
            /\ UNCHANGED <<session, subs, reader, net, broker, why>>
        BY <1>2, <2>4, <3>1 DEF mqtt_handle, Handled
      <3>3. reader' \in Readers /\ reader'.at \in {"consuming", "callback"}
        BY <3>2, ReaderIs
      <3> QED
        BY <2>1, <3>2, <3>3, HandledKeeps
    <2> QED
      BY <1>4, <1>6, <2>2, <2>3, <2>4
  <1> QED
    BY <1>5, <1>6

\* The reader goes back to reading, with room in the buffer.
LEMMA WaitKeeps ==
    ASSUME SessionInv, reader.at = "consuming",
           NEW k \in SessionConnections, k.out = c.out, Len(k.in) < InMax, Len(k.in) <= InMax,
           Flow(k.in, k.skip, net.inside \o net.sock, broker.bytes, broker.sent, handled),
           c' = k, reader' = [reader EXCEPT !.at = "reading", !.turn = reader.turn + 1],
           UNCHANGED <<session, subs, lib, net, broker, handled, why>>
    PROVE  SessionInv'
  <1>1. session \in Live /\ reader \in Readers /\ net \in Nets
    BY ReaderIs
  <1>2. PICK n \in Nat : n = reader.turn + 1
    BY <1>1 DEF Readers
  <1>3. reader' \in Readers /\ reader'.at = "reading"
    BY <1>1, <1>2 DEF Readers
  <1>4. PICK f : f = [c |-> c, broker |-> broker]
    OBVIOUS
  <1>5. Wrote(c, c.out, broker, f) /\ f.c = c /\ f.broker = broker
    BY <1>4, WroteNothing
  <1>6. /\ c' \in SessionConnections /\ net' \in Nets /\ net' = net /\ c'.out = f.c.out
        /\ broker' = f.broker /\ Len(c'.in) <= InMax /\ Len(c'.in) < InMax
    BY <1>1, <1>5
  <1> QED
    BY <1>1, <1>3, <1>5, <1>6, LiveStep

\* One turn of mqtt_consume().
LEMMA ConsumeKeeps ==
    ASSUME SessionInv, Consume
    PROVE  SessionInv'
  <1>1. PICK k : k = SkipOff(c)
    OBVIOUS
  <1>2. PICK header : header = decode_header(k.in)
    OBVIOUS
  <1>3. PICK whole : whole = header.header_len + header.remaining
    OBVIOUS
  <1> DEFINE from(n) == [k EXCEPT !.in = SubSeq(k.in, n + 1, Len(k.in))]
             wait == /\ c' = k
                     /\ reader' = [reader EXCEPT !.at = "reading", !.turn = reader.turn + 1]
                     /\ UNCHANGED <<session, subs, net, broker, handled, why>>
  <1>4. /\ reader.at = "consuming" /\ lib' = lib
        /\ IF k.skip > 0 \/ header = NotYet THEN wait
           ELSE IF header.bad THEN EndSession("protocol")
           ELSE IF header.remaining > InMax - header.header_len
           THEN /\ c' = [from(header.header_len) EXCEPT !.skip = header.remaining]
                /\ handled' = Append(handled, Skipped)
                /\ UNCHANGED <<session, subs, reader, net, broker, why>>
           ELSE IF Len(k.in) < whole THEN wait
           ELSE mqtt_handle(from(whole), header, SubSeq(k.in, header.header_len + 1, whole))
    BY <1>1, <1>2, <1>3 DEF Consume
  <1>5. /\ k \in SessionConnections /\ k.out = c.out
        /\ Len(k.in) <= InMax /\ (k.skip > 0 => Len(k.in) < InMax)
        /\ Flow(k.in, k.skip, net.inside \o net.sock, broker.bytes, broker.sent, handled)
    BY <1>1, SkipOffKeeps
  <1>6. session \in Live
    BY <1>4, ReaderIs
  <1>7. ASSUME wait, Len(k.in) < InMax
        PROVE  SessionInv'
    BY <1>4, <1>5, <1>7, WaitKeeps
  <1>8. CASE k.skip > 0
    BY <1>4, <1>5, <1>7, <1>8
  <1>9. CASE ~(k.skip > 0) /\ header = NotYet /\ Len(k.in) < InMax
    BY <1>4, <1>7, <1>9
  <1>10. ASSUME ~(k.skip > 0),
                NEW x \in Speech, NEW t \in 1 .. 14, NEW f \in 0 .. 15, NEW body \in Seq(Bytes),
                NEW h \in Nat, Comes(k, x, t, f, body, h)
         PROVE  SessionInv'
    <2>1. PICK s : s = x.seen
      OBVIOUS
    <2>2. /\ s \in Meanings /\ Makes(t, f, body, s)
          /\ Len(handled) < Len(broker.sent) /\ s = broker.sent[Len(handled) + 1]
          /\ header = [ok |-> TRUE, bad |-> FALSE, type |-> t, flags |-> f,
                       remaining |-> Len(body), header_len |-> h]
          /\ h \in {2, 3} /\ h <= Len(k.in) /\ Len(Wire(t, f, body)) = h + Len(body)
      BY <1>2, <1>10, <2>1 DEF Comes
    <2>3. PICK l \in Nat, n \in Nat : l = Len(body) /\ n = Len(k.in)
      BY <1>5, LenProperties DEF SessionConnections
    <2>4. /\ header.bad = FALSE /\ header # NotYet /\ header.type = t /\ header.flags = f
          /\ header.remaining = l /\ header.header_len = h /\ whole = h + l
      <3>1. header.ok /\ ~NotYet.ok
        BY <2>2 DEF NotYet
      <3>2. header.bad = FALSE /\ header.type = t /\ header.flags = f
            /\ header.remaining = l /\ header.header_len = h
        BY <2>2, <2>3
      <3> QED
        BY <1>3, <3>1, <3>2
    <2>5. IF l > InMax - h
          THEN /\ c' = [from(h) EXCEPT !.skip = l]
               /\ handled' = Append(handled, Skipped)
               /\ UNCHANGED <<session, subs, reader, net, broker, why>>
          ELSE IF n < h + l THEN wait
          ELSE mqtt_handle(from(h + l), header, SubSeq(k.in, h + 1, h + l))
      BY <1>4, <1>10, <2>3, <2>4
    <2>6. CASE l > InMax - h
      <3>1. PICK rest : rest = SubSeq(k.in, h + 1, Len(k.in))
        OBVIOUS
      <3>2. /\ c' = [k EXCEPT !.in = rest, !.skip = l]
            /\ handled' = Append(handled, Skipped)
            /\ UNCHANGED <<session, subs, reader, net, broker, why>>
        BY <2>5, <2>6, <3>1
      <3>3. /\ rest \in Seq(Bytes) /\ Len(rest) <= InMax
            /\ Flow(rest, l, net.inside \o net.sock, broker.bytes, broker.sent, Append(handled, s))
        BY <1>10, <2>1, <2>3, <3>1 DEF Comes
      <3>4. c' \in SessionConnections /\ c'.in = rest /\ c'.skip = l /\ c'.out = c.out
        BY <1>5, <3>2, <3>3 DEF SessionConnections
      <3>5. ~(l <= 3) /\ ~(h + l <= InMax)
        BY ONLY <2>2, <2>6, l \in Nat, SizesAssumption, BufferAssumption, SMTT(60)
      <3>6. s = Skipped
        BY <2>2, <2>3, <3>5 DEF Makes
      <3>7. session = "READY"
        <4>1. s.type # CONNACK
          BY <3>6 DEF Skipped, Seen, CONNACK
        <4> QED
          BY <1>6, <2>2, <4>1, ComesWhen DEF Live
      <3>8. reader' \in Readers /\ reader'.at \in {"consuming", "callback"}
        BY <1>4, <3>2, ReaderIs
      <3> QED
        BY <1>4, <2>2, <3>2, <3>3, <3>4, <3>6, <3>7, <3>8, HandledKeeps
    <2>7. CASE ~(l > InMax - h) /\ n < h + l
      <3>1. n < InMax
        BY ONLY <2>7, l \in Nat, n \in Nat, h \in Nat, SizesAssumption
      <3> QED
        BY <1>7, <2>3, <2>5, <2>7, <3>1
    <2>8. CASE ~(l > InMax - h) /\ ~(n < h + l)
      <3>1. h + l <= n /\ h + l <= InMax
        BY ONLY <2>8, l \in Nat, n \in Nat, h \in Nat, SizesAssumption
      <3>2. PICK rest, d : rest = SubSeq(k.in, h + l + 1, Len(k.in)) /\ d = [k EXCEPT !.in = rest]
        OBVIOUS
      <3>3. mqtt_handle(d, header, SubSeq(k.in, h + 1, h + l))
        BY <2>5, <2>8, <3>2
      <3>4. h + Len(body) <= Len(k.in)
        BY <2>3, <3>1
      <3>5. /\ SubSeq(k.in, h + 1, h + l) = body
            /\ rest \in Seq(Bytes) /\ Len(rest) <= InMax
            /\ Flow(rest, 0, net.inside \o net.sock, broker.bytes, broker.sent, Append(handled, s))
        BY <1>10, <2>1, <2>3, <3>2, <3>4 DEF Comes
      <3>6. mqtt_handle(d, header, body)
        BY <3>3, <3>5
      <3>7. k.skip = 0
        BY <1>5, <1>10 DEF SessionConnections
      <3>8. d \in SessionConnections /\ d.in = rest /\ d.skip = 0 /\ d.out = c.out
        BY <1>5, <3>2, <3>5, <3>7 DEF SessionConnections
      <3>9. ~(Len(Wire(t, f, body)) > InMax)
        <4>1. PICK v \in Nat : v = h + l
          BY <2>3
        <4>2. Len(Wire(t, f, body)) = v
          BY <2>2, <2>3, <4>1
        <4>3. ~(v > InMax)
          BY ONLY v \in Nat, <3>1, <4>1, SizesAssumption
        <4> QED
          BY <4>2, <4>3
      <3>10. Flow(d.in, d.skip, net.inside \o net.sock, broker.bytes, broker.sent, Append(handled, s))
             /\ Len(d.in) <= InMax
        BY <3>5, <3>8
      <3> QED
        BY <1>4, <1>6, <2>2, <2>4, <3>6, <3>8, <3>9, <3>10, HandleKeeps
    <2> QED
      BY <2>6, <2>7, <2>8
  <1>11. CASE ~(k.skip > 0)
    <2>1. k.skip = 0
      BY <1>5, <1>11 DEF SessionConnections
    <2>2. \/ header = NotYet /\ Len(k.in) < InMax
          \/ \E x \in Speech, t \in 1 .. 14, f \in 0 .. 15, body \in Seq(Bytes), h \in Nat :
               Comes(k, x, t, f, body, h)
      BY <1>2, <1>5, <2>1, HeaderComes
    <2> QED
      BY <1>9, <1>10, <1>11, <2>2
  <1> QED
    BY <1>8, <1>11

\* A callback returns: a new session starts to subscribe.
LEMMA CallbackKeeps ==
    ASSUME SessionInv, CallbackReturns
    PROVE  SessionInv'
  <1>1. /\ reader.at = "callback"
        /\ reader' = [reader EXCEPT !.at = "consuming", !.cont = "none"]
        /\ UNCHANGED <<session, lib, net, handled, why>>
    BY DEF CallbackReturns
  <1>2. session = "READY"
    <2>1. session \in Live
      BY <1>1, ReaderIs
    <2> QED
      BY <1>1, <2>1 DEF SessionInv, Phase, Live
  <1>3. reader' \in Readers /\ reader'.at = "consuming"
    BY <1>1, ReaderIs DEF Readers
  <1>4. CASE reader.cont = "connack"
    <2>1. PICK s : s = [subs EXCEPT !.filter_sent = 0, !.subscribe_id = 0]
      OBVIOUS
    <2>2. Pumped(mqtt_pump_subscribes(c, broker, s))
      BY <1>4, <2>1 DEF CallbackReturns
    <2>3. subs \in Subs /\ Len(subs.filters) <= FiltersMax
      BY DEF SessionInv, SessionTyped, Limits
    <2>4. s \in Subs /\ s.filters = subs.filters /\ s.filter_sent = 0 /\ s.subscribe_id = 0
      BY <2>1, <2>3 DEF Subs
    <2>5. Pump(c, broker, s)
      <3>1. PICK n \in Nat : n = Len(s.filters)
        BY <2>4, LenProperties DEF Subs
      <3>2. 0 <= n /\ 1 .. 0 = {}
        OBVIOUS
      <3> QED
        BY <2>4, <3>1, <3>2 DEF Pump
    <2>6. /\ handled \in Seq(Meanings) /\ handled # <<>>
      BY <1>2 DEF SessionInv, SessionTyped, Phase
    <2>7. /\ c \in SessionConnections /\ Len(c.in) <= InMax
          /\ Flow(c.in, c.skip, net.inside \o net.sock, broker.bytes, broker.sent, handled)
      BY ReaderIs
    <2>8. Len(s.filters) <= FiltersMax /\ (reader'.at \in {"idle", "reading"} => Len(c.in) < InMax)
      BY <1>3, <2>3, <2>4
    <2>9. session' = session /\ handled' = handled /\ UNCHANGED <<lib, net, why>>
      BY <1>1
    <2> QED
      BY <1>2, <1>3, <2>2, <2>4, <2>5, <2>6, <2>7, <2>8, <2>9, PumpKeeps
  <1>5. CASE reader.cont # "connack"
    <2>1. UNCHANGED <<c, broker, subs>>
      BY <1>5 DEF CallbackReturns
    <2>2. SessionTyped'
      BY <1>1, <1>3, <2>1 DEF SessionInv, SessionTyped
    <2>3. Limits'
      BY <1>1, <1>3, <2>1 DEF SessionInv, Limits
    <2>4. Phase'
      BY <1>1, <1>2, <2>1 DEF SessionInv, Phase
    <2>5. Subscribing'
      BY <1>1, <1>2, <1>5, <2>1 DEF SessionInv, Subscribing
    <2>6. SessionFlow'
      BY <1>1, <2>1 DEF SessionInv, SessionFlow
    <2> QED
      BY <2>2, <2>3, <2>4, <2>5, <2>6 DEF SessionInv
  <1> QED
    BY <1>4, <1>5

-----------------------------------------------------------------------------
(* The broker and the sockets. *)

\* A step outside of the client leaves the stream whole.
LEMMA OutsideKeeps ==
    ASSUME SessionInv, net' \in Nets, broker' \in Brokers, broker'.asked = broker.asked,
           UNCHANGED <<session, c, subs, reader, lib, handled, why>>,
           Flow(c.in, c.skip, net'.inside \o net'.sock, broker'.bytes, broker'.sent, handled),
           session \in {"WAITING", "SECURING"} =>
             broker' = broker /\ net'.inside = net.inside /\ net'.sock = net.sock,
           session = "GREETING" => Greeted',
           session = "READY" => Quiet(c, broker') /\ OneConnack(broker'.sent)
    PROVE  SessionInv'
  <1>1. SessionTyped'
    BY DEF SessionInv, SessionTyped
  <1>2. Limits'
    BY DEF SessionInv, Limits
  <1>3. Phase'
    <2>1. CASE session \in {"WAITING", "SECURING"}
      BY <2>1 DEF SessionInv, Phase
    <2>2. CASE session = "GREETING"
      BY <2>2 DEF SessionInv, Phase
    <2>3. CASE session = "READY"
      BY <2>3 DEF SessionInv, Phase
    <2> QED
      BY <2>1, <2>2, <2>3 DEF SessionInv, SessionTyped
  <1>4. Subscribing'
    <2>1. AskedIn(c', broker') = AskedIn(c, broker)
      BY DEF AskedIn
    <2>2. Pump(c, broker, subs) => Pump(c', broker', subs')
      BY <2>1 DEF Pump
    <2> QED
      BY <2>2 DEF SessionInv, Subscribing
  <1>5. SessionFlow'
    BY DEF SessionFlow
  <1> QED
    BY <1>1, <1>2, <1>3, <1>4, <1>5 DEF SessionInv

\* One that is none of the broker's.
LEMMA NetKeeps ==
    ASSUME SessionInv, net' \in Nets,
           UNCHANGED <<session, c, subs, reader, lib, broker, handled, why>>,
           Flow(c.in, c.skip, net'.inside \o net'.sock, broker.bytes, broker.sent, handled),
           session \in {"WAITING", "SECURING"} => net'.inside = net.inside /\ net'.sock = net.sock
    PROVE  SessionInv'
  <1>1. session = "GREETING" => Greeted'
    BY DEF SessionInv, Phase, Greeted
  <1>2. session = "READY" => Quiet(c, broker') /\ OneConnack(broker'.sent)
    BY DEF SessionInv, Phase
  <1>3. broker' = broker /\ broker' \in Brokers /\ broker'.asked = broker.asked
    BY ReaderIs
  <1> QED
    BY <1>1, <1>2, <1>3, OutsideKeeps

\* What a broker is that has said x.
LEMMA SaysIs ==
    ASSUME NEW b \in Brokers, NEW x \in Speech, NEW d, d = Says(b, x.bytes, x.seen)
    PROVE  /\ d \in Brokers /\ d.heard = b.heard /\ d.asked = b.asked
           /\ d.bytes = b.bytes \o x.bytes /\ d.sent = Append(b.sent, x.seen)
  <1>1. x.bytes \in Seq(Bytes) /\ x.seen \in Meanings
    BY SpeechBytes DEF Meanings
  <1>2. b.bytes \in Seq(Bytes) /\ b.sent \in Seq(Meanings)
    BY DEF Brokers
  <1>3. PICK bytes, sent : bytes = b.bytes \o x.bytes /\ sent = Append(b.sent, x.seen)
    OBVIOUS
  <1>4. bytes \in Seq(Bytes) /\ sent \in Seq(Meanings)
    BY <1>1, <1>2, <1>3, ConcatProperties, AppendProperties
  <1>5. d = [b EXCEPT !.bytes = bytes, !.sent = sent]
    BY <1>3 DEF Says
  <1> QED
    BY <1>3, <1>4, <1>5 DEF Brokers

\* Whatever else the broker says, it accepts a session once.
LEMMA OneConnackSaid ==
    ASSUME NEW sent \in Seq(Meanings), OneConnack(sent), NEW m \in Meanings, m.type # CONNACK
    PROVE  OneConnack(Append(sent, m))
  <1>1. PICK n \in Nat : n = Len(sent)
    BY LenProperties
  <1>2. PICK more : more = Append(sent, m)
    OBVIOUS
  <1>3. Len(more) = n + 1 /\ more[n + 1] = m /\ \A i \in 1 .. n : more[i] = sent[i]
    BY <1>1, <1>2
  <1>4. \A i \in 2 .. n : sent[i].type # CONNACK
    BY <1>1 DEF OneConnack
  <1>5. \A i \in 2 .. n + 1 : i = n + 1 \/ (i \in 2 .. n /\ i \in 1 .. n)
    OBVIOUS
  <1>6. \A i \in 2 .. n + 1 : more[i].type # CONNACK
    BY <1>3, <1>4, <1>5
  <1> QED
    BY <1>2, <1>3, <1>6 DEF OneConnack

\* The broker answers as the packet asks: a CONNACK to the greeting, and to nothing else.
LEMMA AnswerIs ==
    ASSUME NEW b, NEW p \in Ours, NEW a \in Asks(p), NEW d \in Answer(b, a)
    PROVE  \E x \in Speech : d = Says(b, x.bytes, x.seen) /\ (p = Greeting <=> x.seen.type = CONNACK)
  <1>0. CONNACK = 2 /\ PINGRESP = 13 /\ SUBACK = 9
    BY DEF CONNACK, PINGRESP, SUBACK
  <1>1. \/ a.kind = "connack" /\ p = Greeting
        \/ a.kind = "pingresp" /\ p # Greeting
        \/ a.kind = "suback" /\ p # Greeting /\ a.id \in 1 .. FiltersMax
    BY AsksIs
  <1>2. CASE a.kind = "connack"
    <2>1. PICK code \in {0, 5} : d = Says(b, Wire(CONNACK, 0, <<0, code>>), Seen(CONNACK, <<code>>))
      BY <1>2 DEF Answer
    <2>2. PICK x : x = [bytes |-> Wire(CONNACK, 0, <<0, code>>), seen |-> Seen(CONNACK, <<code>>)]
      OBVIOUS
    <2>3. x \in Speech
      BY <2>2 DEF Speech
    <2>4. x.bytes = Wire(CONNACK, 0, <<0, code>>) /\ x.seen = Seen(CONNACK, <<code>>)
          /\ x.seen.type = CONNACK
      BY <2>2 DEF Seen
    <2> QED
      BY <1>1, <1>2, <2>1, <2>3, <2>4
  <1>3. CASE a.kind = "pingresp"
    <2>1. d = Says(b, Wire(PINGRESP, 0, <<>>), Seen(PINGRESP, <<>>))
      BY <1>3 DEF Answer
    <2>2. PICK x : x = [bytes |-> Wire(PINGRESP, 0, <<>>), seen |-> Seen(PINGRESP, <<>>)]
      OBVIOUS
    <2>3. x \in Speech
      BY <2>2 DEF Speech
    <2>4. x.bytes = Wire(PINGRESP, 0, <<>>) /\ x.seen = Seen(PINGRESP, <<>>)
          /\ x.seen.type = PINGRESP
      BY <2>2 DEF Seen
    <2> QED
      BY <1>0, <1>1, <1>3, <2>1, <2>3, <2>4
  <1>4. CASE a.kind = "suback"
    <2>1. PICK code \in {0, 128} :
            d = Says(b, Wire(SUBACK, 0, <<0, a.id, code>>), Seen(SUBACK, <<a.id, code>>))
      BY <1>4 DEF Answer
    <2>2. PICK id \in 1 .. FiltersMax : id = a.id
      BY <1>1, <1>4
    <2>3. PICK x : x = [bytes |-> Wire(SUBACK, 0, <<0, id, code>>), seen |-> Seen(SUBACK, <<id, code>>)]
      BY ZenonT(60)
    <2>4. x \in Speech
      <3>1. PICK codes : codes = {0, 128}
        OBVIOUS
      <3>2. PICK y : y = <<id, code>>
        OBVIOUS
      <3>3. y \in (1 .. FiltersMax) \X codes /\ y[1] = id /\ y[2] = code
        BY <3>1, <3>2
      <3>4. x = [bytes |-> Wire(SUBACK, 0, <<0, y[1], y[2]>>), seen |-> Seen(SUBACK, <<y[1], y[2]>>)]
        BY <2>3, <3>3
      <3>5. x \in {[bytes |-> Wire(SUBACK, 0, <<0, z[1], z[2]>>), seen |-> Seen(SUBACK, <<z[1], z[2]>>)] :
                     z \in (1 .. FiltersMax) \X {0, 128}}
        BY <3>1, <3>3, <3>4, Zenon
      <3> QED
        BY <3>5 DEF Speech
    <2>5. x.bytes = Wire(SUBACK, 0, <<0, id, code>>) /\ x.seen = Seen(SUBACK, <<id, code>>)
          /\ x.seen.type = SUBACK
      BY <2>3 DEF Seen
    <2> QED
      BY <1>0, <1>1, <1>4, <2>1, <2>2, <2>4, <2>5
  <1> QED
    BY <1>1, <1>2, <1>3, <1>4

\* The broker takes the next packet it has been sent, and answers it or not.
LEMMA AnswersKeeps ==
    ASSUME SessionInv, Answers
    PROVE  SessionInv'
  <1>1. /\ session \in Live /\ broker.heard # <<>>
        /\ UNCHANGED <<session, c, subs, reader, lib, net, handled, why>>
    BY DEF Answers, Open
  <1>2. broker \in Brokers /\ net \in Nets /\ c \in SessionConnections
        /\ Flow(c.in, c.skip, net.inside \o net.sock, broker.bytes, broker.sent, handled)
    BY ReaderIs
  <1>3. PICK heard \in Seq(Ours), n \in Nat : heard = broker.heard /\ n = Len(heard) /\ n # 0
    <2>1. broker.heard \in Seq(Ours)
      BY <1>2 DEF Brokers
    <2> QED
      BY <1>1, <2>1, EmptySeq
  <1>4. PICK p, rest : p = Head(heard) /\ rest = Tail(heard)
    OBVIOUS
  <1>5. p \in Ours /\ p = heard[1] /\ rest \in Seq(Ours) /\ Len(rest) = n - 1
        /\ \A i \in 1 .. n - 1 : rest[i] = heard[i + 1]
    BY <1>1, <1>3, <1>4
  <1>6. PICK b : b = [broker EXCEPT !.heard = rest]
    OBVIOUS
  <1>7. /\ b \in Brokers /\ b.heard = rest /\ b.asked = broker.asked
        /\ b.bytes = broker.bytes /\ b.sent = broker.sent
    BY <1>2, <1>5, <1>6 DEF Brokers
  <1>8. IF Asks(p) = {} THEN broker' = b ELSE \E a \in Asks(p) : broker' \in Answer(b, a)
    BY <1>3, <1>4, <1>6 DEF Answers
  <1>9. session = "GREETING" =>
          p = Greeting /\ rest = <<>> /\ broker.sent = <<>> /\ c.out = <<>>
    <2>1. ASSUME session = "GREETING"
          PROVE  p = Greeting /\ rest = <<>> /\ broker.sent = <<>> /\ c.out = <<>>
      <3>1. Greeted
        BY <2>1 DEF SessionInv, Phase
      <3>2. PICK g : g = <<Greeting>>
        OBVIOUS
      <3>3. heard = g /\ broker.sent = <<>> /\ c.out = <<>>
        BY <1>1, <1>3, <3>1, <3>2 DEF Greeted
      <3>4. Len(g) = 1 /\ g[1] = Greeting
        BY <3>2
      <3>5. n = 1 /\ p = Greeting
        BY <1>3, <1>5, <3>3, <3>4
      <3>6. Len(rest) = 0
        BY <1>5, <3>5
      <3> QED
        BY <1>5, <3>3, <3>5, <3>6, EmptySeq
    <2> QED
      BY <2>1
  <1>10. session = "READY" => p # Greeting /\ Quiet(c, b) /\ OneConnack(broker.sent)
    <2>1. ASSUME session = "READY"
          PROVE  p # Greeting /\ Quiet(c, b) /\ OneConnack(broker.sent)
      <3>1. Quiet(c, broker) /\ OneConnack(broker.sent)
        BY <2>1 DEF SessionInv, Phase
      <3>2. \A i \in 1 .. n : heard[i] # Greeting
        BY <1>3, <3>1 DEF Quiet
      <3>3. 1 \in 1 .. n /\ \A i \in 1 .. n - 1 : i + 1 \in 1 .. n
        BY <1>3
      <3>4. \A i \in 1 .. n - 1 : rest[i] # Greeting
        BY <1>5, <3>2, <3>3
      <3>5. Quiet(c, b)
        BY <1>5, <1>7, <3>1, <3>4 DEF Quiet
      <3> QED
        BY <1>5, <3>1, <3>2, <3>3, <3>5
    <2> QED
      BY <2>1
  <1>11. CASE Asks(p) = {}
    <2>1. broker' = b
      BY <1>8, <1>11
    <2>2. p # Greeting
      <3>1. Asks(Greeting) = {[kind |-> "connack"]}
        BY DEF Asks
      <3>2. Asks(Greeting) # {}
        BY <3>1
      <3> QED
        BY <1>11, <3>2
    <2>3. session = "READY"
      BY <1>1, <1>9, <2>2 DEF Live
    <2>4. /\ net' \in Nets /\ net' = net /\ broker' \in Brokers /\ broker'.asked = broker.asked
          /\ broker'.bytes = broker.bytes /\ broker'.sent = broker.sent
          /\ Quiet(c, broker') /\ OneConnack(broker'.sent)
      BY <1>1, <1>2, <1>7, <1>10, <2>1, <2>3
    <2> QED
      BY <1>1, <1>2, <2>3, <2>4, OutsideKeeps
  <1>12. CASE Asks(p) # {}
    <2>1. PICK a \in Asks(p) : broker' \in Answer(b, a)
      BY <1>8, <1>12
    <2>2. PICK x \in Speech :
            broker' = Says(b, x.bytes, x.seen) /\ (p = Greeting <=> x.seen.type = CONNACK)
      BY <1>5, <2>1, AnswerIs
    <2>3. /\ broker' \in Brokers /\ broker'.heard = rest /\ broker'.asked = broker.asked
          /\ broker'.bytes = broker.bytes \o x.bytes /\ broker'.sent = Append(broker.sent, x.seen)
      <3>1. PICK d : d = broker'
        OBVIOUS
      <3>2. d = Says(b, x.bytes, x.seen)
        BY <2>2, <3>1
      <3>3. /\ d \in Brokers /\ d.heard = b.heard /\ d.asked = b.asked
            /\ d.bytes = b.bytes \o x.bytes /\ d.sent = Append(b.sent, x.seen)
        BY <1>7, <3>2, SaysIs
      <3> QED
        BY <1>7, <3>1, <3>3
    <2>4. PICK in \in Seq(Bytes), skip \in Nat : in = c.in /\ skip = c.skip
      BY <1>2 DEF SessionConnections
    <2>5. PICK bytes \in Seq(Bytes), sent \in Seq(Meanings) : bytes = broker.bytes /\ sent = broker.sent
      BY <1>2 DEF Brokers
    <2>6. PICK recs \in Seq(Records), hnd \in Seq(Meanings) :
            recs = net.inside \o net.sock /\ hnd = handled
      BY <1>2, ConcatProperties DEF Nets, SessionInv, SessionTyped
    <2>7. Flow(in, skip, recs, bytes \o x.bytes, Append(sent, x.seen), hnd)
      <3>1. Flow(in, skip, recs, bytes, sent, hnd)
        BY <1>2, <2>4, <2>5, <2>6
      <3> QED
        BY <3>1, FlowSays
    <2>8. Flow(c.in, c.skip, net'.inside \o net'.sock, broker'.bytes, broker'.sent, handled)
      BY <1>1, <2>3, <2>4, <2>5, <2>6, <2>7
    <2>9. session = "GREETING" => Greeted'
      <3>1. ASSUME session = "GREETING" PROVE Greeted'
        <4>1. p = Greeting /\ rest = <<>> /\ broker.sent = <<>> /\ c.out = <<>>
          BY <1>9, <3>1
        <4>2. PICK more : more = Append(broker.sent, x.seen)
          OBVIOUS
        <4>3. x.seen \in Meanings /\ sent = <<>>
          BY <2>5, <4>1 DEF Meanings
        <4>4. more # <<>> /\ Len(more) = 1 /\ more[1] = x.seen
          BY <2>5, <4>2, <4>3
        <4>5. 2 .. 1 = {}
          OBVIOUS
        <4>6. more[1].type = CONNACK /\ OneConnack(more)
          BY <2>2, <4>1, <4>4, <4>5 DEF OneConnack
        <4>7. broker'.sent = more /\ broker'.heard = <<>> /\ c'.out = <<>>
          BY <1>1, <2>3, <4>1, <4>2
        <4> QED
          BY <4>4, <4>6, <4>7 DEF Greeted
      <3> QED
        BY <3>1
    <2>10. session = "READY" => Quiet(c, broker') /\ OneConnack(broker'.sent)
      <3>1. ASSUME session = "READY" PROVE Quiet(c, broker') /\ OneConnack(broker'.sent)
        <4>1. x.seen \in Meanings /\ x.seen.type # CONNACK /\ OneConnack(sent)
          BY <1>10, <2>2, <2>5, <3>1 DEF Meanings
        <4>2. OneConnack(Append(sent, x.seen))
          BY <4>1, OneConnackSaid
        <4>3. Quiet(c, broker')
          BY <1>7, <1>10, <2>3, <3>1 DEF Quiet
        <4> QED
          BY <2>3, <2>5, <4>2, <4>3
      <3> QED
        BY <3>1
    <2>11. net' \in Nets /\ ~(session \in {"WAITING", "SECURING"})
      BY <1>1, <1>2 DEF Live
    <2> QED
      BY <1>1, <2>3, <2>8, <2>9, <2>10, <2>11, OutsideKeeps
  <1> QED
    BY <1>11, <1>12

\* A message of the broker's, in a session it has accepted.
LEMMA PublishesKeeps ==
    ASSUME SessionInv, NEW m \in Messages, Publishes(m)
    PROVE  SessionInv'
  <1>1. /\ session \in Live /\ broker.sent # <<>>
        /\ broker' = Says(broker, PacketOf(m), SeenOf(m))
        /\ UNCHANGED <<session, c, subs, reader, lib, net, handled, why>>
    BY DEF Publishes, Open
  <1>2. broker \in Brokers /\ net \in Nets /\ c \in SessionConnections
        /\ Flow(c.in, c.skip, net.inside \o net.sock, broker.bytes, broker.sent, handled)
    BY ReaderIs
  <1>3. PICK x : x = [bytes |-> PacketOf(m), seen |-> SeenOf(m)]
    OBVIOUS
  <1>4. x \in Speech /\ x.bytes = PacketOf(m) /\ x.seen = SeenOf(m)
    BY <1>3 DEF Speech
  <1>5. x.seen \in Meanings /\ x.seen.type # CONNACK
    <2>1. SeenOf(m).type # CONNACK
      BY DEF SeenOf, Skipped, Seen, CONNACK, PUBLISH
    <2> QED
      BY <1>4, <2>1 DEF Meanings
  <1>6. /\ broker' \in Brokers /\ broker'.heard = broker.heard /\ broker'.asked = broker.asked
        /\ broker'.bytes = broker.bytes \o x.bytes /\ broker'.sent = Append(broker.sent, x.seen)
    <2>1. PICK d : d = broker'
      OBVIOUS
    <2>2. d = Says(broker, x.bytes, x.seen)
      BY <1>1, <1>4, <2>1
    <2> QED
      BY <1>2, <1>4, <2>1, <2>2, SaysIs
  <1>7. PICK in \in Seq(Bytes), skip \in Nat : in = c.in /\ skip = c.skip
    BY <1>2 DEF SessionConnections
  <1>8. PICK bytes \in Seq(Bytes), sent \in Seq(Meanings) : bytes = broker.bytes /\ sent = broker.sent
    BY <1>2 DEF Brokers
  <1>9. PICK recs \in Seq(Records), hnd \in Seq(Meanings) :
          recs = net.inside \o net.sock /\ hnd = handled
    BY <1>2, ConcatProperties DEF Nets, SessionInv, SessionTyped
  <1>10. Flow(in, skip, recs, bytes \o x.bytes, Append(sent, x.seen), hnd)
    <2>1. Flow(in, skip, recs, bytes, sent, hnd)
      BY <1>2, <1>7, <1>8, <1>9
    <2> QED
      BY <1>4, <2>1, FlowSays
  <1>11. Flow(c.in, c.skip, net'.inside \o net'.sock, broker'.bytes, broker'.sent, handled)
    BY <1>1, <1>6, <1>7, <1>8, <1>9, <1>10
  <1>12. PICK more : more = Append(sent, x.seen)
    OBVIOUS
  <1>13. OneConnack(sent) => OneConnack(more)
    BY <1>5, <1>12, OneConnackSaid
  <1>14. session = "GREETING" => Greeted'
    <2>1. ASSUME session = "GREETING" PROVE Greeted'
      <3>1. Greeted
        BY <2>1 DEF SessionInv, Phase
      <3>2. /\ c.out = <<>> /\ broker.heard = <<>> /\ sent[1].type = CONNACK /\ OneConnack(sent)
        BY <1>1, <1>8, <3>1 DEF Greeted
      <3>3. sent # <<>>
        BY <1>1, <1>8
      <3>4. more # <<>> /\ more[1] = sent[1]
        <4>1. PICK n \in Nat : n = Len(sent) /\ n # 0
          BY <3>3, EmptySeq
        <4>2. 1 \in 1 .. n
          BY <4>1
        <4> QED
          BY <1>5, <1>12, <4>1, <4>2, AppendProperties
      <3>5. broker'.sent = more /\ broker'.heard = <<>> /\ c'.out = <<>>
        BY <1>1, <1>6, <1>8, <1>12, <3>2
      <3> QED
        BY <1>13, <3>2, <3>4, <3>5 DEF Greeted
    <2> QED
      BY <2>1
  <1>15. session = "READY" => Quiet(c, broker') /\ OneConnack(broker'.sent)
    <2>1. ASSUME session = "READY" PROVE Quiet(c, broker') /\ OneConnack(broker'.sent)
      <3>1. Quiet(c, broker) /\ OneConnack(broker.sent)
        BY <2>1 DEF SessionInv, Phase
      <3> QED
        BY <1>6, <1>8, <1>12, <1>13, <3>1 DEF Quiet
    <2> QED
      BY <2>1
  <1>16. net' \in Nets /\ ~(session \in {"WAITING", "SECURING"})
    BY <1>1, <1>2 DEF Live
  <1> QED
    BY <1>1, <1>6, <1>11, <1>14, <1>15, <1>16, OutsideKeeps

\* A record on the wire comes behind those that are under way.
LEMMA OnWireIs ==
    ASSUME SessionInv, NEW r \in Records, OnWire(r)
    PROVE  /\ net' \in Nets
           /\ net'.inside \o net'.sock = Append(net.inside \o net.sock, r)
  <1>1. net \in Nets
    BY ReaderIs
  <1>2. PICK inside \in Seq(Records), sock \in Seq(Records) : inside = net.inside /\ sock = net.sock
    BY <1>1 DEF Nets
  <1>3. PICK more : more = Append(sock, r)
    OBVIOUS
  <1>4. more \in Seq(Records)
    BY <1>3, AppendProperties
  <1>5. net' = [net EXCEPT !.sock = more]
    BY <1>2, <1>3 DEF OnWire
  <1>6. net' \in Nets /\ net'.inside = inside /\ net'.sock = more
    BY <1>1, <1>2, <1>4, <1>5 DEF Nets
  <1>7. inside \o more = Append(inside \o sock, r)
    BY <1>3
  <1> QED
    BY <1>2, <1>6, <1>7

\* What the broker has written leaves, in whole or in part.
LEMMA LeavesKeeps ==
    ASSUME SessionInv, NEW n \in 0 .. Len(broker.bytes), Leaves(n)
    PROVE  SessionInv'
  <1>1. /\ session \in Live /\ OnWire(Data(SubSeq(broker.bytes, 1, n)))
        /\ broker' = [broker EXCEPT !.bytes = SubSeq(broker.bytes, n + 1, Len(broker.bytes))]
        /\ UNCHANGED <<session, c, subs, reader, lib, handled, why>>
    BY DEF Leaves, Open
  <1>2. broker \in Brokers /\ net \in Nets /\ c \in SessionConnections
        /\ Flow(c.in, c.skip, net.inside \o net.sock, broker.bytes, broker.sent, handled)
    BY ReaderIs
  <1>3. PICK in \in Seq(Bytes), skip \in Nat : in = c.in /\ skip = c.skip
    BY <1>2 DEF SessionConnections
  <1>4. PICK bytes \in Seq(Bytes), sent \in Seq(Meanings) : bytes = broker.bytes /\ sent = broker.sent
    BY <1>2 DEF Brokers
  <1>5. PICK recs \in Seq(Records) : recs = net.inside \o net.sock
    BY <1>2, ConcatProperties DEF Nets
  <1>6. PICK r, rest : r = Data(SubSeq(bytes, 1, n)) /\ rest = SubSeq(bytes, n + 1, Len(bytes))
    OBVIOUS
  <1>7. /\ r \in Records /\ rest \in Seq(Bytes)
        /\ Flow(in, skip, Append(recs, r), rest, sent, handled)
    <2>1. Flow(in, skip, recs, bytes, sent, handled)
      BY <1>2, <1>3, <1>4, <1>5
    <2>2. n \in 0 .. Len(bytes)
      BY <1>4
    <2> QED
      BY <1>6, <2>1, <2>2, FlowLeaves
  <1>8. OnWire(r)
    BY <1>1, <1>4, <1>6
  <1>9. net' \in Nets /\ net'.inside \o net'.sock = Append(recs, r)
    BY <1>5, <1>7, <1>8, OnWireIs
  <1>10. broker' = [broker EXCEPT !.bytes = rest]
    BY <1>1, <1>4, <1>6
  <1>11. /\ broker' \in Brokers /\ broker'.heard = broker.heard /\ broker'.asked = broker.asked
         /\ broker'.bytes = rest /\ broker'.sent = sent
    BY <1>2, <1>4, <1>7, <1>10 DEF Brokers
  <1>12. Flow(c.in, c.skip, net'.inside \o net'.sock, broker'.bytes, broker'.sent, handled)
    BY <1>3, <1>7, <1>9, <1>11
  <1>13. session = "GREETING" => Greeted'
    <2>1. ASSUME session = "GREETING" PROVE Greeted'
      <3>1. Greeted
        BY <2>1 DEF SessionInv, Phase
      <3>2. c'.out = c.out /\ broker'.heard = broker.heard /\ broker'.sent = broker.sent
        BY <1>1, <1>4, <1>11
      <3> QED
        BY <3>1, <3>2 DEF Greeted
    <2> QED
      BY <2>1
  <1>14. session = "READY" => Quiet(c, broker') /\ OneConnack(broker'.sent)
    <2>1. ASSUME session = "READY" PROVE Quiet(c, broker') /\ OneConnack(broker'.sent)
      <3>1. Quiet(c, broker) /\ OneConnack(broker.sent)
        BY <2>1 DEF SessionInv, Phase
      <3> QED
        BY <1>4, <1>11, <3>1 DEF Quiet
    <2> QED
      BY <2>1
  <1>15. ~(session \in {"WAITING", "SECURING"})
    BY <1>1 DEF Live
  <1> QED
    BY <1>1, <1>9, <1>11, <1>12, <1>13, <1>14, <1>15, OutsideKeeps

\* A record without bytes joins the others; a socket fills or drains.
LEMMA WireKeeps ==
    ASSUME SessionInv, Tickets \/ Requests \/ Closes \/ SocketFills \/ SocketDrains
    PROVE  SessionInv'
  <1>1. net \in Nets /\ c \in SessionConnections /\ broker \in Brokers
        /\ Flow(c.in, c.skip, net.inside \o net.sock, broker.bytes, broker.sent, handled)
    BY ReaderIs
  <1>2. CASE Tickets \/ Requests \/ Closes
    <2>1. PICK kind \in {"ticket", "request", "eof"} :
            /\ session \in Live /\ OnWire(Record(kind))
            /\ UNCHANGED <<session, c, subs, reader, lib, broker, handled, why>>
      BY <1>2 DEF Tickets, Requests, Closes, Open
    <2>2. PICK r : r = Record(kind)
      OBVIOUS
    <2>3. r \in Records /\ r.bytes = <<>>
      BY <2>2, EmptySeq DEF Record, Records, Kinds
    <2>4. PICK in \in Seq(Bytes), skip \in Nat : in = c.in /\ skip = c.skip
      BY <1>1 DEF SessionConnections
    <2>5. PICK bytes \in Seq(Bytes) : bytes = broker.bytes
      BY <1>1 DEF Brokers
    <2>6a. PICK recs \in Seq(Records) : recs = net.inside \o net.sock
      BY <1>1, ConcatProperties DEF Nets
    <2>6b. PICK sent : sent = broker.sent
      OBVIOUS
    <2>6. recs = net.inside \o net.sock /\ sent = broker.sent
      BY <2>6a, <2>6b
    <2>7. Flow(in, skip, Append(recs, r), bytes, sent, handled)
      <3>1. Flow(in, skip, recs, bytes, sent, handled)
        BY <1>1, <2>4, <2>5, <2>6
      <3> QED
        BY <2>3, <3>1, FlowEmpty
    <2>8. net' \in Nets /\ net'.inside \o net'.sock = Append(recs, r)
      BY <2>1, <2>2, <2>3, <2>6, OnWireIs
    <2>9. Flow(c.in, c.skip, net'.inside \o net'.sock, broker.bytes, broker.sent, handled)
      BY <2>4, <2>5, <2>6, <2>7, <2>8
    <2>10. ~(session \in {"WAITING", "SECURING"})
      BY <2>1 DEF Live
    <2> QED
      BY <2>1, <2>8, <2>9, <2>10, NetKeeps
  <1>3. CASE SocketFills \/ SocketDrains
    <2>1. PICK w \in BOOLEAN :
            /\ net' = [net EXCEPT !.writable = w]
            /\ UNCHANGED <<session, c, subs, reader, lib, broker, handled, why>>
      BY <1>3 DEF SocketFills, SocketDrains
    <2>2. net' \in Nets /\ net'.inside = net.inside /\ net'.sock = net.sock
      BY <1>1, <2>1 DEF Nets
    <2> QED
      BY <1>1, <2>1, <2>2, NetKeeps
  <1> QED
    BY <1>2, <1>3

-----------------------------------------------------------------------------
(* The theorems. *)

\* The invariant holds before the first session.
LEMMA SessionStarts ==
    ASSUME SessionInit
    PROVE  SessionInv
  <1>1. lib \in Process
    <2>1. PICK given \in BOOLEAN : lib = set_roots(NewProcess, given)
      BY DEF SessionInit
    <2> QED
      BY <2>1 DEF set_roots, NewProcess, Process
  <1>2. c \in SessionConnections /\ c.in = <<>> /\ c.skip = 0 /\ c.out = <<>>
    BY NothingIs DEF SessionInit, Unconnected
  <1>3. subs \in Subs /\ subs.filters = <<>> /\ subs.filter_sent = 0 /\ subs.subscribe_id = 0
    BY EmptySeq DEF SessionInit, Subs
  <1>4. reader = Idle /\ net = NoNet /\ broker = NoBroker /\ handled = <<>> /\ session = "WAITING"
        /\ why = "none"
    BY DEF SessionInit
  <1>5. SessionTyped
    BY <1>1, <1>2, <1>3, <1>4, NothingIs DEF SessionTyped
  <1>6. Limits
    <2>1. Len(<<>>) = 0 /\ 0 <= InMax /\ 0 < InMax /\ 0 <= OutMax /\ 0 <= FiltersMax
      BY SizesAssumption, BufferAssumption
    <2> QED
      BY <1>2, <1>3, <2>1 DEF Limits
  <1>7. net.inside = <<>> /\ net.sock = <<>> /\ broker.bytes = <<>> /\ broker.sent = <<>>
    BY <1>4 DEF NoNet, NoBroker
  <1>8. Phase
    BY <1>2, <1>4, <1>7 DEF Phase
  <1>9. Subscribing
    BY <1>3, <1>4 DEF Subscribing
  <1>10. SessionFlow
    BY <1>2, <1>4, <1>7, NothingIs, FlowNone DEF SessionFlow
  <1> QED
    BY <1>5, <1>6, <1>8, <1>9, <1>10 DEF SessionInv

\* Every step keeps it.
LEMMA SessionSteps ==
    ASSUME SessionInv, [SessionNext]_session_vars
    PROVE  SessionInv'
  <1>1. ASSUME NEW f \in Filters, Subscribe(f) PROVE SessionInv'
    BY <1>1, SubscribeKeeps
  <1>2. CASE ClearFilters
    BY <1>2, ClearKeeps
  <1>3. CASE PublishMessage
    BY <1>3, PublishMessageKeeps
  <1>4. CASE TickKeepalive
    BY <1>4, TickKeepaliveKeeps
  <1>5. CASE ConnectPlain
    BY <1>5, ConnectPlainKeeps
  <1>6. CASE ConnectSecure
    BY <1>6, ConnectSecureKeeps
  <1>7. CASE SecureSession
    BY <1>7, SecureKeeps
  <1>8. CASE SocketReadable \/ TickReads \/ SocketWritable \/ HangsUp
    BY <1>8, EventKeeps
  <1>9. CASE Read
    BY <1>9, ReadKeeps
  <1>10. CASE Consume
    BY <1>10, ConsumeKeeps
  <1>11. CASE CallbackReturns
    BY <1>11, CallbackKeeps
  <1>12. CASE Answers
    BY <1>12, AnswersKeeps
  <1>13. ASSUME NEW m \in Messages, Publishes(m) PROVE SessionInv'
    BY <1>13, PublishesKeeps
  <1>14. CASE Writes \/ Splits
    <2>1. PICK len \in Nat : len = Len(broker.bytes)
      BY ReaderIs, LenProperties DEF Brokers
    <2>2. PICK n \in 0 .. len : Leaves(n)
      BY <1>14, <2>1 DEF Writes, Splits
    <2> QED
      BY <2>1, <2>2, LeavesKeeps
  <1>15. CASE Tickets \/ Requests \/ Closes \/ SocketFills \/ SocketDrains
    BY <1>15, WireKeeps
  <1>16. CASE UNCHANGED session_vars
    BY <1>16 DEF session_vars, SessionInv, SessionTyped, Limits, Phase, Greeted, Subscribing, SessionFlow
  <1> QED
    BY <1>1, <1>2, <1>3, <1>4, <1>5, <1>6, <1>7, <1>8, <1>9, <1>10, <1>11, <1>12, <1>13,
       <1>14, <1>15, <1>16 DEF SessionNext

\* The inductive invariant of the receiving side: buffer, records and the broker's
\* unsent bytes are one stream of the packets not yet handled, and the filters are
\* counted off as they are asked for (mqtt_read_ready(), mqtt_consume() and
\* mqtt_pump_subscribes()).
THEOREM SessionInvariant == SessionSafeSpec => []SessionInv
  <1>1. SessionInit => SessionInv
    BY SessionStarts
  <1>2. SessionInv /\ [SessionNext]_session_vars => SessionInv'
    BY SessionSteps
  <1> QED
    BY <1>1, <1>2, PTL DEF SessionSafeSpec

\* What is left of the packets sent, once some are handled, comes behind those.
LEMMA HandledIsPrefix ==
    ASSUME SessionInv
    PROVE  IsPrefix(handled, broker.sent)
  <1>1. PICK sent \in Seq(Meanings), n \in Nat : sent = broker.sent /\ n = Len(sent)
    BY ReaderIs, LenProperties DEF Brokers
  <1>2. PICK hnd \in Seq(Meanings), m \in Nat : hnd = handled /\ m = Len(hnd)
    BY LenProperties DEF SessionInv, SessionTyped
  <1>3. PICK packets \in Seq(Speech), q \in Nat : Remaining(packets, sent, hnd) /\ q = Len(packets)
    <2>1. Flow(c.in, c.skip, net.inside \o net.sock, broker.bytes, sent, hnd)
      BY <1>1, <1>2, ReaderIs
    <2>2. PICK packets \in Seq(Speech) : Remaining(packets, sent, hnd)
      BY <2>1 DEF Flow, FlowOf
    <2> QED
      BY <2>2, LenProperties
  <1>4. n = m + q /\ \A i \in 1 .. m : hnd[i] = sent[i]
    BY <1>1, <1>2, <1>3 DEF Remaining
  <1>5. m <= n
    BY <1>4
  <1>6. PICK head : head = SubSeq(sent, 1, m)
    OBVIOUS
  <1>7. head \in Seq(Meanings) /\ Len(head) = m /\ \A i \in 1 .. m : head[i] = sent[i]
    BY <1>1, <1>5, <1>6
  <1>8. hnd = head
    BY <1>2, <1>4, <1>7, SeqEqual
  <1> QED
    BY <1>1, <1>2, <1>5, <1>6, <1>8 DEF IsPrefix

\* The reader makes of the stream the packets the broker sent, each once and in
\* order, whatever the records, the reads and the size of the buffer cut it into; it
\* never waits with a full buffer, and no good stream ends a session as a bad one
\* (mqtt_consume()).
THEOREM FramesAreIntact == SessionSafeSpec => []FramesIntact
  <1>1. SessionInv => FramesIntact
    <2> SUFFICES ASSUME SessionInv PROVE FramesIntact
      OBVIOUS
    <2>1. SessionTypeOK
      BY DEF SessionInv, SessionTyped, Limits, SessionConnections, SessionTypeOK, Live
    <2>2. why # "protocol" /\ ~broker.nonsense
      BY DEF SessionInv, SessionTyped, Brokers
    <2>3. reader.at \in {"idle", "reading"} => Len(c.in) < InMax
      BY ReaderIs
    <2> QED
      BY <2>1, <2>2, <2>3, HandledIsPrefix DEF FramesIntact
  <1> QED
    BY <1>1, SessionInvariant, PTL

\* No filter is passed over, and while one is left a SUBSCRIBE is in flight unless it
\* found no room (mqtt_pump_subscribes(), mqtt_on_suback()).
THEOREM FiltersAreAsked == SessionSafeSpec => []FiltersAsked
  <1>1. SessionInv => FiltersAsked
    <2> SUFFICES ASSUME SessionInv, session = "READY", reader.at = "idle"
                 PROVE  /\ subs.filter_sent <= Len(subs.filters)
                        /\ \A i \in 1 .. subs.filter_sent : subs.filters[i] \in AskedFor
                        /\ subs.subscribe_id # 0 =>
                             /\ subs.subscribe_id = subs.filter_sent + 1
                             /\ subs.filters[subs.subscribe_id] \in AskedFor
                        /\ subs.filter_sent < Len(subs.filters) => subs.subscribe_id # 0 \/ subs.full
      BY DEF FiltersAsked
    <2>1. Pump(c, broker, subs) /\ Moving(subs)
      BY DEF SessionInv, Subscribing
    <2>2. AskedFor = AskedIn(c, broker)
      BY DEF AskedFor, AskedIn
    <2> QED
      BY <2>1, <2>2 DEF Pump, Moving
  <1> QED
    BY <1>1, SessionInvariant, PTL
=============================================================================
