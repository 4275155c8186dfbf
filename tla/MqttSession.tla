---------------------------- MODULE MqttSession -----------------------------
(***************************************************************************)
(* One MQTT session after another over TLS or a plain socket: the reader   *)
(* that cuts the broker's bytes into packets and the filters it subscribes *)
(* to (src/net/mqtt.c), with the packets of MqttCodec and the session of   *)
(* Tls, against a broker that keeps to the protocol.                       *)
(*                                                                         *)
(* MqttClient has the attempts, deadlines and retries around this, and     *)
(* MqttWriteQueue what happens to a packet that is partly written; here a  *)
(* packet leaves as a whole when the socket takes anything.                *)
(***************************************************************************)
EXTENDS MqttCodec, Tls, SequencesExt

CONSTANTS
    InMax,          \* INKWELL_MQTT_CLIENT_PACKET_MAX, the size of the buffers
    OutMax,         \* how many packets the outbound buffer holds
    ReadsPerTurn,   \* MQTT_READS_PER_TURN
    Filters,        \* the filters the application may subscribe to
    FiltersMax,     \* INKWELL_MQTT_CLIENT_FILTERS_MAX
    Refused,        \* those of them the broker refuses
    Messages,       \* what it publishes: records of topic, payload and qos
    Topic,          \* what the application publishes on
    MaxEvents       \* how many calls, messages and mishaps a behaviour has

ASSUME SizesAssumption ==
    InMax \in Nat /\ OutMax \in Nat \ {0} /\ ReadsPerTurn \in Nat \ {0} /\ FiltersMax \in Nat

\* The buffer holds every packet but a long message (a SUBACK is the longest of
\* them), and a length of two bytes does for a message.
Short(length) == length < Radix * Radix

ASSUME BufferAssumption == InMax >= 6 /\ FiltersMax <= 255
ASSUME FiltersAssumption == \A f \in Filters : f \in Seq(0 .. 255) /\ Len(f) \in 1 .. 255 /\ Short(5 + Len(f))
ASSUME TopicAssumption ==
    /\ Topic \in Seq(0 .. 255) /\ Len(Topic) \in 1 .. 255
    /\ Short(3 + Len(Topic)) /\ Len(Topic) + 6 <= InMax
ASSUME MessagesAssumption ==
    \A m \in Messages :
      /\ m.topic \in Seq(0 .. 255) /\ Len(m.topic) \in 1 .. 255
      /\ m.payload \in Seq(0 .. 255) /\ m.qos \in 0 .. 2
      /\ Short(4 + Len(m.topic) + Len(m.payload))

VARIABLES
    session,        \* proxy->state
    c,              \* the client's connection: TLS session, buffers and flags
    subs,           \* the filters, and how far the subscribing has come
    reader,         \* what the thread is doing: at, the reads of this turn, what follows
    lib,            \* what tls.c keeps for the process
    net,            \* the records inside the session and in the socket
    broker,         \* what it has heard, has yet to write and has sent in this session
    handled,        \* what the reader has made of this session's bytes
    why,            \* why the last session ended
    used            \* how many it has had

session_vars == <<session, c, subs, reader, lib, net, broker, handled, why, used>>

Live == {"GREETING", "READY"}

\* The fields mqtt_close() resets, and the session.
Unconnected ==
    [tls |-> NoSession, secure |-> FALSE, in |-> <<>>, skip |-> 0, more_to_read |-> FALSE,
     read_wants_write |-> FALSE, out |-> <<>>, want_write |-> FALSE]

Idle == [at |-> "idle", turn |-> 0, cont |-> "none"]
NoBroker == [heard |-> <<>>, bytes |-> <<>>, sent |-> <<>>, asked |-> {}, nonsense |-> FALSE]
NoNet == [inside |-> <<>>, sock |-> <<>>, writable |-> TRUE]

\* inkwell_mqtt_client_init() of a process that has its trust anchors, or none.
SessionInit ==
    /\ session = "WAITING" /\ c = Unconnected /\ reader = Idle
    /\ subs = [filters |-> <<>>, filter_sent |-> 0, subscribe_id |-> 0, full |-> FALSE]
    /\ lib \in {set_roots(NewProcess, given) : given \in BOOLEAN}
    /\ net = NoNet /\ broker = NoBroker /\ handled = <<>> /\ why = "none"
    /\ used = 0

-----------------------------------------------------------------------------
(* The broker, which reads what it is sent by the book.  External. *)

Wire(type, flags, body) ==
    <<16 * type + flags>>
      \o (IF Len(body) < Radix THEN <<Len(body)>>
          ELSE <<128 + (Len(body) % Radix), Len(body) \div Radix>>)
      \o body

Text(s) == <<0, Len(s)>> \o s
Greeting ==
    Wire(CONNECT, 0, <<0, 4, 77, 81, 84, 84, 4>> \o <<2>> \o <<0, 60>> \o Text(<<73>>))
SubscribeOf(id, f) == Wire(SUBSCRIBE, 2, <<0, id>> \o Text(f) \o <<0>>)

\* What a packet asks of the broker: nothing, a session, a sign of life or a
\* subscription.
Asks(p) ==
    IF p = Greeting THEN {[kind |-> "connack"]}
    ELSE IF p = Wire(PINGREQ, 0, <<>>) THEN {[kind |-> "pingresp"]}
    ELSE {[kind |-> "suback", id |-> x[1], filter |-> x[2]] :
            x \in {y \in (1 .. FiltersMax) \X Filters : p = SubscribeOf(y[1], y[2])}}

OurMessage == Wire(PUBLISH, 0, Text(Topic) \o <<1>>)

\* The filters some of the packets subscribe to.
FiltersIn(packets) ==
    {f \in Filters : \E i \in DOMAIN packets, id \in 1 .. FiltersMax :
                        packets[i] = SubscribeOf(id, f)}

\* The broker b after it has received the packets.
Received(b, packets) ==
    [b EXCEPT !.heard = @ \o packets,
              !.asked = @ \cup FiltersIn(packets),
              !.nonsense = @ \/ \E i \in DOMAIN packets :
                                  Asks(packets[i]) = {} /\ packets[i] # OurMessage]

\* What the reader should make of a packet of the broker's.
Seen(type, value) == [type |-> type, value |-> value]
Skipped == Seen(0, <<>>)
PacketOf(m) ==
    Wire(PUBLISH, 2 * m.qos,
         Text(m.topic) \o (IF m.qos > 0 THEN <<0, 7>> ELSE <<>>) \o m.payload)
SeenOf(m) == IF Len(PacketOf(m)) > InMax THEN Skipped
             ELSE Seen(PUBLISH, <<m.topic, m.payload>>)

Says(b, packet, seen) ==
    [b EXCEPT !.bytes = @ \o packet, !.sent = Append(@, seen)]

-----------------------------------------------------------------------------
(* Writing. *)

\* mqtt_arm(): whether OUT is wanted, from everything that may be blocked on it.
mqtt_arm(k) ==
    [k EXCEPT !.want_write = \/ k.out # <<>>
                             \/ k.tls.state # "none" /\ (k.tls.wants_write \/ k.read_wants_write)]

\* mqtt_raw_write(): the answer, and the session it leaves behind.
mqtt_raw_write(k, kernel) ==
    IF k.secure THEN tls_client_write(k.tls, kernel)
    ELSE [rc |-> IF kernel = "took" THEN "OK" ELSE "EAGAIN", tls |-> k.tls]

\* mqtt_flush(), to a socket that takes everything or nothing.
mqtt_flush(k, b) ==
    LET wrote == mqtt_raw_write(k, IF net.writable THEN "took" ELSE "full")
    IN  IF k.out = <<>> THEN [c |-> mqtt_arm(k), broker |-> b]
        ELSE IF wrote.rc = "OK"
        THEN [c |-> mqtt_arm([k EXCEPT !.tls = wrote.tls, !.out = <<>>]),
              broker |-> Received(b, k.out)]
        ELSE [c |-> mqtt_arm([k EXCEPT !.tls = wrote.tls]), broker |-> b]

\* mqtt_queue(), where there is room.
Room(k) == Len(k.out) < OutMax
mqtt_queue(k, b, packet) == mqtt_flush([k EXCEPT !.out = Append(@, packet)], b)

\* mqtt_close() and whatever fails the session for the reason r.
EndSession(r) ==
    /\ session' = "WAITING" /\ why' = r /\ reader' = Idle
    /\ c' = [Unconnected EXCEPT !.tls = tls_client_stop(c.tls)]
    /\ subs' = [subs EXCEPT !.filter_sent = 0, !.subscribe_id = 0, !.full = FALSE]
    /\ net' = NoNet /\ broker' = NoBroker /\ handled' = <<>>

-----------------------------------------------------------------------------
(* Subscribing. *)

\* The next filter's packet, under its index plus one.
NextSubscribe(s) == encode_subscribe(256 + 16, s.filter_sent + 1, s.filters[s.filter_sent + 1])

\* mqtt_pump_subscribes() of a session that is READY: the connection, the broker
\* and the filters after it.  With no room nothing is sent, and `full` notes it.
mqtt_pump_subscribes(k, b, s) ==
    IF s.subscribe_id # 0 \/ s.filter_sent >= Len(s.filters)
    THEN [c |-> k, broker |-> b, subs |-> s]
    ELSE IF ~Room(k) THEN [c |-> k, broker |-> b, subs |-> [s EXCEPT !.full = TRUE]]
    ELSE LET q == mqtt_queue(k, b, NextSubscribe(s))
         IN  [c |-> q.c, broker |-> q.broker,
              subs |-> [s EXCEPT !.subscribe_id = s.filter_sent + 1, !.full = FALSE]]

\* The outcome of a pump is what happened.
Pumped(p) == c' = p.c /\ broker' = p.broker /\ subs' = p.subs

\* One of the calls, messages and mishaps a behaviour is allowed.
Event == used < MaxEvents /\ used' = used + 1

AppHasThread == reader.at \in {"idle", "callback"}

\* inkwell_mqtt_client_subscribe(), of a filter that is not held yet.
Subscribe(f) ==
    /\ AppHasThread /\ Event
    /\ f \notin Range(subs.filters)
    /\ Len(subs.filters) < FiltersMax
    /\ LET s == [subs EXCEPT !.filters = Append(@, f)]
       IN  IF session = "READY" THEN Pumped(mqtt_pump_subscribes(c, broker, s))
           ELSE subs' = s /\ UNCHANGED <<c, broker>>
    /\ UNCHANGED <<session, reader, lib, net, handled, why>>

\* inkwell_mqtt_client_clear_filters().
ClearFilters ==
    /\ AppHasThread /\ Event
    /\ subs.filters # <<>>
    /\ subs' = [filters |-> <<>>, filter_sent |-> 0, subscribe_id |-> 0, full |-> FALSE]
    /\ UNCHANGED <<session, c, reader, lib, net, broker, handled, why>>

\* inkwell_mqtt_client_publish(), if there is room.
PublishMessage ==
    /\ AppHasThread /\ Event
    /\ session = "READY"
    /\ topic_is_publishable(Topic)
    /\ Room(c)
    /\ LET q == mqtt_queue(c, broker, encode_publish(InMax, Topic, <<1>>, FALSE))
       IN  c' = q.c /\ broker' = q.broker
    /\ UNCHANGED <<session, subs, reader, lib, net, handled, why>>

\* inkwell_mqtt_client_tick(): the keepalive, for which a full buffer is fatal.
TickKeepalive ==
    /\ reader = Idle /\ session = "READY" /\ Event
    /\ IF Room(c)
       THEN LET q == mqtt_queue(c, broker, encode_empty(2, PINGREQ))
            IN  /\ c' = q.c /\ broker' = q.broker
                /\ UNCHANGED <<session, subs, reader, net, handled, why>>
       ELSE EndSession("closed")
    /\ UNCHANGED lib

-----------------------------------------------------------------------------
(* Getting a session. *)

\* mqtt_send_connect() on the connection k.
Greet(k) ==
    LET q == mqtt_queue(k, broker, encode_connect(InMax + 32, <<73>>, <<>>, <<>>, TRUE, 60))
    IN  c' = q.c /\ broker' = q.broker /\ session' = "GREETING"

\* mqtt_finish_connect(): a plain socket is greeted at once.
ConnectPlain ==
    /\ session = "WAITING" /\ reader = Idle
    /\ Event
    /\ Greet(Unconnected)
    /\ why' = "none"
    /\ UNCHANGED <<subs, reader, lib, net, handled>>

\* mqtt_finish_connect() with TLS, against the registered roots; a process without
\* any may name a bundle file.
ConnectSecure ==
    /\ session = "WAITING" /\ reader = Idle
    /\ Event
    /\ \E o \in UNION {tls_client_start(lib, bundle) : bundle \in {~lib.table, FALSE}} :
         /\ lib' = o.lib
         /\ IF o.tls = NoSession
            THEN EndSession(tls_client_reason(o.tls))
            ELSE /\ session' = "SECURING"
                 /\ c' = [Unconnected EXCEPT !.tls = o.tls, !.secure = TRUE]
                 /\ why' = "none"
                 /\ UNCHANGED <<subs, reader, net, broker, handled>>

\* mqtt_secure(), whatever the library answers.
SecureSession ==
    /\ session = "SECURING" /\ reader = Idle
    /\ \E code \in {"OK", "WANT_READ", "WANT_WRITE", "VERIFY_FAILED", "CONN_RESET"},
          flags \in {{"future"}, {"future", "untrusted"}} :
         LET o == tls_client_handshake(c.tls, code, flags)
         IN  CASE o.rc = "EAGAIN" ->
                    /\ c' = mqtt_arm([c EXCEPT !.tls = o.tls])
                    /\ UNCHANGED <<session, subs, reader, net, broker, handled, why>>
               [] o.rc = "OK" ->
                    /\ Greet([c EXCEPT !.tls = o.tls])
                    /\ UNCHANGED <<subs, reader, net, handled, why>>
               [] OTHER -> EndSession(tls_client_reason(o.tls))
    /\ UNCHANGED <<lib, used>>

-----------------------------------------------------------------------------
(* Reading. *)

\* The head of mqtt_read_ready().
Reading(k) ==
    /\ c' = [k EXCEPT !.more_to_read = FALSE, !.read_wants_write = FALSE]
    /\ reader' = [at |-> "reading", turn |-> 0, cont |-> "none"]

\* mqtt_fd_callback() with something to read.
SocketReadable ==
    /\ reader = Idle /\ session \in Live
    /\ net.sock # <<>>
    /\ Reading(c)
    /\ UNCHANGED <<session, subs, lib, net, broker, handled, why, used>>

\* mqtt_fd_callback() with OUT: the queue's turn, and that of a read that has
\* something to send first.
SocketWritable ==
    /\ reader = Idle /\ session \in Live
    /\ c.want_write /\ net.writable
    /\ LET f == mqtt_flush(c, broker)
       IN  /\ broker' = f.broker
           /\ IF c.read_wants_write THEN Reading(f.c) ELSE c' = f.c /\ UNCHANGED reader
    /\ UNCHANGED <<session, subs, lib, net, handled, why, used>>

\* mqtt_fd_callback(): the socket is gone.
HangsUp ==
    /\ reader = Idle /\ session \in Live
    /\ \E i \in DOMAIN net.sock : net.sock[i].kind = "eof"
    /\ EndSession("closed")
    /\ UNCHANGED <<lib, used>>

\* inkwell_mqtt_client_tick(): the reader left something behind.
TickReads ==
    /\ reader = Idle /\ session \in Live
    /\ c.more_to_read
    /\ Reading(c)
    /\ UNCHANGED <<session, subs, lib, net, broker, handled, why, used>>

\* mqtt_raw_read() of at most cap bytes.
mqtt_raw_read(k, ahead, cap) ==
    IF k.secure THEN tls_client_read(k.tls, ahead, cap, net.writable)
    ELSE LET r == ssl_read(ahead, cap)
         IN  [rc |-> CASE r.code = "OK" -> "OK" [] r.code = "WANT_READ" -> "EAGAIN"
                       [] OTHER -> "ENOTCONN",
              tls |-> k.tls, bytes |-> r.bytes, left |-> r.left]

\* What is left of the records, as it may lie inside the session and in the
\* socket: what was inside stays there, and the library may have read ahead.
Lies(left, ahead) ==
    LET begun == /\ left # <<>>
                 /\ \/ left[1].kind = "request"
                    \/ left[1] # ahead[Len(ahead) - Len(left) + 1]
        least == Max({Len(net.inside) - (Len(ahead) - Len(left)), IF begun THEN 1 ELSE 0})
        most == Cardinality({i \in DOMAIN left : left[i].kind # "eof"})
    IN  {[net EXCEPT !.inside = SubSeq(left, 1, n), !.sock = SubSeq(left, n + 1, Len(left))] :
           n \in IF c.secure THEN {least, most} ELSE {0}}

\* The budget of mqtt_read_ready() is spent, or the buffer is full.
BudgetSpent == c' = [c EXCEPT !.more_to_read = TRUE] /\ reader' = Idle

\* One turn of mqtt_read_ready().
Read ==
    /\ reader.at = "reading"
    /\ \/ /\ reader.turn = ReadsPerTurn \/ Len(c.in) >= InMax
          /\ BudgetSpent
          /\ UNCHANGED <<session, subs, net, broker, handled, why>>
       \/ /\ reader.turn < ReadsPerTurn /\ Len(c.in) < InMax
          /\ LET ahead == net.inside \o net.sock
                 r == mqtt_raw_read(c, ahead, InMax - Len(c.in))
                 k == [c EXCEPT !.tls = r.tls]
             IN  CASE r.rc = "OK" ->
                        /\ c' = [k EXCEPT !.in = @ \o r.bytes]
                        /\ reader' = [reader EXCEPT !.at = "consuming"]
                        /\ net' \in Lies(r.left, ahead)
                        /\ UNCHANGED <<session, subs, broker, handled, why>>
                   [] r.rc = "EAGAIN" ->
                        /\ c' = IF r.tls.more_to_read THEN [k EXCEPT !.more_to_read = TRUE]
                                ELSE mqtt_arm([k EXCEPT !.read_wants_write =
                                                          k.secure /\ k.tls.wants_write])
                        /\ reader' = Idle
                        /\ net' \in Lies(r.left, ahead)
                        /\ UNCHANGED <<session, subs, broker, handled, why>>
                   [] r.rc \in {"ENOTCONN", "ECONNRESET"} -> EndSession("closed")
                   [] OTHER -> EndSession(tls_client_reason(r.tls))
    /\ UNCHANGED <<lib, used>>

\* Mutant: what follows an oversized message is thrown away with it.
SkipTheBuffer(k) ==
    IF k.skip = 0 THEN k ELSE [k EXCEPT !.in = <<>>, !.skip = Max({0, @ - Len(k.in)})]

\* mqtt_consume(): an oversized message is counted off the stream.
SkipOff(k) ==
    LET chunk == Min({k.skip, Len(k.in)})
    IN  [k EXCEPT !.in = SubSeq(k.in, chunk + 1, Len(k.in)), !.skip = @ - chunk]

\* mqtt_handle() and the handlers of what a broker sends: the packet's body, with
\* the connection k it has been taken from.
Handled(type, value) == handled' = Append(handled, Seen(type, value))

mqtt_on_connack(k, body) ==
    LET d == decode_connack(body)
    IN  IF session # "GREETING" \/ d.bad THEN EndSession("protocol")
        ELSE IF d.code # 0 THEN EndSession("refused")
        ELSE /\ session' = "READY"
             /\ c' = k
             /\ reader' = [reader EXCEPT !.at = "callback", !.cont = "connack"]
             /\ why' = "none"
             /\ Handled(CONNACK, <<d.code>>)
             /\ UNCHANGED <<subs, net, broker>>

\* Mutant: an answer to nothing that is in flight moves the filters on.
OnAnySuback(k, body) ==
    LET d == decode_suback(body)
    IN  /\ Pumped(mqtt_pump_subscribes(k, broker,
                    [subs EXCEPT !.filter_sent = @ + 1, !.subscribe_id = 0]))
        /\ Handled(SUBACK, <<d.id, d.code>>)
        /\ UNCHANGED <<session, reader, net, why>>

\* Mutant: a refusal leaves the filters where they are.
OnSubackAccepted(k, body) ==
    LET d == decode_suback(body)
    IN  /\ IF d.id = subs.subscribe_id /\ d.code # 128
           THEN Pumped(mqtt_pump_subscribes(k, broker,
                         [subs EXCEPT !.filter_sent = @ + 1, !.subscribe_id = 0]))
           ELSE c' = k /\ UNCHANGED <<broker, subs>>
        /\ Handled(SUBACK, <<d.id, d.code>>)
        /\ UNCHANGED <<session, reader, net, why>>

mqtt_on_suback(k, body) ==
    LET d == decode_suback(body)
    IN  IF d.bad THEN EndSession("protocol")
        ELSE /\ IF d.id = subs.subscribe_id
                THEN Pumped(mqtt_pump_subscribes(k, broker,
                              [subs EXCEPT !.filter_sent = @ + 1, !.subscribe_id = 0]))
                ELSE c' = k /\ UNCHANGED <<broker, subs>>
             /\ Handled(SUBACK, <<d.id, d.code>>)
             /\ UNCHANGED <<session, reader, net, why>>

mqtt_on_publish(k, flags, body) ==
    LET d == decode_publish(flags, body)
    IN  IF d.bad THEN EndSession("protocol")
        ELSE /\ c' = k
             /\ reader' = [reader EXCEPT !.at = "callback", !.cont = "read"]
             /\ Handled(PUBLISH, <<d.topic, d.payload>>)
             /\ UNCHANGED <<session, subs, net, broker, why>>

mqtt_handle(k, header, body) ==
    CASE header.type = CONNACK -> mqtt_on_connack(k, body)
      [] header.type = SUBACK -> mqtt_on_suback(k, body)
      [] header.type = PUBLISH -> mqtt_on_publish(k, header.flags, body)
      [] header.type \in {4, 5, PUBREL, 7, 11, PINGRESP} ->
           c' = k /\ Handled(header.type, body) /\ UNCHANGED <<session, subs, reader, net, broker, why>>
      [] OTHER -> EndSession("protocol")

\* One turn of the loop of mqtt_consume(): on to the next read, an oversized
\* message skipped, or a whole packet handled.
Consume ==
    /\ reader.at = "consuming"
    /\ LET k == SkipOff(c)
           header == decode_header(k.in)
           whole == header.header_len + header.remaining
           from(n) == [k EXCEPT !.in = SubSeq(k.in, n + 1, Len(k.in))]
           wait == /\ c' = k
                   /\ reader' = [reader EXCEPT !.at = "reading", !.turn = @ + 1]
                   /\ UNCHANGED <<session, subs, net, broker, handled, why>>
       IN  IF k.skip > 0 \/ header = NotYet THEN wait
           ELSE IF header.bad THEN EndSession("protocol")
           ELSE IF header.remaining > InMax - header.header_len
           THEN /\ c' = [from(header.header_len) EXCEPT !.skip = header.remaining]
                /\ handled' = Append(handled, Skipped)
                /\ UNCHANGED <<session, subs, reader, net, broker, why>>
           ELSE IF Len(k.in) < whole THEN wait
           ELSE mqtt_handle(from(whole), header, SubSeq(k.in, header.header_len + 1, whole))
    /\ UNCHANGED <<lib, used>>

\* A callback returns.  A new session subscribes to everything again.
CallbackReturns ==
    /\ reader.at = "callback"
    /\ reader' = [reader EXCEPT !.at = "consuming", !.cont = "none"]
    /\ IF reader.cont = "connack"
       THEN Pumped(mqtt_pump_subscribes(c, broker,
                     [subs EXCEPT !.filter_sent = 0, !.subscribe_id = 0]))
       ELSE UNCHANGED <<c, broker, subs>>
    /\ UNCHANGED <<session, lib, net, handled, why, used>>

-----------------------------------------------------------------------------
(* The broker's side of the session, and the sockets between.  External.      *)
(* They move while the thread waits: what arrives between two reads might as  *)
(* well have been there before the first.                                     *)

Open == reader = Idle /\ session \in Live /\ \A i \in DOMAIN net.sock : net.sock[i].kind # "eof"
OnWire(record) == net' = [net EXCEPT !.sock = Append(@, record)]

\* The broker's answer a to what it has been asked.
Answer(b, a) ==
    IF a.kind = "connack"
    THEN {Says(b, Wire(CONNACK, 0, <<0, code>>), Seen(CONNACK, <<code>>)) : code \in {0, 5}}
    ELSE IF a.kind = "pingresp"
    THEN {Says(b, Wire(PINGRESP, 0, <<>>), Seen(PINGRESP, <<>>))}
    ELSE LET code == IF a.filter \in Refused THEN 128 ELSE 0
         IN  {Says(b, Wire(SUBACK, 0, <<0, a.id, code>>), Seen(SUBACK, <<a.id, code>>))}

Answers ==
    /\ Open /\ broker.heard # <<>>
    /\ LET b == [broker EXCEPT !.heard = Tail(@)]
           asks == Asks(Head(broker.heard))
       IN  IF asks = {} THEN broker' = b ELSE \E a \in asks : broker' \in Answer(b, a)
    /\ UNCHANGED <<session, c, subs, reader, lib, net, handled, why, used>>

Publishes(m) ==
    /\ Open /\ broker.sent # <<>> /\ broker.sent[1].value = <<0>>
    /\ Event
    /\ broker' = Says(broker, PacketOf(m), SeenOf(m))
    /\ UNCHANGED <<session, c, subs, reader, lib, net, handled, why>>

\* What the broker has written leaves as one record, or is cut somewhere.
Leaves(n) ==
    /\ Open /\ Len(net.sock) < 3
    /\ OnWire(Data(SubSeq(broker.bytes, 1, n)))
    /\ broker' = [broker EXCEPT !.bytes = SubSeq(@, n + 1, Len(@))]
    /\ UNCHANGED <<session, c, subs, reader, lib, handled, why>>

Writes == broker.bytes # <<>> /\ Leaves(Len(broker.bytes)) /\ UNCHANGED used
Splits == Event /\ \E n \in 1 .. Len(broker.bytes) - 1 : Leaves(n)

Tickets ==
    /\ Open /\ c.secure /\ Event
    /\ OnWire(Record("ticket"))
    /\ UNCHANGED <<session, c, subs, reader, lib, broker, handled, why>>

Requests ==
    /\ Open /\ c.secure /\ Event
    /\ OnWire(Record("request"))
    /\ UNCHANGED <<session, c, subs, reader, lib, broker, handled, why>>

Closes ==
    /\ Open /\ Event
    /\ OnWire(Record("eof"))
    /\ UNCHANGED <<session, c, subs, reader, lib, broker, handled, why>>

SocketFills ==
    /\ reader = Idle /\ session \in Live /\ net.writable /\ Event
    /\ net' = [net EXCEPT !.writable = FALSE]
    /\ UNCHANGED <<session, c, subs, reader, lib, broker, handled, why>>

SocketDrains ==
    /\ reader = Idle /\ ~net.writable
    /\ net' = [net EXCEPT !.writable = TRUE]
    /\ UNCHANGED <<session, c, subs, reader, lib, broker, handled, why, used>>

-----------------------------------------------------------------------------

SessionNext ==
    \/ \E f \in Filters : Subscribe(f)
    \/ ClearFilters \/ PublishMessage \/ TickKeepalive
    \/ ConnectPlain \/ ConnectSecure \/ SecureSession
    \/ SocketReadable \/ SocketWritable \/ HangsUp \/ TickReads
    \/ Read \/ Consume \/ CallbackReturns
    \/ Answers \/ (\E m \in Messages : Publishes(m)) \/ Writes \/ Splits
    \/ Tickets \/ Requests \/ Closes \/ SocketFills \/ SocketDrains

\* The broker has written what it has to write, as far as it can.
CaughtUp == \/ broker.heard = <<>> /\ broker.bytes = <<>>
            \/ session \notin Live \/ Len(net.sock) >= 3
            \/ \E i \in DOMAIN net.sock : net.sock[i].kind = "eof"

\* Every callback of the loop returns, the broker answers and its bytes arrive,
\* a socket that is full is written out in the end; the loop reports what is
\* ready, and the application ticks the client every turn (mqtt.h).
SessionFairness ==
    /\ []<>(reader = Idle) /\ []<>CaughtUp /\ []<>net.writable
    /\ WF_session_vars(SocketReadable) /\ SF_session_vars(SocketWritable)
    /\ WF_session_vars(TickReads)

SessionSafeSpec == SessionInit /\ [][SessionNext]_session_vars
SessionSpec == SessionSafeSpec /\ SessionFairness

-----------------------------------------------------------------------------
(* Properties. *)

SessionTypeOK ==
    /\ session \in {"WAITING", "SECURING"} \cup Live
    /\ c.tls \in Sessions /\ lib \in Process
    /\ Len(c.in) <= InMax /\ Len(c.out) <= OutMax
    /\ Len(subs.filters) <= FiltersMax

\* Whatever the records, reads and budgets cut the broker's bytes into, the
\* reader makes of them the packets the broker sent, each once and in order, and
\* steps over the ones that do not fit; it never takes a good stream for a bad
\* one, and the broker understands every packet of ours.  "The buffer can never
\* fill without a whole packet in it" (mqtt_read_ready()).
FramesIntact ==
    /\ SessionTypeOK
    /\ IsPrefix(handled, broker.sent)
    /\ why # "protocol" /\ ~broker.nonsense
    /\ reader.at \in {"idle", "reading"} => Len(c.in) < InMax

\* Those filters the broker has been asked for in this session, or will be by
\* what is queued.
AskedFor == broker.asked \cup FiltersIn(c.out)

\* No filter is passed over and the pump does not stall: in a session that is
\* up, every filter counted as answered has been asked for, and while one is
\* left some SUBSCRIBE is in flight -- unless it found no room, which nothing
\* but another filter or a reconnect makes good (mqtt_pump_subscribes()).
FiltersAsked ==
    session = "READY" /\ reader.at = "idle" =>
      /\ subs.filter_sent <= Len(subs.filters)
      /\ \A i \in 1 .. subs.filter_sent : subs.filters[i] \in AskedFor
      /\ subs.subscribe_id # 0 =>
           /\ subs.subscribe_id = subs.filter_sent + 1
           /\ subs.filters[subs.subscribe_id] \in AskedFor
      /\ subs.filter_sent < Len(subs.filters) => subs.subscribe_id # 0 \/ subs.full

\* Nothing the broker has sent is left lying, in the socket, in the session
\* where no event tells of it, or in the buffer: it is handled, or the session
\* ends.  "Without it a TLS connection can wait forever on bytes it has already
\* received" (mqtt_read_ready()).
Behind == session \in Live /\ Len(handled) < Len(broker.sent)
NothingStranded == Behind ~> ~Behind

\* Every filter of a session is answered for, one after the other, as long as
\* none of them finds the buffer full.
Unanswered == session = "READY" /\ subs.filter_sent < Len(subs.filters) /\ ~subs.full
FiltersAnswered == Unanswered ~> ~Unanswered

=============================================================================
