--------------------------- MODULE MqttWriteQueue ---------------------------
(***************************************************************************)
(* The write side of one connection of the MQTT client: the buffer `out`   *)
(* of src/net/mqtt.c, how it is filled, flushed and compacted, the record  *)
(* a TLS session is committed to while a write is blocked, the keepalive   *)
(* ping, and the DISCONNECT that stop() writes past the buffer.            *)
(*                                                                         *)
(* A packet is two bytes long (a PINGREQ and a DISCONNECT really are).     *)
(* Bytes are numbered in the order their packets were queued, so that what *)
(* is still to be sent can be compared with what the broker has had.       *)
(***************************************************************************)
EXTENDS Integers, Sequences

CONSTANTS
    MaxPackets,     \* how many packets are queued on one connection
    OutSize         \* sizeof proxy->out, in bytes

ASSUME PacketsAssumption == MaxPackets \in Nat
ASSUME OutSizeAssumption == OutSize \in Nat \ {0}

PacketLength == 2

VARIABLES
    tls,            \* whether proxy->tls.state is there
    out,            \* proxy->out, up to out_len
    out_sent,       \* proxy->out_sent
    out_pending,    \* proxy->out_pending
    want_write,     \* proxy->want_write
    interest,       \* whether the loop watches the socket for OUT
    ping_due,       \* whether proxy->next_ping_ms has passed
    queued,         \* how many packets have gone into the buffer
    wire,           \* how many bytes of them the transport has taken
    record,         \* where in the buffer the blocked TLS record lies
    kept,           \* whether each blocked write was retried as it was
    ended           \* why the connection ended

buffer    == <<out, out_sent, out_pending>>
transport == <<wire, record, kept>>
out_vars == <<tls, buffer, want_write, interest, ping_due, queued, transport, ended>>

NoRecord == [at |-> 0, length |-> 0]

\* The state of the write side: no index leaves the buffer, and the buffer
\* never outgrows sizeof proxy->out.
OutTypeOK ==
    /\ tls \in BOOLEAN
    /\ out \in Seq(1 .. PacketLength * MaxPackets)
    /\ Len(out) <= OutSize
    /\ out_sent \in 0 .. Len(out)
    /\ out_pending \in 0 .. Len(out) - out_sent
    /\ want_write \in BOOLEAN /\ interest \in BOOLEAN
    /\ ping_due \in BOOLEAN
    /\ queued \in 0 .. MaxPackets
    /\ wire \in 0 .. PacketLength * MaxPackets
    /\ record \in [at : 0 .. OutSize, length : 0 .. OutSize]
    /\ kept \in BOOLEAN
    /\ ended \in {"no", "stopped", "broken", "full"}

\* A connection the broker has just accepted, with the CONNECT sent.
OutInit ==
    /\ tls \in BOOLEAN
    /\ out = <<>> /\ out_sent = 0 /\ out_pending = 0
    /\ want_write = FALSE /\ interest = FALSE
    /\ ping_due = FALSE
    /\ queued = 0
    /\ wire = 0 /\ record = NoRecord /\ kept = TRUE
    /\ ended = "no"

Up == ended = "no"

-----------------------------------------------------------------------------
(* Flushing. *)

\* mqtt_raw_write() of the n bytes at position `at`, as the session sees it:
\* a record it is committed to must come back as it was.
Retries(at, n) == kept' = (kept /\ record \in {NoRecord, [at |-> at, length |-> n]})

\* Mutant: the next write starts again with everything that is queued.
ChunkOfAll(b, at) == Len(b) - at

\* How much of the buffer b the next write offers.
Chunk(b, at) == IF out_pending > 0 THEN out_pending ELSE Len(b) - at

\* How many bytes the writes of one flush may move.  A socket takes any part;
\* a TLS session takes a write whole or not at all.
Moves(b, at) ==
    IF tls THEN {0, Chunk(b, at), Len(b) - at} ELSE 0 .. Len(b) - at

\* Mutant: the interest in writing is never asked for.
ArmNever(b, at) == want_write' = FALSE /\ interest' = FALSE

\* mqtt_arm(), with the buffer b sent up to `at`.  The loop may refuse the change,
\* and what is wanted is taken for what the loop has: it is not asked again.
Arm(b, at) ==
    /\ want_write' = (at < Len(b))
    /\ interest' \in IF want_write' = want_write THEN {interest} ELSE {want_write', interest}

\* Mutant: a blocked flush forgets what its earlier writes have moved.
flush_from_start(b, at, k) ==
    LET empty == at + k >= Len(b)
    IN  /\ Retries(at, Chunk(b, at))
        /\ wire' = wire + k
        /\ record' = NoRecord
        /\ out' = IF empty THEN <<>> ELSE b
        /\ out_sent' = IF empty THEN 0 ELSE at
        /\ out_pending' = IF empty THEN 0 ELSE Len(b) - at
        /\ Arm(b, at + k)

\* The loop of mqtt_flush() on the buffer b, sent up to `at`, moving k bytes.
\* It ends with the buffer empty or with a write that would block, and what is
\* left then is the length that has to be offered again.
flush(b, at, k) ==
    LET length == IF k = 0 THEN Chunk(b, at) ELSE Len(b) - at - k
        empty  == at + k >= Len(b)
    IN  /\ Retries(at, Chunk(b, at))
        /\ wire' = wire + k
        /\ record' = IF tls /\ ~empty THEN [at |-> at + k, length |-> length]
                                     ELSE NoRecord
        /\ out' = IF empty THEN <<>> ELSE b
        /\ out_sent' = IF empty THEN 0 ELSE at + k
        /\ out_pending' = IF empty THEN 0 ELSE length
        /\ Arm(b, at + k)

\* A write fails, and mqtt_fail_net() closes the connection.
Breaks ==
    /\ ended' = "broken"
    /\ UNCHANGED <<tls, buffer, want_write, interest, ping_due, queued, transport>>

-----------------------------------------------------------------------------
(* Queueing. *)

\* The buffer after mqtt_compact_out().
Compacted == IF out_pending > 0 THEN out ELSE SubSeq(out, out_sent + 1, Len(out))

\* The buffer mqtt_queue() appends to, and how much of it has been sent.
Base == IF Len(out) + PacketLength > OutSize THEN Compacted ELSE out
Sent == out_sent - (Len(out) - Len(Base))

\* Whether the packet fits after that.
Fits == Len(Base) + PacketLength <= OutSize

\* The buffer with the next packet in it.
Appended == Base \o [i \in 1 .. PacketLength |-> PacketLength * queued + i]

\* mqtt_queue() of a packet there is room for.
Queue(k) ==
    /\ Fits
    /\ queued < MaxPackets
    /\ queued' = queued + 1
    /\ flush(Appended, Sent, k)
    /\ UNCHANGED <<tls, ended>>

QueueBreaks == Fits /\ queued < MaxPackets /\ Breaks

\* inkwell_mqtt_client_publish(), or mqtt_pump_subscribes().  Bytes that leave
\* put the ping off.  A packet there is no room for is given up (-ENOSPC).
Publish ==
    /\ Up
    /\ \/ \E k \in Moves(Appended, Sent) :
            Queue(k) /\ ping_due' = (ping_due /\ k = 0)
       \/ QueueBreaks
       \/ /\ ~Fits
          /\ out' = Base /\ out_sent' = Sent
          /\ UNCHANGED <<tls, out_pending, want_write, interest, ping_due, queued, transport, ended>>

\* The PINGREQ of inkwell_mqtt_client_tick(): no room for it is taken for a
\* dead connection.
TickPing ==
    /\ Up
    /\ ping_due
    /\ \/ \E k \in Moves(Appended, Sent) : Queue(k) /\ ping_due' = FALSE
       \/ QueueBreaks
       \/ /\ ~Fits
          /\ ended' = "full"
          /\ UNCHANGED <<tls, buffer, want_write, interest, ping_due, queued, transport>>

\* mqtt_fd_callback() for OUT on a socket that takes k bytes.
Writable(k) ==
    /\ Up
    /\ interest
    /\ k \in Moves(out, out_sent)
    /\ flush(out, out_sent, k)
    /\ ping_due' = (ping_due /\ k = 0)
    /\ UNCHANGED <<tls, queued, ended>>

OnWritable == \E k \in 0 .. OutSize : Writable(k)

\* The same, when the socket turns out to be gone.
OnWriteError == Up /\ interest /\ Breaks

\* Time passes next_ping_ms.
PingDue ==
    /\ Up
    /\ ping_due' = TRUE
    /\ UNCHANGED <<tls, buffer, want_write, interest, queued, transport, ended>>

\* inkwell_mqtt_client_stop(): the DISCONNECT is written past the buffer, even
\* to a session that is committed to a record.
WriteDisconnect ==
    /\ Up
    /\ kept' = (kept /\ record = NoRecord)
    /\ ended' = "stopped"
    /\ UNCHANGED <<tls, buffer, want_write, interest, ping_due, queued, wire, record>>

\* mqtt_close(), and a later attempt that gets as far as this one had.
Reconnect ==
    /\ ~Up
    /\ tls' \in BOOLEAN
    /\ out' = <<>> /\ out_sent' = 0 /\ out_pending' = 0
    /\ want_write' = FALSE /\ interest' = FALSE
    /\ ping_due' = FALSE
    /\ queued' = 0
    /\ wire' = 0 /\ record' = NoRecord /\ kept' = TRUE
    /\ ended' = "no"

OutNext ==
    \/ Publish
    \/ TickPing
    \/ OnWritable
    \/ OnWriteError
    \/ PingDue
    \/ WriteDisconnect
    \/ Reconnect

OutSafeSpec == OutInit /\ [][OutNext]_out_vars

\* A broker that reads makes the socket writable again and again, and the loop
\* reports it as long as the interest is registered.
OutFairness == SF_out_vars(\E k \in 1 .. OutSize : Writable(k))

OutSpec == OutSafeSpec /\ OutFairness

-----------------------------------------------------------------------------
(* Properties. *)

\* What is still to be sent is exactly what the broker has not had, in the
\* order it was queued: partial writes, a packet appended behind a blocked one
\* and mqtt_compact_out() neither lose, repeat nor reorder a byte.
StreamIntact ==
    /\ OutTypeOK
    /\ Up => SubSeq(out, out_sent + 1, Len(out))
              = [i \in 1 .. PacketLength * queued - wire |-> wire + i]

\* A TLS write that blocked comes back with the same bytes at the same place
\* and of the same length, whatever was queued meanwhile (the contract of
\* mbedtls_ssl_write() that `out_pending` is there for).  Only the DISCONNECT
\* of stop() does not wait for it, and the connection ends with that.
RetryContract == Up => kept

\* What is queued leaves, or the connection ends: a flush that blocked is
\* always taken up again, unless the loop refused to watch for OUT and from then
\* on nothing else flushes the buffer.
QueueDrains ==
    \/ (out # <<>>) ~> (out = <<>> \/ ~Up)
    \/ <>[](want_write /\ ~interest)

\* A full buffer is "a dropped message rather than a broken connection" (the
\* comment on mqtt_queue(), mqtt.c:297-298).  It does not hold: the ping of
\* tick() takes it for a dead connection.
FullIsNotFatal == ended # "full"
=============================================================================
