------------------------------- MODULE Stream -------------------------------
(***************************************************************************)
(* The byte stream of src/net/stream.c: a ring of frames that wait to be   *)
(* written to a descriptor that takes as many bytes as it likes, the loop's *)
(* interest in writability, and the reads of one turn of the loop.         *)
(*                                                                         *)
(* The owner of the stream closes it when a call reports an error, or for  *)
(* reasons of its own.  Its callbacks run inside the stream's functions:   *)
(* on_bytes inside pump(), on_dropped inside close().                      *)
(***************************************************************************)
EXTENDS Integers, Sequences

CONSTANTS
    MaxFrames,      \* how many frames are sent
    SlotCount,      \* stream->slot_count
    SlotBytes,      \* stream->slot_bytes
    ReadsPerTurn,   \* INKWELL_STREAM_READS_PER_TURN
    SendsFromDrop   \* whether on_dropped may call send() or flush()

ASSUME FramesAssumption == MaxFrames \in Nat
ASSUME SlotsAssumption == SlotCount \in Nat \ {0} /\ SlotBytes \in Nat
ASSUME ReadsAssumption == ReadsPerTurn \in Nat \ {0}
ASSUME DropAssumption == SendsFromDrop \in BOOLEAN

Frames == 1 .. MaxFrames
Ring   == 0 .. SlotCount - 1

VARIABLES
    is_open,        \* inkwell_stream_is_open()
    watched,        \* stream->registration_token is a registration
    want_write,     \* stream->want_write, and the loop's interest in writing
    refused,        \* the loop refused the change of interest asked for last
    slots,          \* stream->slots
    head,           \* stream->head
    queued,         \* stream->queued
    writable,       \* the descriptor has room
    broken,         \* the descriptor fails every write
    sent,           \* how many frames send() has been asked for
    wire,           \* the bytes written since open(), named by their frames
    dropped,        \* the ids on_dropped was given since open()
    at,             \* `i` of stream_drop_queue()
    turn,           \* reads left in this turn of pump()
    phase,          \* where the thread is
    flush_from,     \* where the call of flush() returns to
    close_from      \* where the call of close() returns to

ring  == <<slots, head, queued>>
watch == <<is_open, watched, want_write, refused>>
flow  == <<flush_from, close_from>>
peer  == <<writable, broken>>
stream_vars == <<watch, ring, peer, sent, wire, dropped, at, turn, phase, flow>>

\* A slot out of the queue.  slot_wipe() clears its bytes; its other fields are
\* not read again before send() sets them.
Empty == [frame |-> 0, length |-> 0, sent |-> 0, id |-> 0]

\* The ring, the frame in flight, the wire and the thread.
StreamTypeOK ==
    /\ is_open \in BOOLEAN /\ watched \in BOOLEAN /\ want_write \in BOOLEAN
    /\ refused \in BOOLEAN
    /\ slots \in [Ring -> [frame : 0 .. MaxFrames, length : 0 .. SlotBytes,
                           sent : 0 .. SlotBytes, id : 0 .. MaxFrames]]
    /\ head \in Ring
    /\ queued \in 0 .. SlotCount
    /\ writable \in BOOLEAN /\ broken \in BOOLEAN
    /\ sent \in 0 .. MaxFrames
    /\ wire \in Seq(0 .. MaxFrames)
    /\ dropped \in Seq(Frames)
    /\ at \in 0 .. SlotCount
    /\ turn \in 0 .. ReadsPerTurn
    /\ phase \in {"app", "flush", "pump", "bytes", "drop", "dropped"}
    /\ flush_from \in {"app", "bytes", "dropped"}
    /\ close_from \in {"app", "bytes"}

\* inkwell_stream_init().
StreamInit ==
    /\ is_open = FALSE /\ watched = FALSE /\ want_write = FALSE /\ refused = FALSE
    /\ slots = [i \in Ring |-> Empty]
    /\ head = 0 /\ queued = 0
    /\ writable = FALSE /\ broken = FALSE
    /\ sent = 0
    /\ wire = <<>> /\ dropped = <<>>
    /\ at = 0 /\ turn = 0
    /\ phase = "app" /\ flush_from = "app" /\ close_from = "app"

-----------------------------------------------------------------------------
(* The queue. *)

\* The slot n places behind the head.
Slot(n) == (head + n) % SlotCount

\* Mutant: OUT is asked for and never given up.
update_write_interest_only_up(waiting) ==
    want_write' = (want_write \/ (watched /\ waiting > 0)) /\ refused' = FALSE

\* Mutant: the loop is never asked for OUT.
update_write_interest_never(waiting) == UNCHANGED want_write /\ refused' = FALSE

\* stream_update_write_interest(), for a queue of this length.  A change that
\* inkwell_loop_update_fd() refuses is asked for again by the next call only.
update_write_interest(waiting) ==
    LET want == waiting > 0
        asks == watched /\ want # want_write
    IN  \/ want_write' = (IF asks THEN want ELSE want_write) /\ refused' = FALSE
        \/ asks /\ UNCHANGED want_write /\ refused' = TRUE

\* Where the owner has control and may send.
MaySend == phase \in {"app", "bytes"} \cup (IF SendsFromDrop THEN {"dropped"} ELSE {})

\* inkwell_stream_send(), up to its flush.  -ENOTCONN, -ENOSPC and -EMSGSIZE
\* change nothing.
Send(length, id) ==
    /\ MaySend
    /\ sent < MaxFrames
    /\ is_open
    /\ queued < SlotCount
    /\ slots' = [slots EXCEPT ![Slot(queued)] =
                    [frame |-> sent + 1, length |-> length, sent |-> 0,
                     id |-> IF id THEN sent + 1 ELSE 0]]
    /\ queued' = queued + 1
    /\ update_write_interest(queued + 1)
    /\ sent' = sent + 1
    /\ flush_from' = phase
    /\ phase' = "flush"
    /\ UNCHANGED <<is_open, watched, head, peer, wire, dropped, at, turn, close_from>>

\* inkwell_stream_flush(), called by the owner for reasons of its own.
FlushCall ==
    /\ MaySend
    /\ is_open
    /\ flush_from' = phase
    /\ phase' = "flush"
    /\ UNCHANGED <<watch, ring, peer, sent, wire, dropped, at, turn, close_from>>

\* inkwell_stream_flush(), called by the owner when the loop reports OUT.
OnWritable ==
    /\ phase = "app"
    /\ is_open /\ want_write /\ writable
    /\ flush_from' = "app"
    /\ phase' = "flush"
    /\ UNCHANGED <<watch, ring, peer, sent, wire, dropped, at, turn, close_from>>

Front == slots[head]
Left  == Front.length - Front.sent

\* flush(): one write, of k bytes.  The frame leaves the ring with its last
\* byte; a short write ends the flush.
Write(k) ==
    /\ phase = "flush"
    /\ queued > 0
    /\ writable /\ ~broken
    /\ k <= Left /\ (k = 0 => Left = 0)
    /\ wire' = wire \o [i \in 1 .. k |-> Front.frame]
    /\ IF k = Left
       THEN /\ slots' = [slots EXCEPT ![head] = Empty]
            /\ head' = Slot(1)
            /\ queued' = queued - 1
            /\ writable' \in BOOLEAN
            /\ UNCHANGED <<want_write, refused, phase>>
       ELSE /\ slots' = [slots EXCEPT ![head].sent = @ + k]
            /\ UNCHANGED <<head, queued>>
            /\ writable' = FALSE
            /\ update_write_interest(queued)
            /\ phase' = flush_from
    /\ UNCHANGED <<is_open, watched, broken, sent, dropped, at, turn, flow>>

\* flush(): nothing waits, or the descriptor is full.
FlushEnds ==
    /\ phase = "flush"
    /\ queued = 0 \/ (~writable /\ ~broken)
    /\ update_write_interest(queued)
    /\ phase' = flush_from
    /\ UNCHANGED <<is_open, watched, ring, peer, sent, wire, dropped, at, turn, flow>>

\* flush(): the write fails.  The frame stays in the ring, and the interest as
\* it was; what to do about -EIO is up to the owner.
WriteFails ==
    /\ phase = "flush"
    /\ queued > 0
    /\ broken' = TRUE
    /\ phase' = flush_from
    /\ UNCHANGED <<watch, ring, writable, sent, wire, dropped, at, turn, flow>>

\* inkwell_stream_write_raw(), at most once for each descriptor.
WriteRaw ==
    /\ phase \in {"app", "bytes"}
    /\ is_open /\ writable /\ ~broken
    /\ \A i \in DOMAIN wire : wire[i] # 0
    /\ wire' = Append(wire, 0)
    /\ UNCHANGED <<watch, ring, peer, sent, dropped, at, turn, phase, flow>>

\* The far end reads, and the descriptor has room again.
Drains ==
    /\ is_open /\ ~writable
    /\ writable' = TRUE
    /\ UNCHANGED <<watch, ring, broken, sent, wire, dropped, at, turn, phase, flow>>

-----------------------------------------------------------------------------
(* Reading. *)

\* inkwell_stream_pump().
Pump ==
    /\ phase = "app"
    /\ is_open
    /\ turn' = ReadsPerTurn
    /\ phase' = "pump"
    /\ UNCHANGED <<watch, ring, peer, sent, wire, dropped, at, flow>>

\* A read brings bytes, and on_bytes runs.
Read ==
    /\ phase = "pump"
    /\ turn > 0
    /\ is_open
    /\ turn' = turn - 1
    /\ phase' = "bytes"
    /\ UNCHANGED <<watch, ring, peer, sent, wire, dropped, at, flow>>

BytesTaken ==
    /\ phase = "bytes"
    /\ phase' = "pump"
    /\ UNCHANGED <<watch, ring, peer, sent, wire, dropped, at, turn, flow>>

\* pump() returns: its reads are used up, there is no more, or the read fails,
\* as it does after on_bytes closed the stream.
PumpEnds ==
    /\ phase = "pump"
    /\ turn' = 0
    /\ phase' = "app"
    /\ UNCHANGED <<watch, ring, peer, sent, wire, dropped, at, flow>>

-----------------------------------------------------------------------------
(* Opening and closing. *)

\* inkwell_stream_open() and open_socket(); the loop may be NULL.  A refusal
\* (busy, or the loop cannot watch it) changes nothing.
StreamOpen ==
    /\ phase = "app"
    /\ ~is_open
    /\ is_open' = TRUE
    /\ watched' \in BOOLEAN
    /\ want_write' = FALSE /\ refused' = FALSE
    /\ head' = 0 /\ queued' = 0
    /\ writable' = TRUE /\ broken' = FALSE
    /\ wire' = <<>> /\ dropped' = <<>>
    /\ UNCHANGED <<slots, sent, at, turn, phase, flow>>

\* inkwell_stream_close(), up to stream_drop_queue().
StreamClose ==
    /\ phase \in {"app", "bytes"}
    /\ is_open
    /\ close_from' = phase
    /\ at' = 0
    /\ phase' = "drop"
    /\ UNCHANGED <<watch, ring, peer, sent, wire, dropped, turn, flush_from>>

\* Mutant: the queue is walked from the start of the ring.
DropFromRingStart ==
    /\ phase = "drop"
    /\ at < queued
    /\ dropped' = IF slots[at].id = 0 THEN dropped ELSE Append(dropped, slots[at].id)
    /\ phase' = IF slots[at].id = 0 THEN "drop" ELSE "dropped"
    /\ at' = at + 1
    /\ UNCHANGED <<watch, ring, peer, sent, wire, turn, flow>>

\* stream_drop_queue(): the next frame, and on_dropped for it if it has an id.
DropNext ==
    /\ phase = "drop"
    /\ at < queued
    /\ LET id == slots[Slot(at)].id
       IN  IF id = 0
           THEN UNCHANGED <<dropped, phase>>
           ELSE dropped' = Append(dropped, id) /\ phase' = "dropped"
    /\ at' = at + 1
    /\ UNCHANGED <<watch, ring, peer, sent, wire, turn, flow>>

DroppedReturns ==
    /\ phase = "dropped"
    /\ phase' = "drop"
    /\ UNCHANGED <<watch, ring, peer, sent, wire, dropped, at, turn, flow>>

\* The rest of close().
CloseEnds ==
    /\ phase = "drop"
    /\ at >= queued
    /\ slots' = [i \in Ring |-> Empty]
    /\ head' = 0 /\ queued' = 0 /\ at' = 0
    /\ is_open' = FALSE /\ watched' = FALSE /\ want_write' = FALSE /\ refused' = FALSE
    /\ writable' = FALSE /\ broken' = FALSE
    /\ phase' = close_from
    /\ UNCHANGED <<sent, wire, dropped, turn, flow>>

-----------------------------------------------------------------------------
Owner ==
    \/ \E length \in 0 .. SlotBytes, id \in BOOLEAN : Send(length, id)
    \/ FlushCall \/ WriteRaw \/ StreamOpen \/ StreamClose

Flush == (\E k \in 0 .. SlotBytes : Write(k)) \/ FlushEnds \/ WriteFails

Reading == Pump \/ Read \/ BytesTaken \/ PumpEnds

Closing == DropNext \/ DroppedReturns \/ CloseEnds

StreamNext == Owner \/ OnWritable \/ Flush \/ Reading \/ Closing \/ Drains

StreamSafeSpec == StreamInit /\ [][StreamNext]_stream_vars

\* Functions return, the loop reports a writable descriptor whose OUT is armed,
\* although the owner may be busy reading or sending at every other turn, and
\* the far end keeps reading.  A write may fail at any time.
StreamFairness ==
    /\ SF_stream_vars(OnWritable)
    /\ WF_stream_vars(Flush)
    /\ WF_stream_vars(Reading /\ phase # "app")
    /\ WF_stream_vars(Closing)
    /\ WF_stream_vars(Drains)

StreamSpec == StreamSafeSpec /\ StreamFairness

-----------------------------------------------------------------------------
(* Properties. *)

\* The frames that wait, as a sequence; while the queue is dropped, those not
\* yet reported.
Waiting ==
    [n \in 1 .. queued - at |->
        LET s == slots[Slot(at + n - 1)]
        IN  [frame |-> s.frame, left |-> s.length - s.sent, id |-> s.id]]

Q == INSTANCE FrameQueue
     WITH MaxLength <- SlotBytes, Capacity <- SlotCount, queue <- Waiting,
          mode <- IF phase \in {"drop", "dropped"} THEN "closing"
                  ELSE IF is_open THEN "open" ELSE "closed"

\* The ring implements the queue of frames: order, no loss, no duplicate and
\* exactly one report for each frame that close() gives up, although frames
\* wrap around the ring, go out in pieces and are sent from callbacks.
DeliversFrames == Q!Spec

\* "Keeps INKWELL_LOOP_OUT armed exactly while the queue has a remainder",
\* whenever the owner has control, unless the loop has refused the last change
\* the stream asked for.  Armed too long, the loop spins; not armed, the
\* remainder waits for something else to happen.
ArmedWhileQueued ==
    /\ StreamTypeOK
    /\ phase \in {"app", "bytes"} /\ is_open /\ watched /\ ~refused
          => (want_write <=> queued > 0)

\* A frame that waits on a watched descriptor leaves it, as long as the far end
\* keeps reading, or the owner has been told that the stream is broken, or has
\* closed it, or the loop has refused to report the descriptor writable.
FramesLeave ==
    \A f \in Frames :
        (is_open /\ watched /\ \E n \in DOMAIN Waiting : Waiting[n].frame = f)
            ~> (~is_open \/ broken \/ refused \/ \A n \in DOMAIN Waiting : Waiting[n].frame # f)

\* "A queued write that will never go out, because the stream closed with it
\* still queued": once on_dropped was given a frame, no byte of it is written.
\* It does not hold when on_dropped sends (SendsFromDrop): the flush of that send
\* walks the ring from its head, with the frames just reported still in it.
DroppedStaysDropped ==
    [][\A i \in (Len(wire) + 1) .. Len(wire') :
          \A n \in DOMAIN dropped : wire'[i] # dropped[n]]_stream_vars
=============================================================================
