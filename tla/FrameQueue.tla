----------------------------- MODULE FrameQueue -----------------------------
(***************************************************************************)
(* What a stream promises about the writes it accepts: whole frames leave  *)
(* in the order they were accepted, byte after byte, none twice; and when  *)
(* the stream closes, each frame that has not left is reported, once and   *)
(* in order, and no byte of it goes out afterwards.                        *)
(***************************************************************************)
EXTENDS Integers, Sequences

CONSTANTS
    Frames,         \* the frames that are sent
    MaxLength,      \* the longest frame
    Capacity        \* how many frames may wait

VARIABLES
    mode,           \* "open", "closing" or "closed"
    queue,          \* the frames that wait: what is left of each, and its id
    wire,           \* the bytes that went out, each named by its frame
    dropped         \* the ids reported as dropped

vars == <<mode, queue, wire, dropped>>

Init ==
    /\ mode = "closed"
    /\ queue = <<>>
    /\ wire = <<>>
    /\ dropped = <<>>

Open ==
    /\ mode = "closed"
    /\ mode' = "open"
    /\ wire' = <<>>
    /\ dropped' = <<>>
    /\ UNCHANGED queue

\* A frame whose id is 0 is one nobody is waiting on.
Accept(f, length, id) ==
    /\ mode = "open"
    /\ Len(queue) < Capacity
    /\ queue' = Append(queue, [frame |-> f, left |-> length, id |-> id])
    /\ UNCHANGED <<mode, wire, dropped>>

\* k bytes of the first frame go out.
Transmit(k) ==
    /\ mode = "open"
    /\ queue # <<>>
    /\ k <= Head(queue).left
    /\ wire' = wire \o [i \in 1 .. k |-> Head(queue).frame]
    /\ queue' = IF k = Head(queue).left THEN Tail(queue)
                ELSE [queue EXCEPT ![1].left = @ - k]
    /\ UNCHANGED <<mode, dropped>>

\* Bytes that are not part of any frame, ahead of the queue.
Raw ==
    /\ mode = "open"
    /\ wire' = Append(wire, 0)
    /\ UNCHANGED <<mode, queue, dropped>>

Close ==
    /\ mode = "open"
    /\ mode' = "closing"
    /\ UNCHANGED <<queue, wire, dropped>>

Drop ==
    /\ mode = "closing"
    /\ queue # <<>>
    /\ dropped' = IF Head(queue).id = 0 THEN dropped
                  ELSE Append(dropped, Head(queue).id)
    /\ queue' = Tail(queue)
    /\ UNCHANGED <<mode, wire>>

Closed ==
    /\ mode = "closing"
    /\ queue = <<>>
    /\ mode' = "closed"
    /\ UNCHANGED <<queue, wire, dropped>>

Next ==
    \/ Open \/ Raw \/ Close \/ Drop \/ Closed
    \/ \E f \in Frames, n \in 0 .. MaxLength : \E id \in {0, f} : Accept(f, n, id)
    \/ \E k \in 0 .. MaxLength : Transmit(k)

Spec == Init /\ [][Next]_vars
=============================================================================
