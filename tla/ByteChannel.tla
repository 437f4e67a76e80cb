---------------------------- MODULE ByteChannel ----------------------------
(***************************************************************************)
(* What the reception of bytes promises to the framer: a queue that loses  *)
(* bytes only when it is full.  There are no interrupts, no flag and no    *)
(* three buffers here; RxBuffers implements this specification.            *)
(*                                                                         *)
(* Bytes are numbered in order of arrival.  A byte that finds the queue    *)
(* full may push out the youngest bytes, itself perhaps included; the      *)
(* reader of a full queue may lose the oldest.  Neither ever changes the   *)
(* order of what remains, nor brings back what is gone.                    *)
(***************************************************************************)
EXTENDS Integers, Sequences

CONSTANT Capacity       \* below so many bytes in the queue nothing is lost

VARIABLES
    queue,              \* bytes on their way to the framer, the oldest first
    arrived,            \* number of bytes that have arrived
    delivered           \* bytes the framer has taken

channelVars == <<queue, arrived, delivered>>

Init == queue = <<>> /\ arrived = 0 /\ delivered = {}

Arrive ==
    /\ queue' = Append(queue, arrived + 1)
    /\ arrived' = arrived + 1
    /\ UNCHANGED delivered

PushOutYoungest ==
    /\ Len(queue) >= Capacity
    /\ arrived' = arrived + 1
    /\ \E n \in 0..Len(queue) :
          \/ queue' = SubSeq(queue, 1, n)
          \/ queue' = Append(SubSeq(queue, 1, n), arrived + 1)
    /\ UNCHANGED delivered

LoseOldest ==
    /\ Len(queue) > Capacity
    /\ \E n \in 0..Len(queue) : queue' = SubSeq(queue, n + 1, Len(queue))
    /\ UNCHANGED <<arrived, delivered>>

Deliver ==
    /\ \E n \in 0..Len(queue) :
          /\ queue' = SubSeq(queue, n + 1, Len(queue))
          /\ delivered' = delivered \cup {queue[i] : i \in 1..n}
    /\ UNCHANGED arrived

Next == Arrive \/ PushOutYoungest \/ LoseOldest \/ Deliver

Spec == Init /\ [][Next]_channelVars

=============================================================================
