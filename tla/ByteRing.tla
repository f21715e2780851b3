------------------------------ MODULE ByteRing ------------------------------
(***************************************************************************)
(* The single-producer single-consumer byte ring behind both host links:   *)
(* host_transport_usb.c (16384 bytes) and pdb_link.c (256 bytes).  The     *)
(* producer is the receive interrupt, which a task cannot preempt; the     *)
(* consumer is HostTask, which the interrupt may cut between any two of    *)
(* its accesses.  There is no lock: head belongs to the producer, tail to  *)
(* the consumer, and one slot stays empty to tell full from empty.         *)
(***************************************************************************)
EXTENDS Naturals, Sequences

CONSTANTS
  Octet,      \* byte values the properties tell apart
  Size,       \* ring size in bytes
  MaxPush,    \* bytes of one interrupt (1 on UART4, one packet on USB)
  MaxRead     \* bytes of the caller's chunk

(* One packet always fits an empty ring: 64 of 16384 bytes on USB, 1 of 256 *)
(* on UART4.                                                               *)
Sizes == Size \in Nat \ {0, 1} /\ MaxPush \in 1..(Size - 1) /\ MaxRead \in Nat \ {0}

VARIABLES
  ring, head, tail,   \* the array and its two indices
  sawHead,            \* the consumer's copy of head
  copied,             \* what the consumer's memcpy has moved so far
  reading,            \* the consumer is between its reads and its tail update
  out                 \* the chunk of the last completed read

vars == <<ring, head, tail, sawHead, copied, reading, out>>

Slot == 0..(Size - 1)
Dist(from, to) == (to + Size - from) % Size
Least(a, b) == IF a < b THEN a ELSE b

Init ==
  /\ \E zero \in Octet : ring = [s \in Slot |-> zero]
  /\ head = 0 /\ tail = 0 /\ sawHead = 0
  /\ copied = <<>> /\ reading = FALSE /\ out = <<>>

FreeMutated == Size - Dist(tail, head)   \* no slot kept empty
Free == (tail + Size - head - 1) % Size

(* host_transport_usb_rx_push, pdb_rx_push: the bytes that do not fit are  *)
(* the newest ones, and nobody is told.                                    *)
Push(bytes) ==
  LET take == Least(Len(bytes), Free) IN
  /\ take > 0
  /\ ring' = [s \in Slot |-> IF Dist(head, s) < take
                             THEN bytes[Dist(head, s) + 1] ELSE ring[s]]
  /\ head' = (head + take) % Size
  /\ UNCHANGED <<tail, sawHead, copied, reading, out>>

(* usb_read, pdb_rx_drain: head is read once; what arrives later waits for *)
(* the next call.                                                          *)
ReadsHead ==
  /\ ~reading /\ head # tail
  /\ sawHead' = head /\ copied' = <<>> /\ reading' = TRUE
  /\ UNCHANGED <<ring, head, tail, out>>

Avail == Least(MaxRead, Dist(tail, sawHead))

CopiesByte ==
  /\ reading /\ Len(copied) < Avail
  /\ copied' = Append(copied, ring[(tail + Len(copied)) % Size])
  /\ UNCHANGED <<ring, head, tail, sawHead, reading, out>>

AdvancesTailMutated ==   \* the whole backlog is released, not the chunk
  /\ reading /\ Len(copied) = Avail
  /\ tail' = sawHead
  /\ reading' = FALSE /\ out' = copied
  /\ UNCHANGED <<ring, head, sawHead, copied>>

AdvancesTail ==
  /\ reading /\ Len(copied) = Avail
  /\ tail' = (tail + Avail) % Size
  /\ reading' = FALSE /\ out' = copied
  /\ UNCHANGED <<ring, head, sawHead, copied>>

Read == ReadsHead \/ CopiesByte \/ AdvancesTail

Next ==
  \/ \E n \in 1..MaxPush : \E bytes \in [1..n -> Octet] : Push(bytes)
  \/ Read

Spec == Init /\ [][Next]_vars

-----------------------------------------------------------------------------
(* The ring implements the pipe: bytes come out once, whole and in order,  *)
(* whatever the interrupt does in the middle of a read, and only a full    *)
(* ring of Size - 1 bytes loses any.                                       *)
Contents == [i \in 1..Dist(tail, head) |-> ring[(tail + i - 1) % Size]]

Fifo == INSTANCE ByteFifo WITH Byte <- Octet, queue <- Contents, Cap <- Size - 1
ImplementsFifo == Fifo!Spec

(* What makes the unlocked read safe: the consumer's copy of head bounds a *)
(* stretch the producer has already filled and never writes again before   *)
(* tail moves on, so what memcpy has copied is still what the ring holds.  *)
SlotsOK == ring \in [Slot -> Octet] /\ {head, tail, sawHead} \subseteq Slot
CopyOK ==
  /\ copied \in Seq(Octet) /\ reading \in BOOLEAN
  /\ reading =>
       /\ sawHead # tail /\ Dist(tail, sawHead) <= Dist(tail, head)
       /\ Len(copied) <= Avail
       /\ \A i \in 1..Len(copied) : copied[i] = ring[(tail + i - 1) % Size]
RingInv == SlotsOK /\ CopyOK
=============================================================================
