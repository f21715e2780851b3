----------------------------- MODULE MCReceive ------------------------------
(* The receive side of a link for TLC: the ring of bytes that the interrupt *)
(* fills, and the framing of what HostTask takes out of it.  The framing    *)
(* assumes no more of its fifo than ByteFifo promises, and the ring is      *)
(* shown to keep that promise, so a behaviour moves one and leaves the      *)
(* other in its initial state.                                              *)
EXTENDS RxFraming

CONSTANTS
  RingBytes,   \* byte values the ring's contents tell apart
  RingSize, MaxPush, MaxRead

VARIABLES ring, head, tail, sawHead, copied, reading, out

ringVars == <<ring, head, tail, sawHead, copied, reading, out>>

Ring == INSTANCE ByteRing WITH Octet <- RingBytes, Size <- RingSize

ASSUME SizesAssumption == Ring!Sizes

(* Of the ring's initial contents one is enough while the framing moves. *)
RingAtRest == Ring!Init /\ ring[0] = CHOOSE zero \in RingBytes : TRUE

MCInit == Init /\ Ring!Init

MCNext ==
  \/ Next /\ RingAtRest /\ UNCHANGED ringVars
  \/ Ring!Next /\ Init /\ UNCHANGED vars

MCSpec ==
  /\ MCInit /\ [][MCNext]_<<vars, ringVars>>
  /\ WF_vars(Arrives) /\ WF_vars(Accumulates)

(* The unlocked ring implements the bounded pipe of ByteFifo: bytes come    *)
(* out once, whole and in order, wherever the interrupt cuts into usb_read  *)
(* or pdb_rx_drain.                                                         *)
ImplementsFifo == Ring!ImplementsFifo
=============================================================================
