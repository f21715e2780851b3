------------------------------ MODULE RxFraming ------------------------------
(***************************************************************************)
(* How HostTask cuts the received byte stream into frames, and how it      *)
(* finds the next frame again after bytes went missing.  host_link.c (USB, *)
(* 694-byte command images) and pdb_link.c (UART4, 64-byte feedback        *)
(* frames) share the algorithm and differ in what the validity check       *)
(* covers: a PDBF carries a CRC over the whole frame, a command image only *)
(* has its header looked at.                                               *)
(*                                                                         *)
(* A byte is known by the frame it was sent in and its offset there; the   *)
(* receiver only looks at magic, header and CRC, through MagicAt and       *)
(* FrameValid.  Payload bytes are assumed never to spell the magic.        *)
(***************************************************************************)
EXTENDS Naturals, Sequences, FiniteSetsExt

CONSTANTS
  FrameLen,    \* PDB_FRAME_BYTES, HOST_COMMAND_IMAGE_BYTES
  MagicLen,    \* 4 in the source
  HeaderLen,   \* bytes host_command_image_valid compares
  Checks,      \* links looked at: with a CRC over the frame or without
  RingCap,     \* bytes the receive ring holds (see ByteRing)
  Frames,      \* bound: frame numbers, reused in a cycle
  MaxFaults,   \* bound: disturbances of the stream
  MaxSkip      \* bound: bytes lost in one disturbance

ASSUME LengthsAssumption ==
  /\ {FrameLen, MagicLen, HeaderLen, RingCap, Frames, MaxSkip} \subseteq Nat \ {0}
  /\ MaxFaults \in Nat /\ Checks \subseteq BOOLEAN
  /\ MagicLen <= HeaderLen /\ HeaderLen <= FrameLen

VARIABLES
  hasCrc,     \* which link: pdb_frame_valid checks a CRC over the frame
  src,        \* the next byte the sender puts on the wire
  fifo,       \* the receive ring
  accum,      \* s_rx_accum / g_cmd_rx_buf up to its fill
  accepted,   \* number of the frame accepted last
  faults,     \* disturbances so far
  slips,      \* those of them that removed bytes instead of garbling one
  torn,       \* accepted frames that no sender sent
  missed      \* frames skipped between accepted ones

vars  == <<hasCrc, src, fifo, accum, accepted, faults, slips, torn, missed>>
tally == <<faults, slips, torn, missed>>

Byte(f, o) == [frame |-> f, off |-> o]
Bytes   == [frame: 0..(Frames - 1), off: 0..(FrameLen - 1)]
Garbled == Byte(0, FrameLen)   \* a byte of no frame

(* The n-th byte the sender sends after b. *)
After(b, n) ==
  Byte((b.frame + (b.off + n) \div FrameLen) % Frames, (b.off + n) % FrameLen)

(* Frames sent between f and g. *)
Between(f, g) == (g + Frames - f - 1) % Frames

Init ==
  /\ hasCrc \in Checks
  /\ src = Byte(0, 0) /\ fifo = <<>> /\ accum = <<>>
  /\ accepted = Frames - 1
  /\ faults = 0 /\ slips = 0 /\ torn = 0 /\ missed = 0

TypeOK ==
  /\ hasCrc \in Checks /\ src \in Bytes
  /\ fifo \in Seq(Bytes \cup {Garbled}) /\ Len(fifo) <= RingCap
  /\ accum \in Seq(Bytes \cup {Garbled}) /\ Len(accum) < FrameLen
  /\ accepted \in 0..(Frames - 1)
  /\ faults \in 0..MaxFaults /\ slips \in 0..faults
  /\ torn \in Nat /\ missed \in Nat

-----------------------------------------------------------------------------
(* The stream as it reaches the ring. *)

Arrives ==
  /\ Len(fifo) < RingCap
  /\ fifo' = Append(fifo, src) /\ src' = After(src, 1)
  /\ UNCHANGED <<hasCrc, accum, accepted, tally>>

(* Noise garbles a byte on its way. *)
ArrivesGarbled ==
  /\ Len(fifo) < RingCap /\ faults < MaxFaults
  /\ fifo' = Append(fifo, Garbled) /\ src' = After(src, 1)
  /\ faults' = faults + 1
  /\ UNCHANGED <<hasCrc, accum, accepted, slips, torn, missed>>

(* Some bytes never reach the ring: an overrun of the UART, a sender that  *)
(* starts over, or a full ring while HostTask is held up by a bench probe  *)
(* (the push then keeps what fits and drops the newest bytes).             *)
Slips ==
  /\ faults < MaxFaults
  /\ \E n \in 1..MaxSkip : src' = After(src, n)
  /\ faults' = faults + 1 /\ slips' = slips + 1
  /\ UNCHANGED <<hasCrc, fifo, accum, accepted, torn, missed>>

-----------------------------------------------------------------------------
(* HostTask: the drain loops of pdb_service_rx and host_link_poll_rx.      *)

(* The last MagicLen - 1 comparisons of a scan read past the accumulator;  *)
(* past says whether the memory there happens to continue the magic.       *)
MagicAt(buf, i, past) ==
  /\ \A k \in 0..(MagicLen - 1) : i + k <= Len(buf) => buf[i + k].off = k
  /\ i + MagicLen - 1 > Len(buf) => past

FrameValid(buf) ==
  IF hasCrc
  THEN \A i \in 1..FrameLen : buf[i] = Byte(buf[1].frame, i - 1)
  ELSE \A i \in 1..HeaderLen : buf[i].off = i - 1

Whole(buf) == \A i \in 1..FrameLen : buf[i] = Byte(buf[1].frame, i - 1)

ResyncMutated(buf, past) ==   \* the scan stops before the last offsets
  LET hits == {i \in 2..(FrameLen - MagicLen) : MagicAt(buf, i, past)} IN
  IF hits = {} THEN <<>> ELSE SubSeq(buf, Min(hits), FrameLen)

(* Slide the first later magic to the front; drop everything if none. *)
Resync(buf, past) ==
  LET hits == {i \in 2..FrameLen : MagicAt(buf, i, past)} IN
  IF hits = {} THEN <<>> ELSE SubSeq(buf, Min(hits), FrameLen)

Accept(buf) ==
  /\ accum' = <<>>
  /\ accepted' = buf[1].frame
  /\ torn' = IF Whole(buf) THEN torn ELSE torn + 1
  /\ missed' = missed + Between(accepted, accepted')

Rejects(buf) ==
  /\ \E past \in BOOLEAN : accum' = Resync(buf, past)
  /\ UNCHANGED <<accepted, torn, missed>>

AccumulatesMutated ==   \* a bad frame flushes the ring as well
  /\ fifo # <<>>
  /\ LET buf == Append(accum, Head(fifo)) IN
       IF Len(buf) < FrameLen
       THEN accum' = buf /\ fifo' = Tail(fifo) /\ UNCHANGED <<accepted, torn, missed>>
       ELSE IF FrameValid(buf) THEN Accept(buf) /\ fifo' = Tail(fifo)
                               ELSE Rejects(buf) /\ fifo' = <<>>
  /\ UNCHANGED <<hasCrc, src, faults, slips>>

(* Byte by byte: the chunks of a read make no difference, since each byte  *)
(* is appended in order and a full accumulator is dealt with at once.      *)
Accumulates ==
  /\ fifo # <<>>
  /\ fifo' = Tail(fifo)
  /\ LET buf == Append(accum, Head(fifo)) IN
       IF Len(buf) < FrameLen
       THEN accum' = buf /\ UNCHANGED <<accepted, torn, missed>>
       ELSE IF FrameValid(buf) THEN Accept(buf) ELSE Rejects(buf)
  /\ UNCHANGED <<hasCrc, src, faults, slips>>

Next == Arrives \/ ArrivesGarbled \/ Slips \/ Accumulates

(* The peer keeps sending and HostTask keeps draining. *)
Spec == Init /\ [][Next]_vars /\ WF_vars(Arrives) /\ WF_vars(Accumulates)
-----------------------------------------------------------------------------
(* A garbled byte costs the frame it was in and no other: a miss without a *)
(* later magic drops exactly the bad frame and stays aligned.              *)
GarbledCostsOneFrame == slips = 0 => missed <= faults

KeepsAccepting == \A f \in 0..(Frames - 1) : []<>(accepted = f)
SplitMagic == accum # <<>> => accum[1].off \in 1..(MagicLen - 1)

(* Once the disturbances are over, the receiver finds the frames again,    *)
(* unless the stream came to rest with the end of the accumulator inside a *)
(* magic: 3 of the 64 (or 694) alignments.                                 *)
StuckOnlyWhenSplit == KeepsAccepting \/ <>[]SplitMagic
=============================================================================
