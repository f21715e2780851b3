----------------------------- MODULE Links_proofs -----------------------------
(***************************************************************************)
(* The byte links.  The receive side, for every size of the ring, of a      *)
(* packet and of the reader's chunk, every set of byte values, every length *)
(* of a frame, its header and its magic, and any number of faults: the      *)
(* unlocked ring implements the bounded pipe, and the framing behind it     *)
(* loses one frame to a garbled byte.  The transmit side of the link to the *)
(* power board, for every frame length, transmit period and set of          *)
(* commanded states and verdicts: the board gets whole commands.           *)
(***************************************************************************)
EXTENDS MCReceive, PdbTransmit, SequenceTheorems, FiniteSetTheorems, Integers, TLAPS

-----------------------------------------------------------------------------
(* The ring. *)

(* One subtraction at most undoes the sum of two indices.                  *)
LEMMA Wrap ==
  ASSUME Ring!Sizes, NEW a \in 0..(2 * RingSize - 1)
  PROVE  a % RingSize = IF a < RingSize THEN a ELSE a - RingSize
<1>1. RingSize \in Nat \ {0}
  BY DEF Ring!Sizes
<1>2. CASE a < RingSize
  <2>1. a \in 0..(RingSize - 1)
    BY <1>1, <1>2
  <2>2. QED
    BY <1>1, <1>2, <2>1
<1>3. CASE ~(a < RingSize)
  <2>1. a \in Nat /\ a \div RingSize = 1
    BY <1>1, <1>3
  <2>2. a = (RingSize * (a \div RingSize)) + (a % RingSize)
    BY <1>1, <2>1
  <2>3. QED
    BY <1>1, <1>3, <2>1, <2>2
<1>4. QED
  BY <1>2, <1>3

(* The distance between two indices, and the room left, without a modulus. *)
LEMMA DistIs ==
  ASSUME Ring!Sizes, NEW s \in Ring!Slot, NEW t \in Ring!Slot
  PROVE  /\ Ring!Dist(s, t) = IF s <= t THEN t - s ELSE t + RingSize - s
         /\ Ring!Dist(s, t) \in 0..(RingSize - 1)
<1>1. RingSize \in Nat /\ s \in 0..(RingSize - 1) /\ t \in 0..(RingSize - 1)
  BY DEF Ring!Sizes, Ring!Slot
<1>2. t + RingSize - s \in 0..(2 * RingSize - 1)
  BY <1>1
<1>3. QED
  BY <1>1, <1>2, Wrap DEF Ring!Dist

LEMMA FreeIs ==
  ASSUME Ring!Sizes, Ring!SlotsOK
  PROVE  Ring!Free = RingSize - 1 - Ring!Dist(tail, head)
<1>1. RingSize \in Nat /\ tail \in 0..(RingSize - 1) /\ head \in 0..(RingSize - 1)
  BY DEF Ring!Sizes, Ring!SlotsOK, Ring!Slot
<1>2. tail + RingSize - head - 1 \in 0..(2 * RingSize - 1)
  BY <1>1
<1>3. Ring!Dist(tail, head) = IF tail <= head THEN head - tail ELSE head + RingSize - tail
  BY DistIs DEF Ring!SlotsOK
<1>4. QED
  BY <1>1, <1>2, <1>3, Wrap DEF Ring!Free

(* Going on from a slot: how far it is, and which slot it is.              *)
LEMMA StepIs ==
  ASSUME Ring!Sizes, NEW s \in Ring!Slot, NEW k \in 0..(RingSize - 1)
  PROVE  /\ (s + k) % RingSize = IF s + k < RingSize THEN s + k ELSE s + k - RingSize
         /\ (s + k) % RingSize \in Ring!Slot
         /\ Ring!Dist(s, (s + k) % RingSize) = k
<1>1. RingSize \in Nat /\ s \in 0..(RingSize - 1) /\ k \in 0..(RingSize - 1)
  BY DEF Ring!Sizes, Ring!Slot
<1>2. s + k \in 0..(2 * RingSize - 1)
  BY <1>1
<1>3. (s + k) % RingSize = IF s + k < RingSize THEN s + k ELSE s + k - RingSize
  BY <1>1, <1>2, Wrap
<1>4. (s + k) % RingSize \in Ring!Slot
  BY <1>1, <1>3 DEF Ring!Slot
<1>5. QED
  BY <1>1, <1>3, <1>4, DistIs

-----------------------------------------------------------------------------
(* The bytes of an array between two indices, as a sequence; Contents is   *)
(* the stretch between tail and head, before and after a step.             *)
Stretch(r, t, h) == [i \in 1..Ring!Dist(t, h) |-> r[(t + i - 1) % RingSize]]

LEMMA ContentsIs ==
  /\ Ring!Contents = Stretch(ring, tail, head)
  /\ Ring!Contents' = Stretch(ring', tail', head')
BY DEF Ring!Contents, Stretch, Ring!Dist

LEMMA StretchIs ==
  ASSUME Ring!Sizes, NEW r \in [Ring!Slot -> RingBytes], NEW t \in Ring!Slot, NEW h \in Ring!Slot
  PROVE  /\ Stretch(r, t, h) \in Seq(RingBytes) /\ Len(Stretch(r, t, h)) = Ring!Dist(t, h)
         /\ Ring!Dist(t, h) \in 0..(RingSize - 1)
         /\ \A i \in 1..Ring!Dist(t, h) :
              /\ Stretch(r, t, h)[i] = r[(t + i - 1) % RingSize]
              /\ (t + i - 1) % RingSize \in Ring!Slot
<1>1. Ring!Dist(t, h) \in 0..(RingSize - 1) /\ RingSize \in Nat
  BY DistIs DEF Ring!Sizes
<1>2. ASSUME NEW i \in 1..Ring!Dist(t, h)
      PROVE  (t + i - 1) % RingSize \in Ring!Slot
  <2>1. i - 1 \in 0..(RingSize - 1) /\ t + i - 1 = t + (i - 1)
    BY <1>1 DEF Ring!Slot
  <2>2. QED
    BY <2>1, StepIs
<1>3. Stretch(r, t, h) \in [1..Ring!Dist(t, h) -> RingBytes]
  BY <1>2 DEF Stretch
<1>4. QED
  BY <1>1, <1>2, <1>3 DEF Stretch

(* The distances a push and a read change.                                 *)
LEMMA HeadMoves ==
  ASSUME Ring!Sizes, NEW t \in Ring!Slot, NEW h \in Ring!Slot,
         NEW k \in 0..(RingSize - 1 - Ring!Dist(t, h))
  PROVE  Ring!Dist(t, (h + k) % RingSize) = Ring!Dist(t, h) + k
<1>1. /\ RingSize \in Nat /\ t \in 0..(RingSize - 1) /\ h \in 0..(RingSize - 1)
      /\ Ring!Dist(t, h) = IF t <= h THEN h - t ELSE h + RingSize - t
      /\ k \in 0..(RingSize - 1)
  BY DistIs DEF Ring!Sizes, Ring!Slot
<1>2. /\ (h + k) % RingSize = IF h + k < RingSize THEN h + k ELSE h + k - RingSize
      /\ (h + k) % RingSize \in Ring!Slot
  BY <1>1, StepIs
<1>3. Ring!Dist(t, (h + k) % RingSize) =
        IF t <= (h + k) % RingSize THEN ((h + k) % RingSize) - t ELSE ((h + k) % RingSize) + RingSize - t
  BY <1>2, DistIs
<1>4. QED
  BY <1>1, <1>2, <1>3

LEMMA TailMoves ==
  ASSUME Ring!Sizes, NEW t \in Ring!Slot, NEW h \in Ring!Slot, NEW k \in 0..Ring!Dist(t, h)
  PROVE  Ring!Dist((t + k) % RingSize, h) = Ring!Dist(t, h) - k
<1>1. /\ RingSize \in Nat /\ t \in 0..(RingSize - 1) /\ h \in 0..(RingSize - 1)
      /\ Ring!Dist(t, h) = IF t <= h THEN h - t ELSE h + RingSize - t
      /\ k \in 0..(RingSize - 1)
  BY DistIs DEF Ring!Sizes, Ring!Slot
<1>2. /\ (t + k) % RingSize = IF t + k < RingSize THEN t + k ELSE t + k - RingSize
      /\ (t + k) % RingSize \in Ring!Slot
  BY <1>1, StepIs
<1>3. Ring!Dist((t + k) % RingSize, h) =
        IF (t + k) % RingSize <= h THEN h - ((t + k) % RingSize) ELSE h + RingSize - ((t + k) % RingSize)
  BY <1>2, DistIs
<1>4. QED
  BY <1>1, <1>2, <1>3

-----------------------------------------------------------------------------
(* The producer.  What a push writes lies outside the stretch the consumer *)
(* may be copying, and extends it.                                         *)
LEMMA PushExtends ==
  ASSUME Ring!Sizes, Ring!SlotsOK, NEW n \in 1..MaxPush, NEW bytes \in [1..n -> RingBytes],
         Ring!Push(bytes)
  PROVE  /\ Ring!SlotsOK' /\ Ring!Fifo!Push(bytes)
         /\ Ring!Dist(tail', head') >= Ring!Dist(tail, head)
         /\ \A i \in 1..Ring!Dist(tail, head) :
              ring'[(tail + i - 1) % RingSize] = ring[(tail + i - 1) % RingSize]
<1> DEFINE take == Ring!Least(n, Ring!Free)
           dist == Ring!Dist(tail, head)
<1>0. /\ RingSize \in Nat \ {0, 1} /\ n \in Nat /\ n < RingSize
      /\ tail \in Ring!Slot /\ head \in Ring!Slot /\ sawHead \in Ring!Slot
      /\ ring \in [Ring!Slot -> RingBytes]
  BY DEF Ring!Sizes, Ring!SlotsOK
<1>1. /\ dist \in 0..(RingSize - 1) /\ Ring!Free = RingSize - 1 - dist
      /\ dist = IF tail <= head THEN head - tail ELSE head + RingSize - tail
      /\ tail \in 0..(RingSize - 1) /\ head \in 0..(RingSize - 1)
  BY <1>0, DistIs, FreeIs DEF Ring!Slot
<1>2. bytes \in Seq(RingBytes) /\ Len(bytes) = n
  BY <1>0
<1>3. /\ take \in 1..(RingSize - 1 - dist) /\ take <= n
      /\ ring' = [s \in Ring!Slot |-> IF Ring!Dist(head, s) < take
                                 THEN bytes[Ring!Dist(head, s) + 1] ELSE ring[s]]
      /\ head' = (head + take) % RingSize
      /\ UNCHANGED <<tail, sawHead, out>>
  BY <1>0, <1>1, <1>2 DEF Ring!Push, Ring!Least
<1>4. /\ Ring!Contents \in Seq(RingBytes) /\ Len(Ring!Contents) = dist
      /\ \A i \in 1..dist : Ring!Contents[i] = ring[(tail + i - 1) % RingSize]
  <2>1. /\ Stretch(ring, tail, head) \in Seq(RingBytes)
        /\ Len(Stretch(ring, tail, head)) = Ring!Dist(tail, head)
        /\ \A i \in 1..Ring!Dist(tail, head) :
             Stretch(ring, tail, head)[i] = ring[(tail + i - 1) % RingSize]
    BY <1>0, StretchIs
  <2>2. QED
    BY <2>1, ContentsIs
<1> HIDE DEF take
<1>5. /\ head' \in Ring!Slot /\ Ring!Dist(tail, head') = dist + take
  <2>1. take \in 0..(RingSize - 1 - Ring!Dist(tail, head)) /\ take \in 0..(RingSize - 1)
    BY <1>0, <1>1, <1>3
  <2>2. (head + take) % RingSize \in Ring!Slot
    BY <1>0, <2>1, StepIs
  <2>3. Ring!Dist(tail, (head + take) % RingSize) = Ring!Dist(tail, head) + take
    BY <1>0, <2>1, HeadMoves
  <2>4. QED
    BY <1>3, <2>2, <2>3
<1> HIDE DEF dist
<1>6. ring' \in [Ring!Slot -> RingBytes]
  <2>1. ASSUME NEW s \in Ring!Slot, Ring!Dist(head, s) < take
        PROVE  bytes[Ring!Dist(head, s) + 1] \in RingBytes
    <3>1. Ring!Dist(head, s) \in 0..(RingSize - 1)
      BY <1>0, DistIs
    <3>2. Ring!Dist(head, s) + 1 \in 1..n
      BY <1>0, <1>3, <2>1, <3>1
    <3>3. QED
      BY <3>2
  <2>2. QED
    BY <1>0, <1>3, <2>1
<1>7. Ring!SlotsOK'
  BY <1>0, <1>3, <1>5, <1>6 DEF Ring!SlotsOK, Ring!Slot
<1>8. ASSUME NEW i \in 1..dist
      PROVE  ring'[(tail + i - 1) % RingSize] = ring[(tail + i - 1) % RingSize]
  <2> DEFINE s == (tail + (i - 1)) % RingSize
  <2>1. i - 1 \in 0..(RingSize - 1) /\ tail + i - 1 = tail + (i - 1)
    BY <1>0, <1>1
  <2>2. /\ s = IF tail + (i - 1) < RingSize THEN tail + (i - 1) ELSE tail + (i - 1) - RingSize
        /\ s \in Ring!Slot
    BY <1>0, <2>1, StepIs
  <2> HIDE DEF s
  <2>3. /\ Ring!Dist(head, s) = IF head <= s THEN s - head ELSE s + RingSize - head
        /\ s \in 0..(RingSize - 1)
    BY <1>0, <2>2, DistIs DEF Ring!Slot
  <2>4. Ring!Dist(head, s) >= take /\ Ring!Dist(head, s) \in Nat
    BY <1>0, <1>1, <1>3, <2>1, <2>2, <2>3
  <2>5. ring'[s] = ring[s]
    BY <1>3, <2>2, <2>4
  <2>6. QED
    BY <2>1, <2>5 DEF s
<1>9. ASSUME NEW j \in 1..take
      PROVE  ring'[(tail + (dist + j) - 1) % RingSize] = bytes[j]
  <2>1. j - 1 \in 0..(RingSize - 1)
    BY <1>0, <1>1, <1>3
  <2>2. (tail + (dist + j) - 1) % RingSize = (head + (j - 1)) % RingSize
    <3>1. dist + (j - 1) \in 0..(RingSize - 1) /\ tail + (dist + j) - 1 = tail + (dist + (j - 1))
      BY <1>0, <1>1, <1>3
    <3>2. (tail + (dist + (j - 1))) % RingSize =
            IF tail + (dist + (j - 1)) < RingSize THEN tail + (dist + (j - 1))
                                              ELSE tail + (dist + (j - 1)) - RingSize
      BY <1>0, <3>1, StepIs
    <3>3. (head + (j - 1)) % RingSize =
            IF head + (j - 1) < RingSize THEN head + (j - 1) ELSE head + (j - 1) - RingSize
      BY <1>0, <2>1, StepIs
    <3>4. QED
      BY <1>0, <1>1, <1>3, <2>1, <3>1, <3>2, <3>3
  <2>3. (head + (j - 1)) % RingSize \in Ring!Slot /\ Ring!Dist(head, (head + (j - 1)) % RingSize) = j - 1
    BY <1>0, <2>1, StepIs
  <2>4. QED
    BY <1>0, <1>1, <1>3, <2>1, <2>2, <2>3
<1>10. Ring!Contents' = Ring!Contents \o SubSeq(bytes, 1, take)
  <2>1. dist \in Nat /\ take \in Nat
    BY <1>0, <1>1, <1>3
  <2>2. /\ Ring!Contents' \in Seq(RingBytes) /\ Len(Ring!Contents') = dist + take
        /\ \A i \in 1..(dist + take) : Ring!Contents'[i] = ring'[(tail + i - 1) % RingSize]
    <3>1. /\ Stretch(ring', tail, head') \in Seq(RingBytes)
          /\ Len(Stretch(ring', tail, head')) = Ring!Dist(tail, head')
          /\ \A i \in 1..Ring!Dist(tail, head') :
               Stretch(ring', tail, head')[i] = ring'[(tail + i - 1) % RingSize]
      <4>1. tail \in Ring!Slot /\ head' \in Ring!Slot /\ ring' \in [Ring!Slot -> RingBytes]
        BY <1>0, <1>5, <1>6
      <4>2. QED
        BY <4>1, StretchIs
    <3>2. Ring!Contents' = Stretch(ring', tail, head')
      BY <1>3, ContentsIs
    <3>3. QED
      BY <1>5, <3>1, <3>2
  <2> DEFINE kept == SubSeq(bytes, 1, take)
  <2>3. /\ kept \in Seq(RingBytes) /\ Len(kept) = take
        /\ \A i \in 1..take : kept[i] = bytes[i]
    BY <1>0, <1>1, <1>3, SubSeqProperties
  <2> HIDE DEF kept
  <2>4. /\ Ring!Contents \o kept \in Seq(RingBytes) /\ Len(Ring!Contents \o kept) = dist + take
        /\ \A i \in 1..(dist + take) :
             (Ring!Contents \o kept)[i] = IF i <= dist THEN Ring!Contents[i] ELSE kept[i - dist]
    <3>1. /\ Ring!Contents \o kept \in Seq(RingBytes)
          /\ Len(Ring!Contents \o kept) = Len(Ring!Contents) + Len(kept)
          /\ \A i \in 1..(Len(Ring!Contents) + Len(kept)) : (Ring!Contents \o kept)[i] =
               IF i <= Len(Ring!Contents) THEN Ring!Contents[i] ELSE kept[i - Len(Ring!Contents)]
      BY <1>4, <2>3, ConcatProperties
    <3>2. QED
      BY <1>4, <2>3, <3>1
  <2>5. ASSUME NEW i \in 1..(dist + take)
        PROVE  Ring!Contents'[i] = (Ring!Contents \o kept)[i]
    <3>1. CASE i <= dist
      <4>1. i \in 1..dist
        BY <2>1, <3>1
      <4>2. QED
        BY <1>4, <1>8, <2>2, <2>4, <3>1, <4>1
    <3>2. CASE ~(i <= dist)
      <4>1. i - dist \in 1..take /\ i = dist + (i - dist)
        BY <1>1, <1>3, <3>2
      <4>2. ring'[(tail + i - 1) % RingSize] = bytes[i - dist]
        BY <1>9, <4>1
      <4>3. QED
        BY <2>1, <2>2, <2>3, <2>4, <3>2, <4>1, <4>2
    <3>3. QED
      BY <3>1, <3>2
  <2>6. QED
    BY <2>2, <2>4, <2>5, SeqEqual DEF kept
<1>11. Ring!Fifo!Push(bytes)
  <2>1. take = Ring!Fifo!Least(Len(bytes), (RingSize - 1) - Len(Ring!Contents))
    BY <1>1, <1>2, <1>4 DEF take, Ring!Least, Ring!Fifo!Least
  <2>2. QED
    BY <1>3, <1>10, <2>1 DEF Ring!Fifo!Push
<1>12. Ring!Dist(tail', head') >= dist
  <2>1. tail' = tail /\ dist + take >= dist
    BY <1>1, <1>3
  <2>2. QED
    BY <1>5, <2>1
<1>13. QED
  BY <1>7, <1>8, <1>11, <1>12 DEF dist


-----------------------------------------------------------------------------
(* The consumer.  A read that has begun has at least one byte to move and  *)
(* no more than lie between its tail and its copy of head.                 *)
LEMMA ChunkIs ==
  ASSUME Ring!Sizes, NEW t \in Ring!Slot, NEW h \in Ring!Slot
  PROVE  /\ Ring!Least(MaxRead, Ring!Dist(t, h)) \in 0..Ring!Dist(t, h)
         /\ t # h => Ring!Least(MaxRead, Ring!Dist(t, h)) >= 1
<1>1. /\ Ring!Dist(t, h) \in 0..(RingSize - 1) /\ RingSize \in Nat /\ MaxRead \in Nat \ {0}
      /\ Ring!Dist(t, h) = IF t <= h THEN h - t ELSE h + RingSize - t
      /\ t \in 0..(RingSize - 1) /\ h \in 0..(RingSize - 1)
  BY DistIs DEF Ring!Sizes, Ring!Slot
<1>2. QED
  BY <1>1 DEF Ring!Least

(* What a read under way has copied is a beginning of the pipe.            *)
LEMMA ReadingIs ==
  ASSUME Ring!Sizes, Ring!RingInv, reading
  PROVE  /\ Ring!Avail \in 1..Ring!Dist(tail, head) /\ Ring!Avail \in 0..(RingSize - 1)
         /\ Len(copied) \in 0..Ring!Avail
         /\ Ring!Dist(tail, head) \in 0..(RingSize - 1)
<1>1. /\ tail \in Ring!Slot /\ head \in Ring!Slot /\ sawHead \in Ring!Slot /\ tail # sawHead
      /\ Ring!Dist(tail, sawHead) <= Ring!Dist(tail, head) /\ copied \in Seq(RingBytes)
      /\ Len(copied) <= Ring!Avail
  BY DEF Ring!RingInv, Ring!SlotsOK, Ring!CopyOK
<1>2. Ring!Avail \in 0..Ring!Dist(tail, sawHead) /\ Ring!Avail >= 1
  BY <1>1, ChunkIs DEF Ring!Avail
<1>3. Ring!Dist(tail, sawHead) \in 0..(RingSize - 1) /\ Ring!Dist(tail, head) \in 0..(RingSize - 1)
  BY <1>1, DistIs
<1>4. RingSize \in Nat /\ Len(copied) \in Nat
  BY <1>1 DEF Ring!Sizes
<1>5. QED
  BY <1>1, <1>2, <1>3, <1>4

(* A push leaves alone what has been copied, and its source.               *)
LEMMA PushKeepsCopy ==
  ASSUME Ring!Sizes, Ring!RingInv, NEW n \in 1..MaxPush, NEW bytes \in [1..n -> RingBytes],
         Ring!Push(bytes)
  PROVE  Ring!RingInv'
<1>1. /\ Ring!SlotsOK' /\ Ring!Dist(tail', head') >= Ring!Dist(tail, head)
      /\ \A i \in 1..Ring!Dist(tail, head) :
           ring'[(tail + i - 1) % RingSize] = ring[(tail + i - 1) % RingSize]
  BY PushExtends DEF Ring!RingInv
<1>2. UNCHANGED <<tail, sawHead, copied, reading>>
  BY DEF Ring!Push
<1>3. copied \in Seq(RingBytes) /\ reading \in BOOLEAN
  BY DEF Ring!RingInv, Ring!CopyOK
<1>4. CASE ~reading
  BY <1>1, <1>2, <1>3, <1>4 DEF Ring!RingInv, Ring!CopyOK
<1>5. CASE reading
  <2>1. /\ sawHead # tail /\ Ring!Dist(tail, sawHead) <= Ring!Dist(tail, head)
        /\ Len(copied) <= Ring!Avail
        /\ \A i \in 1..Len(copied) : copied[i] = ring[(tail + i - 1) % RingSize]
    BY <1>5 DEF Ring!RingInv, Ring!CopyOK
  <2>2. Ring!Avail' = Ring!Avail
    BY <1>2 DEF Ring!Avail, Ring!Dist
  <2>3. Ring!Dist(tail, sawHead) <= Ring!Dist(tail, head')
    <3>1. /\ Ring!Dist(tail, head') \in Int /\ Ring!Dist(tail, head) \in Int
          /\ Ring!Dist(tail, sawHead) \in Int
      BY <1>1, <1>2, DistIs DEF Ring!RingInv, Ring!SlotsOK
    <3>2. QED
      BY <1>1, <1>2, <2>1, <3>1
  <2>4. ASSUME NEW i \in 1..Len(copied)
        PROVE  copied[i] = ring'[(tail + i - 1) % RingSize]
    <3>1. i \in 1..Ring!Dist(tail, head)
      BY <1>5, ReadingIs
    <3>2. QED
      BY <1>1, <2>1, <3>1
  <2>5. QED
    BY <1>1, <1>2, <1>3, <2>1, <2>2, <2>3, <2>4 DEF Ring!RingInv, Ring!CopyOK
<1>6. QED
  BY <1>3, <1>4, <1>5

(* Every step keeps the invariant of the read (usb_read, pdb_rx_drain).    *)
LEMMA RingInvStep ==
  ASSUME Ring!Sizes, Ring!RingInv, [Ring!Next]_Ring!vars
  PROVE  Ring!RingInv'
<1> USE DEF Ring!RingInv
<1>1. ASSUME NEW n \in 1..MaxPush, NEW bytes \in [1..n -> RingBytes], Ring!Push(bytes)
      PROVE  Ring!RingInv'
  BY <1>1, PushKeepsCopy
<1>2. CASE Ring!ReadsHead
  <2>1. tail \in Ring!Slot /\ head \in Ring!Slot
    BY DEF Ring!SlotsOK
  <2>2. Ring!Dist(tail, head) \in Int /\ Ring!Least(MaxRead, Ring!Dist(tail, head)) \in Nat
    BY <2>1, DistIs, ChunkIs
  <2>3. Ring!Avail' = Ring!Least(MaxRead, Ring!Dist(tail, head))
    BY <1>2 DEF Ring!ReadsHead, Ring!Avail, Ring!Dist, Ring!Least
  <2>4. QED
    BY <1>2, <2>1, <2>2, <2>3 DEF Ring!ReadsHead, Ring!SlotsOK, Ring!CopyOK, Ring!Slot
<1>3. CASE Ring!CopiesByte
  <2>1. reading /\ UNCHANGED <<ring, head, tail, sawHead, reading>>
    BY <1>3 DEF Ring!CopiesByte
  <2>2. copied \in Seq(RingBytes) /\ Len(copied) \in Nat /\ Len(copied) + 1 <= Ring!Avail
    BY <1>3, <2>1, ReadingIs DEF Ring!CopiesByte, Ring!CopyOK
  <2>3. (tail + Len(copied)) % RingSize \in Ring!Slot
    <3>1. Len(copied) \in 0..(RingSize - 1) /\ tail \in Ring!Slot
      BY <2>1, <2>2, ReadingIs DEF Ring!SlotsOK, Ring!Sizes
    <3>2. QED
      BY <3>1, StepIs
  <2>4. /\ copied' \in Seq(RingBytes) /\ Len(copied') = Len(copied) + 1
        /\ \A i \in 1..Len(copied) : copied'[i] = copied[i]
        /\ copied'[Len(copied) + 1] = ring[(tail + Len(copied)) % RingSize]
    BY <1>3, <2>2, <2>3 DEF Ring!CopiesByte, Ring!SlotsOK
  <2>5. ASSUME NEW i \in 1..Len(copied')
        PROVE  copied'[i] = ring[(tail + i - 1) % RingSize]
    <3>1. CASE i \in 1..Len(copied)
      BY <2>1, <2>4, <3>1 DEF Ring!CopyOK
    <3>2. CASE i = Len(copied) + 1
      <4>1. tail + i - 1 = tail + Len(copied)
        BY <2>2, <3>2 DEF Ring!SlotsOK, Ring!Slot
      <4>2. QED
        BY <2>4, <3>2, <4>1
    <3>3. QED
      BY <2>2, <2>4, <3>1, <3>2
  <2>6. Ring!Avail' = Ring!Avail
    BY <2>1 DEF Ring!Avail, Ring!Dist
  <2>7. QED
    BY <2>1, <2>2, <2>4, <2>5, <2>6 DEF Ring!SlotsOK, Ring!CopyOK
<1>4. CASE Ring!AdvancesTail
  <2>1. Ring!Avail \in 0..(RingSize - 1) /\ tail \in Ring!Slot
    BY <1>4, ReadingIs DEF Ring!AdvancesTail, Ring!SlotsOK
  <2>2. (tail + Ring!Avail) % RingSize \in Ring!Slot
    BY <2>1, StepIs
  <2>3. QED
    BY <1>4, <2>2 DEF Ring!AdvancesTail, Ring!SlotsOK, Ring!CopyOK
<1>5. CASE UNCHANGED Ring!vars
  BY <1>5 DEF Ring!vars, Ring!SlotsOK, Ring!CopyOK, Ring!Avail, Ring!Dist, Ring!Least
<1>6. QED
  BY <1>1, <1>2, <1>3, <1>4, <1>5 DEF Ring!Next, Ring!Read

(* The tail update is the abstract read of the chunk.                      *)
LEMMA TailUpdateReads ==
  ASSUME Ring!Sizes, Ring!RingInv, Ring!AdvancesTail
  PROVE  Ring!Avail \in 1..Len(Ring!Contents) /\ Ring!Fifo!Read(Ring!Avail)
<1> DEFINE n == Ring!Avail
           dist == Ring!Dist(tail, head)
<1>1. /\ reading /\ Len(copied) = n /\ tail' = (tail + n) % RingSize /\ out' = copied
      /\ head' = head /\ ring' = ring
  BY DEF Ring!AdvancesTail
<1>2. n \in 1..dist /\ n \in 0..(RingSize - 1) /\ dist \in 0..(RingSize - 1) /\ RingSize \in Nat
  BY <1>1, ReadingIs DEF Ring!Sizes
<1>3. tail \in Ring!Slot /\ head \in Ring!Slot /\ ring \in [Ring!Slot -> RingBytes]
  BY DEF Ring!RingInv, Ring!SlotsOK
<1>4. /\ copied \in Seq(RingBytes)
      /\ \A i \in 1..n : copied[i] = ring[(tail + i - 1) % RingSize]
  BY <1>1 DEF Ring!RingInv, Ring!CopyOK
<1>5. /\ Ring!Contents \in Seq(RingBytes) /\ Len(Ring!Contents) = dist
      /\ \A i \in 1..dist : Ring!Contents[i] = ring[(tail + i - 1) % RingSize]
  <2>1. /\ Stretch(ring, tail, head) \in Seq(RingBytes)
        /\ Len(Stretch(ring, tail, head)) = Ring!Dist(tail, head)
        /\ \A i \in 1..Ring!Dist(tail, head) :
             Stretch(ring, tail, head)[i] = ring[(tail + i - 1) % RingSize]
    BY <1>3, StretchIs
  <2>2. QED
    BY <2>1, ContentsIs
<1>6. (tail + n) % RingSize \in Ring!Slot /\ Ring!Dist((tail + n) % RingSize, head) = dist - n
  <2>1. n \in 0..Ring!Dist(tail, head)
    BY <1>2
  <2>2. QED
    BY <1>2, <1>3, <2>1, StepIs, TailMoves
<1>7. /\ Ring!Contents' \in Seq(RingBytes) /\ Len(Ring!Contents') = dist - n
      /\ \A i \in 1..(dist - n) : Ring!Contents'[i] = ring[(((tail + n) % RingSize) + i - 1) % RingSize]
  <2> DEFINE t == (tail + n) % RingSize
  <2>1. t \in Ring!Slot
    BY <1>6
  <2>2. Ring!Contents' = Stretch(ring, t, head)
    BY <1>1, ContentsIs
  <2> HIDE DEF t
  <2>3. /\ Stretch(ring, t, head) \in Seq(RingBytes)
        /\ Len(Stretch(ring, t, head)) = Ring!Dist(t, head)
        /\ \A i \in 1..Ring!Dist(t, head) :
             Stretch(ring, t, head)[i] = ring[(t + i - 1) % RingSize]
    BY <1>3, <2>1, StretchIs
  <2>4. QED
    BY <1>6, <2>2, <2>3 DEF t
<1> HIDE DEF n, dist
<1>8. out' = SubSeq(Ring!Contents, 1, n)
  <2>1. \A i \in 1..n : Ring!Contents[i] \in RingBytes
    BY <1>2, <1>5
  <2>2. /\ SubSeq(Ring!Contents, 1, n) \in Seq(RingBytes) /\ Len(SubSeq(Ring!Contents, 1, n)) = n
        /\ \A i \in 1..n : SubSeq(Ring!Contents, 1, n)[i] = Ring!Contents[i]
    BY <1>2, <2>1, SubSeqProperties
  <2>3. \A i \in 1..n : copied[i] = SubSeq(Ring!Contents, 1, n)[i]
    BY <1>2, <1>4, <1>5, <2>2
  <2>4. QED
    BY <1>1, <1>4, <2>2, <2>3, SeqEqual DEF n
<1>9. Ring!Contents' = SubSeq(Ring!Contents, n + 1, Len(Ring!Contents))
  <2> DEFINE rest == SubSeq(Ring!Contents, n + 1, Len(Ring!Contents))
  <2>1. \A i \in (n + 1)..dist : Ring!Contents[i] \in RingBytes
    BY <1>2, <1>5
  <2>2. /\ rest \in Seq(RingBytes) /\ Len(rest) = dist - n
        /\ \A i \in 1..(dist - n) : rest[i] = Ring!Contents[n + i]
    BY <1>2, <1>5, <2>1, SubSeqProperties
  <2> HIDE DEF rest
  <2>3. ASSUME NEW i \in 1..(dist - n)
        PROVE  (((tail + n) % RingSize) + i - 1) % RingSize = (tail + (n + i) - 1) % RingSize
    <3>1. i - 1 \in 0..(RingSize - 1) /\ n + (i - 1) \in 0..(RingSize - 1)
      BY <1>2
    <3>2. (tail + n) % RingSize = IF tail + n < RingSize THEN tail + n ELSE tail + n - RingSize
      BY <1>2, <1>3, StepIs
    <3>3. (((tail + n) % RingSize) + (i - 1)) % RingSize =
            IF ((tail + n) % RingSize) + (i - 1) < RingSize THEN ((tail + n) % RingSize) + (i - 1)
            ELSE ((tail + n) % RingSize) + (i - 1) - RingSize
      BY <1>6, <3>1, StepIs
    <3>4. (tail + (n + (i - 1))) % RingSize =
            IF tail + (n + (i - 1)) < RingSize THEN tail + (n + (i - 1))
            ELSE tail + (n + (i - 1)) - RingSize
      BY <1>3, <3>1, StepIs
    <3>5. /\ tail \in 0..(RingSize - 1) /\ tail + (n + i) - 1 = tail + (n + (i - 1))
          /\ ((tail + n) % RingSize) + i - 1 = ((tail + n) % RingSize) + (i - 1)
          /\ (tail + n) % RingSize \in 0..(RingSize - 1)
      BY <1>2, <1>3, <1>6 DEF Ring!Slot
    <3>6. QED
      BY <1>2, <3>1, <3>2, <3>3, <3>4, <3>5
  <2>4. ASSUME NEW i \in 1..(dist - n)
        PROVE  Ring!Contents'[i] = rest[i]
    <3>1. n + i \in 1..dist
      BY <1>2
    <3>2. Ring!Contents[n + i] = ring[(tail + (n + i) - 1) % RingSize]
      BY <1>5, <3>1
    <3>3. QED
      BY <1>7, <2>2, <2>3, <3>2
  <2>5. QED
    BY <1>7, <2>2, <2>4, SeqEqual DEF rest
<1>10. QED
  BY <1>2, <1>5, <1>8, <1>9 DEF Ring!Fifo!Read, n

-----------------------------------------------------------------------------
(* The read keeps what it relies on, wherever the interrupt cuts in.       *)
THEOREM ReadIsSafe ==
  ASSUME Ring!Sizes
  PROVE  Ring!Spec => []Ring!RingInv
<1>1. Ring!Init => Ring!RingInv
  <2> SUFFICES ASSUME Ring!Init PROVE Ring!RingInv
    OBVIOUS
  <2>1. 0 \in Ring!Slot /\ ring \in [Ring!Slot -> RingBytes]
    BY DEF Ring!Init, Ring!Slot, Ring!Sizes
  <2>2. QED
    BY <2>1 DEF Ring!Init, Ring!RingInv, Ring!SlotsOK, Ring!CopyOK
<1>2. Ring!RingInv /\ [Ring!Next]_Ring!vars => Ring!RingInv'
  BY RingInvStep
<1>3. QED
  BY <1>1, <1>2, PTL DEF Ring!Spec

(* The ring refines the pipe, its array and indices mapped to the bytes    *)
(* between them.                                                           *)
THEOREM RingIsFifo ==
  ASSUME Ring!Sizes
  PROVE  Ring!Spec => Ring!ImplementsFifo
<1>1. Ring!Init => Ring!Fifo!Init
  <2> SUFFICES ASSUME Ring!Init PROVE Ring!Fifo!Init
    OBVIOUS
  <2>1. tail = 0 /\ head = 0 /\ 0 \in Ring!Slot /\ out = <<>>
    BY DEF Ring!Init, Ring!Slot, Ring!Sizes
  <2>2. Ring!Dist(tail, head) = 0
    BY <2>1, DistIs
  <2>3. Ring!Contents = <<>>
    BY <2>2 DEF Ring!Contents
  <2>4. QED
    BY <2>1, <2>3 DEF Ring!Fifo!Init
<1>2. Ring!RingInv /\ [Ring!Next]_Ring!vars => [Ring!Fifo!Next]_<<Ring!Contents, out>>
  <2> SUFFICES ASSUME Ring!RingInv, [Ring!Next]_Ring!vars
               PROVE  [Ring!Fifo!Next]_<<Ring!Contents, out>>
    OBVIOUS
  <2>1. ASSUME NEW n \in 1..MaxPush, NEW bytes \in [1..n -> RingBytes], Ring!Push(bytes)
        PROVE  Ring!Fifo!Next
    <3>1. Ring!Fifo!Push(bytes)
      BY <2>1, PushExtends DEF Ring!RingInv
    <3>2. n \in 1..(RingSize - 1)
      BY DEF Ring!Sizes
    <3>3. QED
      BY <3>1, <3>2 DEF Ring!Fifo!Next
  <2>2. CASE Ring!ReadsHead
    BY <2>2 DEF Ring!ReadsHead, Ring!Contents, Ring!Dist
  <2>3. CASE Ring!CopiesByte
    BY <2>3 DEF Ring!CopiesByte, Ring!Contents, Ring!Dist
  <2>4. CASE Ring!AdvancesTail
    BY <2>4, TailUpdateReads DEF Ring!Fifo!Next
  <2>5. CASE UNCHANGED Ring!vars
    BY <2>5 DEF Ring!vars, Ring!Contents, Ring!Dist
  <2>6. QED
    BY <2>1, <2>2, <2>3, <2>4, <2>5 DEF Ring!Next, Ring!Read
<1>3. QED
  BY <1>1, <1>2, ReadIsSafe, PTL DEF Ring!Spec, Ring!Fifo!Spec, Ring!ImplementsFifo

(* The unlocked ring implements the bounded pipe of ByteFifo: bytes come   *)
(* out once, whole and in order, wherever the interrupt cuts into usb_read *)
(* or pdb_rx_drain (host_transport_usb.c, pdb_link.c).                     *)
THEOREM ReceiveIsFifo == MCSpec => ImplementsFifo
<1>1. MCInit => Ring!Init
  BY DEF MCInit
<1>2. [MCNext]_<<vars, ringVars>> => [Ring!Next]_Ring!vars
  BY DEF MCNext, ringVars, Ring!vars
<1>3. MCSpec => Ring!Spec
  BY <1>1, <1>2, PTL DEF MCSpec, Ring!Spec
<1>4. QED
  BY <1>3, RingIsFifo, SizesAssumption, PTL DEF ImplementsFifo

-----------------------------------------------------------------------------
(* The framing. *)

Stream == Bytes \cup {Garbled}

LEMMA Lengths ==
  /\ FrameLen \in Nat \ {0} /\ MagicLen \in Nat \ {0} /\ HeaderLen \in Nat \ {0}
  /\ RingCap \in Nat \ {0} /\ Frames \in Nat \ {0} /\ MaxSkip \in Nat \ {0}
  /\ MaxFaults \in Nat /\ MagicLen <= HeaderLen /\ HeaderLen <= FrameLen
BY LengthsAssumption

-----------------------------------------------------------------------------
(* Numbers. *)

LEMMA QuotientIs ==
  ASSUME NEW n \in Nat \ {0}, NEW q \in Nat, NEW k \in 0..(n - 1)
  PROVE  /\ ((n * q) + k) \div n = q /\ ((n * q) + k) % n = k
         /\ (n * q) + k \in Nat
<1> DEFINE p == (n * q) + k
           d == p \div n
           r == p % n
<1>1. p \in Nat /\ n * q \in Nat
  OBVIOUS
<1>2. d \in Nat /\ r \in 0..(n - 1) /\ p = (n * d) + r
  BY <1>1
<1> HIDE DEF d, r
<1>3. ~(d < q)
  <2> SUFFICES ASSUME d < q PROVE FALSE
    OBVIOUS
  <2>1. PICK e \in Nat : q = d + 1 + e
    <3>1. q - d - 1 \in Nat /\ q = d + 1 + (q - d - 1)
      BY <1>2
    <3>2. QED
      BY <3>1
  <2>2. n * q = (n * d) + n + (n * e)
    BY <1>2, <2>1
  <2>3. n * e \in Nat /\ n * d \in Nat
    BY <1>2, <2>1
  <2>4. QED
    BY <1>1, <1>2, <2>2, <2>3
<1>4. ~(q < d)
  <2> SUFFICES ASSUME q < d PROVE FALSE
    OBVIOUS
  <2>1. PICK e \in Nat : d = q + 1 + e
    <3>1. d - q - 1 \in Nat /\ d = q + 1 + (d - q - 1)
      BY <1>2
    <3>2. QED
      BY <3>1
  <2>2. n * d = (n * q) + n + (n * e)
    BY <1>2, <2>1
  <2>3. n * e \in Nat
    BY <2>1
  <2>4. QED
    BY <1>1, <1>2, <2>2, <2>3
<1>5. d = q
  BY <1>2, <1>3, <1>4
<1>6. r = k
  BY <1>1, <1>2, <1>5
<1>7. QED
  BY <1>1, <1>5, <1>6 DEF d, r

LEMMA DivMod ==
  ASSUME NEW n \in Nat \ {0}, NEW p \in Nat
  PROVE  /\ p \div n \in Nat /\ p % n \in 0..(n - 1)
         /\ p = (n * (p \div n)) + (p % n)
OBVIOUS

LEMMA ModNext ==
  ASSUME NEW n \in Nat \ {0}, NEW q \in Nat
  PROVE  (q + 1) % n = IF (q % n) + 1 < n THEN (q % n) + 1 ELSE 0
<1> DEFINE e == q \div n
           r == q % n
<1>0. e \in Nat /\ r \in 0..(n - 1) /\ q = (n * e) + r
  BY DivMod
<1> HIDE DEF e, r
<1>1. e \in Nat /\ r \in 0..(n - 1) /\ q = (n * e) + r /\ n * e \in Nat
  BY <1>0
<1>2. CASE r + 1 < n
  <2>1. r + 1 \in 0..(n - 1) /\ q + 1 = (n * e) + (r + 1)
    BY <1>1, <1>2
  <2>2. ((n * e) + (r + 1)) % n = r + 1
    BY <1>1, <2>1, QuotientIs
  <2>3. QED
    BY <1>2, <2>1, <2>2 DEF r
<1>3. CASE ~(r + 1 < n)
  <2>1. r + 1 = n
    BY <1>1, <1>3
  <2>2. n * (e + 1) = (n * e) + n
    BY <1>1
  <2>3. q + 1 = (n * (e + 1)) + 0
    BY <1>1, <2>1, <2>2
  <2>4. e + 1 \in Nat /\ 0 \in 0..(n - 1)
    BY <1>1
  <2>5. ((n * (e + 1)) + 0) % n = 0
    BY <2>4, QuotientIs
  <2>6. QED
    BY <1>3, <2>3, <2>5 DEF r
<1>4. QED
  BY <1>2, <1>3

LEMMA SmallMod ==
  ASSUME NEW n \in Nat \ {0}, NEW a \in 0..(2 * n - 1)
  PROVE  a % n = IF a < n THEN a ELSE a - n
<1>1. CASE a < n
  BY <1>1
<1>2. CASE ~(a < n)
  <2>1. a - n \in 0..(n - 1) /\ n * 1 = n
    BY <1>2
  <2>2. a = (n * 1) + (a - n)
    BY <1>2, <2>1
  <2>3. ((n * 1) + (a - n)) % n = a - n
    BY <2>1, QuotientIs
  <2>4. QED
    BY <1>2, <2>2, <2>3
<1>3. QED
  BY <1>1, <1>2

-----------------------------------------------------------------------------
(* Where a byte is in the stream the sender means to send. *)

At(p) == Byte((p \div FrameLen) % Frames, p % FrameLen)

LEMMA AtIs ==
  ASSUME NEW q \in Nat, NEW k \in 0..(FrameLen - 1)
  PROVE  /\ At((FrameLen * q) + k) = Byte(q % Frames, k)
         /\ (FrameLen * q) + k \in Nat
<1>1. /\ ((FrameLen * q) + k) \div FrameLen = q /\ ((FrameLen * q) + k) % FrameLen = k
      /\ (FrameLen * q) + k \in Nat
  BY Lengths, QuotientIs
<1>2. QED
  BY <1>1 DEF At

LEMMA AtType ==
  ASSUME NEW p \in Nat
  PROVE  At(p) \in Bytes
<1>1. p \div FrameLen \in Nat /\ p % FrameLen \in 0..(FrameLen - 1)
  BY Lengths, DivMod
<1>2. (p \div FrameLen) % Frames \in 0..(Frames - 1)
  BY <1>1, Lengths, DivMod
<1>3. QED
  BY <1>1, <1>2 DEF At, Byte, Bytes

LEMMA AtNext ==
  ASSUME NEW p \in Nat
  PROVE  After(At(p), 1) = At(p + 1)
<1> DEFINE q == p \div FrameLen
           k == p % FrameLen
           f == q % Frames
<1>1. q \in Nat /\ k \in 0..(FrameLen - 1) /\ p = (FrameLen * q) + k
  BY Lengths, DivMod
<1>2. f \in 0..(Frames - 1)
  BY <1>1, Lengths, DivMod
<1>3. At(p) = Byte(f, k)
  BY DEF At
<1> HIDE DEF q, k
<1>4. After(At(p), 1) = Byte((f + ((k + 1) \div FrameLen)) % Frames, (k + 1) % FrameLen)
  <2> HIDE DEF f
  <2>1. At(p).frame = f /\ At(p).off = k
    BY <1>3 DEF Byte
  <2>2. QED
    BY <2>1 DEF After
<1>5. CASE k + 1 < FrameLen
  <2>1. k + 1 \in 0..(FrameLen - 1) /\ p + 1 = (FrameLen * q) + (k + 1)
    BY <1>1, <1>5, Lengths
  <2>2. At(p + 1) = Byte(f, k + 1)
    <3>1. At((FrameLen * q) + (k + 1)) = Byte(q % Frames, k + 1)
      BY <1>1, <2>1, AtIs
    <3>2. QED
      BY <2>1, <3>1
  <2>3. (k + 1) \div FrameLen = 0 /\ (k + 1) % FrameLen = k + 1
    <3>1. FrameLen * 0 = 0
      BY Lengths
    <3>2. k + 1 = (FrameLen * 0) + (k + 1)
      BY <3>1, <2>1
    <3>3. /\ ((FrameLen * 0) + (k + 1)) \div FrameLen = 0
          /\ ((FrameLen * 0) + (k + 1)) % FrameLen = k + 1
      BY <2>1, Lengths, QuotientIs
    <3>4. QED
      BY <3>2, <3>3
  <2>4. (f + 0) % Frames = f
    <3> HIDE DEF f
    <3>1. f + 0 = f
      BY <1>2, Lengths
    <3>2. f % Frames = f
      BY <1>2, Lengths, SmallMod
    <3>3. QED
      BY <3>1, <3>2
  <2> HIDE DEF f
  <2>5. QED
    BY <1>4, <2>2, <2>3, <2>4
<1>6. CASE ~(k + 1 < FrameLen)
  <2>1. k + 1 = FrameLen
    BY <1>1, <1>6, Lengths
  <2>2. FrameLen * (q + 1) = (FrameLen * q) + FrameLen
    BY <1>1, Lengths
  <2>3. p + 1 = (FrameLen * (q + 1)) + 0
    BY <1>1, <2>1, <2>2, Lengths
  <2>4. At(p + 1) = Byte((q + 1) % Frames, 0)
    <3>1. q + 1 \in Nat /\ 0 \in 0..(FrameLen - 1)
      BY <1>1, Lengths
    <3>2. At((FrameLen * (q + 1)) + 0) = Byte((q + 1) % Frames, 0)
      BY <3>1, AtIs
    <3>3. QED
      BY <2>3, <3>2
  <2>5. (k + 1) \div FrameLen = 1 /\ (k + 1) % FrameLen = 0
    <3>1. FrameLen * 1 = FrameLen /\ 0 \in 0..(FrameLen - 1)
      BY Lengths
    <3>2. k + 1 = (FrameLen * 1) + 0
      BY <2>1, <3>1, Lengths
    <3>3. ((FrameLen * 1) + 0) \div FrameLen = 1 /\ ((FrameLen * 1) + 0) % FrameLen = 0
      BY <3>1, Lengths, QuotientIs
    <3>4. QED
      BY <3>2, <3>3
  <2>6. (f + 1) % Frames = (q + 1) % Frames
    <3>1. (q + 1) % Frames = IF f + 1 < Frames THEN f + 1 ELSE 0
      BY <1>1, Lengths, ModNext
    <3>2. f + 1 \in 0..(2 * Frames - 1)
      BY <1>2, Lengths
    <3>3. (f + 1) % Frames = IF f + 1 < Frames THEN f + 1 ELSE f + 1 - Frames
      <4> HIDE DEF f
      <4> DEFINE b == f + 1
      <4>1. b \in 0..(2 * Frames - 1)
        BY <3>2
      <4> HIDE DEF b
      <4>2. b % Frames = IF b < Frames THEN b ELSE b - Frames
        BY <4>1, Lengths, SmallMod
      <4>3. QED
        BY <4>2, <1>2, <4>1, Lengths DEF b
    <3> HIDE DEF f
    <3>4. QED
      BY <1>2, <3>1, <3>3, Lengths
  <2> HIDE DEF f
  <2>7. QED
    BY <1>4, <2>4, <2>5, <2>6
<1>7. QED
  BY <1>5, <1>6

(* Frames counted between two accepted ones.                               *)
LEMMA BetweenIs ==
  ASSUME NEW f \in 0..(Frames - 1), NEW g \in 0..(Frames - 1)
  PROVE  Between(f, g) = IF f < g THEN g - f - 1 ELSE g + Frames - f - 1
<1> DEFINE b == g + Frames - f - 1
<1>1. b \in 0..(2 * Frames - 1) /\ Between(f, g) = b % Frames
  BY Lengths DEF Between
<1> HIDE DEF b
<1>2. b % Frames = IF b < Frames THEN b ELSE b - Frames
  BY <1>1, Lengths, SmallMod
<1>3. QED
  BY <1>1, <1>2, Lengths DEF b

LEMMA BetweenNext ==
  ASSUME NEW f \in 0..(Frames - 1), NEW q \in Nat
  PROVE  /\ q % Frames \in 0..(Frames - 1)
         /\ Between(f, q % Frames) \in Nat
         /\ Between(f, (q + 1) % Frames) \in 0..(Between(f, q % Frames) + 1)
         /\ Between(q % Frames, (q + 1) % Frames) = 0
<1> DEFINE c == q % Frames
           d == (q + 1) % Frames
<1>1. c \in 0..(Frames - 1) /\ d = IF c + 1 < Frames THEN c + 1 ELSE 0
  BY Lengths, DivMod, ModNext
<1> HIDE DEF c, d
<1>2. d \in 0..(Frames - 1)
  BY <1>1, Lengths
<1>3. /\ Between(f, c) = IF f < c THEN c - f - 1 ELSE c + Frames - f - 1
      /\ Between(f, d) = IF f < d THEN d - f - 1 ELSE d + Frames - f - 1
      /\ Between(c, d) = IF c < d THEN d - c - 1 ELSE d + Frames - c - 1
  BY <1>1, <1>2, BetweenIs
<1>4. /\ Between(f, c) \in Nat /\ Between(f, d) \in 0..(Between(f, c) + 1)
      /\ Between(c, d) = 0
  BY <1>1, <1>2, <1>3, Lengths
<1>5. QED
  BY <1>1, <1>4 DEF c, d

-----------------------------------------------------------------------------
(* Stretches of the received stream: s holds the bytes from position p of  *)
(* the sent stream on, except for those garbled, whose positions are bad.  *)
Placed(s, p, bad) ==
  \A i \in 1..Len(s) :
    \/ s[i] = At(p + (i - 1))
    \/ s[i] = Garbled /\ p + (i - 1) \in bad

LEMMA PlacedAppend ==
  ASSUME NEW s \in Seq(Stream), NEW p \in Nat, NEW bad, NEW x \in Stream,
         Placed(s, p, bad),
         x = At(p + Len(s)) \/ (x = Garbled /\ p + Len(s) \in bad)
  PROVE  /\ Append(s, x) \in Seq(Stream) /\ Len(Append(s, x)) = Len(s) + 1
         /\ Placed(Append(s, x), p, bad)
<1> DEFINE t == Append(s, x)
<1>1. /\ t \in Seq(Stream) /\ Len(t) = Len(s) + 1 /\ Len(s) \in Nat
      /\ \A i \in 1..Len(s) : t[i] = s[i]
      /\ t[Len(s) + 1] = x
  OBVIOUS
<1> HIDE DEF t
<1>2. ASSUME NEW i \in 1..Len(t)
      PROVE  t[i] = At(p + (i - 1)) \/ (t[i] = Garbled /\ p + (i - 1) \in bad)
  <2>1. CASE i \in 1..Len(s)
    BY <1>1, <2>1 DEF Placed
  <2>2. CASE i = Len(s) + 1
    <3>1. i - 1 = Len(s)
      BY <1>1, <2>2
    <3>2. QED
      BY <1>1, <2>2, <3>1
  <2>3. QED
    BY <1>1, <2>1, <2>2
<1>3. Placed(t, p, bad)
  BY <1>2 DEF Placed
<1>4. QED
  BY <1>1, <1>3 DEF t

LEMMA PlacedTail ==
  ASSUME NEW s \in Seq(Stream), NEW p \in Nat, NEW bad, s # <<>>, Placed(s, p, bad)
  PROVE  /\ Tail(s) \in Seq(Stream) /\ Len(Tail(s)) = Len(s) - 1 /\ Len(s) \in Nat \ {0}
         /\ Placed(Tail(s), p + 1, bad)
         /\ Head(s) \in Stream
         /\ Head(s) = At(p) \/ (Head(s) = Garbled /\ p \in bad)
<1> DEFINE t == Tail(s)
<1>1. /\ t \in Seq(Stream) /\ Len(s) \in Nat \ {0} /\ Len(t) = Len(s) - 1
      /\ \A i \in 1..Len(t) : t[i] = s[i + 1]
      /\ Head(s) = s[1] /\ Head(s) \in Stream
  OBVIOUS
<1> HIDE DEF t
<1>2. ASSUME NEW i \in 1..Len(t)
      PROVE  t[i] = At((p + 1) + (i - 1)) \/ (t[i] = Garbled /\ (p + 1) + (i - 1) \in bad)
  <2>1. i + 1 \in 1..Len(s) /\ p + ((i + 1) - 1) = (p + 1) + (i - 1)
    BY <1>1
  <2>2. s[i + 1] = At(p + ((i + 1) - 1)) \/ (s[i + 1] = Garbled /\ p + ((i + 1) - 1) \in bad)
    BY <2>1 DEF Placed
  <2>3. QED
    BY <1>1, <2>1, <2>2
<1>3. Placed(t, p + 1, bad)
  BY <1>2 DEF Placed
<1>4. s[1] = At(p) \/ (s[1] = Garbled /\ p \in bad)
  <2>1. 1 \in 1..Len(s) /\ p + (1 - 1) = p
    BY <1>1
  <2>2. QED
    BY <2>1 DEF Placed
<1>5. QED
  BY <1>1, <1>3, <1>4 DEF t

(* Only the positions of the stretch itself matter.                        *)
LEMMA PlacedBad ==
  ASSUME NEW s \in Seq(Stream), NEW p \in Nat, NEW bad, NEW worse, Placed(s, p, bad),
         \A x \in bad : x >= p => x \in worse
  PROVE  Placed(s, p, worse)
<1>1. \A i \in 1..Len(s) : p + (i - 1) >= p
  OBVIOUS
<1>2. QED
  BY <1>1 DEF Placed

LEMMA PlacedNone ==
  ASSUME NEW p, NEW bad
  PROVE  Placed(<<>>, p, bad)
<1>1. 1..Len(<<>>) = {}
  OBVIOUS
<1>2. QED
  BY <1>1 DEF Placed

(* An aligned frame: its own bytes, but for the garbled ones; no later      *)
(* magic, hence nothing a resync would keep.                               *)
LEMMA FrameIs ==
  ASSUME NEW buf \in Seq(Stream), Len(buf) = FrameLen, NEW q \in Nat, NEW bad,
         Placed(buf, FrameLen * q, bad)
  PROVE  \A i \in 1..FrameLen :
           \/ buf[i] = Byte(q % Frames, i - 1)
           \/ buf[i] = Garbled /\ (FrameLen * q) + (i - 1) \in bad
<1> SUFFICES ASSUME NEW i \in 1..FrameLen
             PROVE  \/ buf[i] = Byte(q % Frames, i - 1)
                    \/ buf[i] = Garbled /\ (FrameLen * q) + (i - 1) \in bad
  OBVIOUS
<1>1. i - 1 \in 0..(FrameLen - 1)
  BY Lengths
<1>2. At((FrameLen * q) + (i - 1)) = Byte(q % Frames, i - 1)
  BY <1>1, AtIs
<1>3. QED
  BY <1>2 DEF Placed

LEMMA NothingToKeep ==
  ASSUME NEW buf \in Seq(Stream), Len(buf) = FrameLen, NEW q \in Nat, NEW bad,
         Placed(buf, FrameLen * q, bad), NEW past \in BOOLEAN
  PROVE  Resync(buf, past) = <<>>
<1>1. ASSUME NEW i \in 2..FrameLen, MagicAt(buf, i, past)
      PROVE  FALSE
  <2>1. i \in 1..FrameLen /\ i - 1 # 0 /\ i + 0 = i /\ i <= Len(buf) /\ FrameLen # 0
    BY Lengths
  <2>2. buf[i].off = i - 1 \/ buf[i].off = FrameLen
    <3>1. buf[i] = Byte(q % Frames, i - 1) \/ buf[i] = Garbled
      BY <2>1, FrameIs
    <3>2. QED
      BY <3>1 DEF Byte, Garbled
  <2>3. 0 \in 0..(MagicLen - 1)
    BY Lengths
  <2>4. buf[i + 0].off = 0
    BY <1>1, <2>1, <2>3 DEF MagicAt
  <2>5. QED
    BY <2>1, <2>2, <2>4
<1>2. {i \in 2..FrameLen : MagicAt(buf, i, past)} = {}
  BY <1>1
<1>3. QED
  BY <1>2 DEF Resync

(* A frame that fails the check has a garbled byte, and one that passes is *)
(* the frame it was sent as.                                               *)
LEMMA RejectedIsGarbled ==
  ASSUME NEW buf \in Seq(Stream), Len(buf) = FrameLen, NEW q \in Nat, NEW bad,
         Placed(buf, FrameLen * q, bad), ~FrameValid(buf)
  PROVE  \E i \in 1..FrameLen : (FrameLen * q) + (i - 1) \in bad
<1>1. \A i \in 1..FrameLen :
        \/ buf[i] = Byte(q % Frames, i - 1)
        \/ buf[i] = Garbled /\ (FrameLen * q) + (i - 1) \in bad
  BY FrameIs
<1>2. SUFFICES ASSUME \A i \in 1..FrameLen : buf[i] = Byte(q % Frames, i - 1)
               PROVE  FALSE
  BY <1>1
<1>3. \A i \in 1..HeaderLen : i \in 1..FrameLen
  BY Lengths
<1>4. 1 \in 1..FrameLen
  BY Lengths
<1>5. buf[1].frame = q % Frames
  BY <1>2, <1>4 DEF Byte
<1>6. \A i \in 1..HeaderLen : buf[i].off = i - 1
  BY <1>2, <1>3 DEF Byte
<1>7. FrameValid(buf)
  BY <1>2, <1>5, <1>6 DEF FrameValid
<1>8. QED
  BY <1>7

LEMMA AcceptedIsOwn ==
  ASSUME NEW buf \in Seq(Stream), Len(buf) = FrameLen, NEW q \in Nat, NEW bad,
         Placed(buf, FrameLen * q, bad), FrameValid(buf)
  PROVE  buf[1].frame = q % Frames
<1>1. 1 \in 1..FrameLen /\ 1 \in 1..HeaderLen /\ 1 - 1 = 0 /\ FrameLen # 0
  BY Lengths
<1>2. buf[1].off = 0
  <2>1. CASE hasCrc
    <3>1. buf[1] = Byte(buf[1].frame, 1 - 1)
      BY <1>1, <2>1 DEF FrameValid
    <3>2. QED
      BY <1>1, <3>1 DEF Byte
  <2>2. CASE ~hasCrc
    BY <1>1, <2>2 DEF FrameValid
  <2>3. QED
    BY <2>1, <2>2
<1>3. buf[1] = Byte(q % Frames, 1 - 1) \/ buf[1] = Garbled
  BY <1>1, FrameIs
<1>4. QED
  BY <1>1, <1>2, <1>3 DEF Byte, Garbled

-----------------------------------------------------------------------------
(* Types. *)

LEMMA MinIsIn ==
  ASSUME NEW T \in SUBSET Nat, T # {}
  PROVE  Min(T) \in T
<1> DEFINE R == OpToRel(<, Nat)
<1>1. \E x \in T : \A y \in T : ~(<<y, x>> \in R)
  <2>1. IsWellFoundedOn(R, Nat)
    BY NatLessThanWellFounded
  <2> HIDE DEF R
  <2>2. QED
    BY <2>1, WFMin
<1>2. \A x \in Nat, y \in Nat : y < x => <<y, x>> \in R
  BY DEF OpToRel
<1> HIDE DEF R
<1>3. \E x \in T : \A y \in T : x =< y
  <2>1. PICK x \in T : \A y \in T : ~(<<y, x>> \in R)
    BY <1>1
  <2>2. ASSUME NEW y \in T PROVE x =< y
    <3>1. x \in Nat /\ y \in Nat /\ ~(<<y, x>> \in R)
      BY <2>1
    <3>2. ~(y < x)
      BY <1>2, <3>1
    <3>3. QED
      BY <3>1, <3>2
  <2>3. QED
    BY <2>2
<1>4. QED
  BY <1>3 DEF Min

LEMMA ResyncType ==
  ASSUME NEW buf \in Seq(Stream), Len(buf) = FrameLen, NEW past \in BOOLEAN
  PROVE  Resync(buf, past) \in Seq(Stream) /\ Len(Resync(buf, past)) < FrameLen
<1> DEFINE hits == {i \in 2..FrameLen : MagicAt(buf, i, past)}
           m == Min(hits)
<1>1. CASE hits = {}
  <2>1. Resync(buf, past) = <<>>
    BY <1>1 DEF Resync
  <2>2. <<>> \in Seq(Stream) /\ Len(<<>>) = 0
    OBVIOUS
  <2>3. QED
    BY <2>1, <2>2, Lengths
<1>2. CASE hits # {}
  <2>1. Resync(buf, past) = SubSeq(buf, m, FrameLen)
    BY <1>2 DEF Resync
  <2>2. m \in 2..FrameLen
    <3>1. hits \in SUBSET Nat /\ hits \subseteq 2..FrameLen
      BY Lengths
    <3> HIDE DEF hits
    <3>2. QED
      BY <1>2, <3>1, MinIsIn
  <2> HIDE DEF m
  <2>3. m \in 1..Len(buf) /\ FrameLen \in 1..Len(buf) /\ m \in 1..(Len(buf) + 1)
    BY <2>2, Lengths
  <2>4. /\ SubSeq(buf, m, FrameLen) \in Seq(Stream)
        /\ Len(SubSeq(buf, m, FrameLen)) = FrameLen - m + 1
    BY <2>2, <2>3, Lengths, SubSeqProperties
  <2>5. QED
    BY <2>1, <2>2, <2>4, Lengths
<1>3. QED
  BY <1>1, <1>2

LEMMA TypeStep == TypeOK /\ [Next]_vars => TypeOK'
<1> SUFFICES ASSUME TypeOK, [Next]_vars PROVE TypeOK'
  OBVIOUS
<1> USE Lengths
<1>1. src \in Stream /\ Garbled \in Stream /\ Stream = Bytes \cup {Garbled}
  BY DEF TypeOK, Stream
<1>2. /\ fifo \in Seq(Stream) /\ accum \in Seq(Stream)
      /\ Len(fifo) \in Nat /\ Len(accum) \in Nat
  BY DEF TypeOK, Stream
<1>3. ASSUME NEW b \in Bytes, NEW n \in Nat PROVE After(b, n) \in Bytes
  <2>1. b.frame \in Nat /\ b.off \in Nat /\ b.off + n \in Nat
    BY DEF Bytes
  <2>2. (b.off + n) \div FrameLen \in Nat /\ (b.off + n) % FrameLen \in 0..(FrameLen - 1)
    BY <2>1, DivMod
  <2>3. (b.frame + ((b.off + n) \div FrameLen)) % Frames \in 0..(Frames - 1)
    <3> DEFINE c == b.frame + ((b.off + n) \div FrameLen)
    <3>1. c \in Nat
      BY <2>1, <2>2
    <3> HIDE DEF c
    <3>2. c % Frames \in 0..(Frames - 1)
      BY <3>1, DivMod
    <3>3. QED
      BY <3>2 DEF c
  <2>4. QED
    BY <2>2, <2>3 DEF After, Byte, Bytes
<1>4. ASSUME NEW x \in Stream, Len(fifo) < RingCap, fifo' = Append(fifo, x)
      PROVE  fifo' \in Seq(Stream) /\ Len(fifo') <= RingCap
  BY <1>2, <1>4
<1>5. CASE Arrives
  <2>1. fifo' \in Seq(Stream) /\ Len(fifo') <= RingCap
    BY <1>1, <1>4, <1>5 DEF Arrives
  <2>2. src' \in Bytes
    BY <1>3, <1>5 DEF Arrives, TypeOK
  <2>3. QED
    BY <1>5, <2>1, <2>2 DEF Arrives, TypeOK, Stream, tally
<1>6. CASE ArrivesGarbled
  <2>1. fifo' \in Seq(Stream) /\ Len(fifo') <= RingCap
    BY <1>1, <1>4, <1>6 DEF ArrivesGarbled
  <2>2. src' \in Bytes
    BY <1>3, <1>6 DEF ArrivesGarbled, TypeOK
  <2>3. faults' \in 0..MaxFaults /\ slips' \in 0..faults'
    BY <1>6 DEF ArrivesGarbled, TypeOK
  <2>4. QED
    BY <1>6, <2>1, <2>2, <2>3 DEF ArrivesGarbled, TypeOK, Stream
<1>7. CASE Slips
  <2>1. src' \in Bytes
    BY <1>3, <1>7 DEF Slips, TypeOK
  <2>2. faults' \in 0..MaxFaults /\ slips' \in 0..faults'
    BY <1>7 DEF Slips, TypeOK
  <2>3. QED
    BY <1>7, <2>1, <2>2 DEF Slips, TypeOK
<1>8. CASE Accumulates
  <2> DEFINE buf == Append(accum, Head(fifo))
  <2>1. /\ fifo' \in Seq(Stream) /\ Len(fifo') <= RingCap /\ Head(fifo) \in Stream
    <3>1. fifo # <<>> /\ fifo' = Tail(fifo) /\ Len(fifo) <= RingCap
      BY <1>8 DEF Accumulates, TypeOK
    <3>2. QED
      BY <1>2, <3>1
  <2>2. buf \in Seq(Stream) /\ Len(buf) = Len(accum) + 1 /\ Len(buf) \in 1..FrameLen
    <3>1. Len(accum) < FrameLen
      BY DEF TypeOK
    <3>2. QED
      BY <1>2, <2>1, <3>1
  <2>3. /\ UNCHANGED <<hasCrc, src, faults, slips>>
        /\ \/ Len(buf) < FrameLen /\ accum' = buf /\ UNCHANGED <<accepted, torn, missed>>
           \/ Len(buf) = FrameLen /\ FrameValid(buf) /\ Accept(buf)
           \/ Len(buf) = FrameLen /\ ~FrameValid(buf) /\ Rejects(buf)
    <3> HIDE DEF buf
    <3>1. ~(Len(buf) < FrameLen) => Len(buf) = FrameLen
      BY <2>2
    <3>2. QED
      BY <1>8, <3>1 DEF Accumulates, buf
  <2> HIDE DEF buf
  <2>4. accum' \in Seq(Stream) /\ Len(accum') < FrameLen
    <3>1. CASE Accept(buf)
      <4>1. accum' = <<>> /\ <<>> \in Seq(Stream) /\ Len(<<>>) = 0
        BY <3>1 DEF Accept
      <4>2. QED
        BY <4>1
    <3>2. CASE Len(buf) = FrameLen /\ Rejects(buf)
      BY <2>2, <3>2, ResyncType DEF Rejects
    <3>3. QED
      BY <2>2, <2>3, <3>1, <3>2
  <2>5. accepted' \in 0..(Frames - 1) /\ torn' \in Nat /\ missed' \in Nat
    <3>1. accepted \in 0..(Frames - 1) /\ torn \in Nat /\ missed \in Nat
      BY DEF TypeOK
    <3>2. CASE Accept(buf) /\ FrameValid(buf) /\ Len(buf) = FrameLen
      <4>1. buf[1] \in Stream
        BY <2>2
      <4>2. accepted' = buf[1].frame /\ accepted' \in 0..(Frames - 1)
        BY <3>2, <4>1 DEF Accept, Stream, Bytes, Garbled, Byte
      <4>3. missed' = missed + Between(accepted, accepted')
        BY <3>2 DEF Accept
      <4>4. Between(accepted, accepted') \in Nat
        <5> DEFINE g == accepted'
        <5>1. g \in 0..(Frames - 1)
          BY <4>2
        <5> HIDE DEF g
        <5>2. Between(accepted, g) = IF accepted < g THEN g - accepted - 1
                                                     ELSE g + Frames - accepted - 1
          BY <3>1, <5>1, BetweenIs
        <5>3. Between(accepted, g) \in Nat
          BY <3>1, <5>1, <5>2
        <5>4. QED
          BY <5>3 DEF g
      <4>5. torn' \in Nat
        BY <3>1, <3>2 DEF Accept
      <4>6. QED
        BY <3>1, <4>2, <4>3, <4>4, <4>5
    <3>3. CASE UNCHANGED <<accepted, torn, missed>>
      BY <3>1, <3>3
    <3>4. QED
      BY <2>3, <3>2, <3>3 DEF Rejects
  <2>6. QED
    BY <2>1, <2>3, <2>4, <2>5 DEF TypeOK, Stream
<1>9. CASE UNCHANGED vars
  BY <1>9 DEF vars, tally, TypeOK
<1>10. QED
  BY <1>5, <1>6, <1>7, <1>8, <1>9 DEF Next

-----------------------------------------------------------------------------
(* As long as no byte was lost, HostTask is where the sender's frames are: *)
(* q frames have been dealt with, the accumulator holds the start of the   *)
(* next one and the ring what follows; and every frame missed since the    *)
(* last accepted one, and every bad byte still to be dealt with, is a      *)
(* fault of its own.                                                       *)
InStep(q, bad) ==
  /\ IsFiniteSet(bad)
  /\ src = At((FrameLen * q) + (Len(accum) + Len(fifo)))
  /\ Placed(accum, FrameLen * q, bad)
  /\ Placed(fifo, (FrameLen * q) + Len(accum), bad)
  /\ Cardinality(bad) + missed + Between(accepted, q % Frames) <= faults

StaysInStep == slips = 0 => \E q \in Nat : \E bad \in SUBSET Nat : InStep(q, bad)

IInv == TypeOK /\ StaysInStep

LEMMA InitInStep == Init => IInv
<1> SUFFICES ASSUME Init PROVE IInv
  OBVIOUS
<1> USE Lengths
<1>1. /\ src = Byte(0, 0) /\ fifo = <<>> /\ accum = <<>> /\ accepted = Frames - 1
      /\ faults = 0 /\ slips = 0 /\ torn = 0 /\ missed = 0 /\ hasCrc \in Checks
  BY DEF Init
<1>2. <<>> \in Seq(Stream) /\ Len(<<>>) = 0 /\ Byte(0, 0) \in Bytes
  BY DEF Byte, Bytes
<1>3. TypeOK
  BY <1>1, <1>2 DEF TypeOK, Stream
<1>4. FrameLen * 0 = 0 /\ (FrameLen * 0) + (0 + 0) = (FrameLen * 0) + 0 /\ 0 \in 0..(FrameLen - 1)
  OBVIOUS
<1>5. 0 % Frames = 0
  BY SmallMod
<1>6. At((FrameLen * 0) + 0) = Byte(0, 0)
  BY <1>4, <1>5, AtIs
<1>7. Between(Frames - 1, 0) = 0
  BY BetweenIs
<1>8. Cardinality({}) = 0 /\ IsFiniteSet({})
  BY FS_EmptySet
<1>9. InStep(0, {})
  BY <1>1, <1>2, <1>4, <1>5, <1>6, <1>7, <1>8, PlacedNone DEF InStep
<1>10. QED
  BY <1>3, <1>9 DEF IInv, StaysInStep

(* A byte arrives, as it was sent or garbled.                              *)
LEMMA ArrivalKeeps ==
  ASSUME IInv, Arrives \/ ArrivesGarbled
  PROVE  StaysInStep'
<1> USE Lengths
<1> SUFFICES ASSUME slips' = 0
             PROVE  \E q \in Nat : \E bad \in SUBSET Nat : InStep(q, bad)'
  BY DEF StaysInStep
<1>1. slips = 0 /\ UNCHANGED <<accum, accepted, missed>> /\ src' = After(src, 1)
  BY DEF Arrives, ArrivesGarbled, tally
<1>2. PICK q \in Nat : \E bad \in SUBSET Nat : InStep(q, bad)
  BY <1>1 DEF IInv, StaysInStep
<1>3. PICK bad \in SUBSET Nat : InStep(q, bad)
  BY <1>2
<1>4. /\ fifo \in Seq(Stream) /\ Len(fifo) \in Nat /\ accum \in Seq(Stream) /\ Len(accum) \in Nat
      /\ src \in Stream /\ Garbled \in Stream /\ faults \in Nat /\ missed \in Nat
      /\ accepted \in 0..(Frames - 1)
  BY DEF IInv, TypeOK, Stream
<1> DEFINE a == FrameLen * q
           b == a + Len(accum)
           here == b + Len(fifo)
<1>5. a \in Nat /\ b \in Nat /\ here \in Nat /\ here = a + (Len(accum) + Len(fifo))
  BY <1>4
<1>6. src = At(here)
  BY <1>3, <1>5 DEF InStep
<1>7. src' = At(here + 1)
  <2> HIDE DEF here
  <2>1. QED
    BY <1>1, <1>5, <1>6, AtNext
<1>8. Placed(accum, a, bad) /\ Placed(fifo, b, bad)
  BY <1>3 DEF InStep
<1>9. /\ IsFiniteSet(bad) /\ Cardinality(bad) \in Nat
      /\ Cardinality(bad) + missed + Between(accepted, q % Frames) <= faults
      /\ Between(accepted, q % Frames) \in Nat
  BY <1>3, <1>4, BetweenNext, FS_CardinalityType DEF InStep
<1> HIDE DEF a, b, here
<1>10. here = b + Len(fifo)
  BY DEF here
<1>11. CASE Arrives
  <2>1. fifo' = Append(fifo, src) /\ faults' = faults
    BY <1>11 DEF Arrives, tally
  <2>2. Len(fifo') = Len(fifo) + 1 /\ Placed(fifo', b, bad)
    BY <1>4, <1>5, <1>6, <1>8, <1>10, <2>1, PlacedAppend
  <2>3. src' = At(a + (Len(accum) + Len(fifo')))
    <3>1. here + 1 = a + (Len(accum) + Len(fifo'))
      BY <1>4, <1>5, <2>2
    <3>2. QED
      BY <1>7, <3>1
  <2>4. InStep(q, bad)'
    BY <1>1, <1>8, <1>9, <2>1, <2>2, <2>3 DEF InStep, a, b
  <2>5. QED
    BY <2>4
<1>12. CASE ArrivesGarbled
  <2>0. PICK worse : worse = bad \cup {here}
    OBVIOUS
  <2>1. fifo' = Append(fifo, Garbled) /\ faults' = faults + 1
    BY <1>12 DEF ArrivesGarbled
  <2>2. worse \in SUBSET Nat /\ here \in worse /\ bad \subseteq worse
    BY <1>5, <2>0
  <2>3. /\ IsFiniteSet(worse) /\ Cardinality(worse) \in Nat
        /\ Cardinality(worse) <= Cardinality(bad) + 1
    BY <1>9, <2>0, FS_AddElement
  <2>4. Placed(accum, a, worse) /\ Placed(fifo, b, worse)
    BY <1>4, <1>5, <1>8, <2>2, PlacedBad
  <2>5. Len(fifo') = Len(fifo) + 1 /\ Placed(fifo', b, worse)
    BY <1>4, <1>5, <1>10, <2>1, <2>2, <2>4, PlacedAppend
  <2>6. src' = At(a + (Len(accum) + Len(fifo')))
    <3>1. here + 1 = a + (Len(accum) + Len(fifo'))
      BY <1>4, <1>5, <2>5
    <3>2. QED
      BY <1>7, <3>1
  <2>7. Cardinality(worse) + missed + Between(accepted, q % Frames) <= faults'
    <3>1. PICK x1 \in Nat : x1 = Between(accepted, q % Frames)
      BY <1>9
    <3>2. Cardinality(bad) \in Nat /\ Cardinality(bad) + missed + x1 <= faults
      BY <1>9, <3>1
    <3>3. Cardinality(worse) + missed + x1 <= faults + 1
      BY <1>4, <2>3, <3>2
    <3>4. QED
      BY <2>1, <3>1, <3>3
  <2>8. InStep(q, worse)'
    BY <1>1, <2>1, <2>3, <2>4, <2>5, <2>6, <2>7 DEF InStep, a, b
  <2>9. QED
    BY <2>2, <2>8
<1>13. QED
  BY <1>11, <1>12

(* HostTask takes a byte out of the ring.                                  *)
LEMMA TakingKeeps ==
  ASSUME IInv, Accumulates
  PROVE  StaysInStep'
<1> USE Lengths
<1> SUFFICES ASSUME slips' = 0
             PROVE  \E q \in Nat : \E bad \in SUBSET Nat : InStep(q, bad)'
  BY DEF StaysInStep
<1>1. slips = 0 /\ UNCHANGED <<src, faults>> /\ fifo # <<>> /\ fifo' = Tail(fifo)
  BY DEF Accumulates
<1>2. PICK q \in Nat : \E bad \in SUBSET Nat : InStep(q, bad)
  BY <1>1 DEF IInv, StaysInStep
<1>3. PICK bad \in SUBSET Nat : InStep(q, bad)
  BY <1>2
<1>4. /\ fifo \in Seq(Stream) /\ accum \in Seq(Stream) /\ Len(accum) \in Nat
      /\ Len(accum) < FrameLen /\ faults \in Nat /\ missed \in Nat
      /\ accepted \in 0..(Frames - 1)
  BY DEF IInv, TypeOK, Stream
<1> DEFINE a == FrameLen * q
           b == a + Len(accum)
           buf == Append(accum, Head(fifo))
           n == Len(buf)
<1>5. a \in Nat /\ b \in Nat
  BY <1>4
<1>6. /\ IsFiniteSet(bad) /\ Cardinality(bad) \in Nat
      /\ Cardinality(bad) + missed + Between(accepted, q % Frames) <= faults
      /\ src = At(a + (Len(accum) + Len(fifo)))
      /\ Placed(accum, a, bad) /\ Placed(fifo, b, bad)
  BY <1>3, FS_CardinalityType DEF InStep
<1> HIDE DEF b
<1>7. /\ Tail(fifo) \in Seq(Stream) /\ Len(Tail(fifo)) = Len(fifo) - 1
      /\ Len(fifo) \in Nat \ {0} /\ Placed(Tail(fifo), b + 1, bad) /\ Head(fifo) \in Stream
      /\ Head(fifo) = At(b) \/ (Head(fifo) = Garbled /\ b \in bad)
  BY <1>1, <1>4, <1>5, <1>6, PlacedTail
<1> HIDE DEF a
<1>8. buf \in Seq(Stream) /\ n = Len(accum) + 1 /\ n \in 1..FrameLen /\ Placed(buf, a, bad)
  BY <1>4, <1>5, <1>6, <1>7, PlacedAppend DEF b
<1>9. /\ Placed(fifo', a + n, bad) /\ src' = At(a + (n + Len(fifo')))
      /\ Len(fifo') \in Nat /\ fifo' \in Seq(Stream)
  <2>1. a + n = b + 1 /\ a + (n + Len(Tail(fifo))) = a + (Len(accum) + Len(fifo))
    BY <1>4, <1>5, <1>7, <1>8 DEF b
  <2>2. QED
    BY <1>1, <1>6, <1>7, <2>1
<1>10. \/ n < FrameLen /\ accum' = buf /\ UNCHANGED <<accepted, missed>>
       \/ n = FrameLen /\ FrameValid(buf) /\ Accept(buf)
       \/ n = FrameLen /\ ~FrameValid(buf) /\ Rejects(buf)
  <2>1. ~(n < FrameLen) => n = FrameLen
    BY <1>8
  <2>2. QED
    BY <2>1 DEF Accumulates
<1> HIDE DEF buf
<1>11. CASE n < FrameLen /\ accum' = buf /\ UNCHANGED <<accepted, missed>>
  <2>1. InStep(q, bad)'
    BY <1>1, <1>6, <1>8, <1>9, <1>11 DEF InStep, a
  <2>2. QED
    BY <2>1
<1> DEFINE next == FrameLen * (q + 1)
<1>12. next \in Nat /\ next = a + FrameLen /\ q + 1 \in Nat
  BY <1>5 DEF a
<1>13. ASSUME n = FrameLen, accum' = <<>>
       PROVE  /\ src' = At(next + (Len(accum') + Len(fifo')))
              /\ Placed(fifo', next + Len(accum'), bad) /\ next + Len(accum') = next
  <2>1. Len(accum') = 0
    BY <1>13
  <2>2. next + Len(accum') = a + n /\ a + (n + Len(fifo')) = next + (Len(accum') + Len(fifo'))
    BY <1>5, <1>9, <1>12, <1>13, <2>1
  <2>3. QED
    BY <1>9, <1>12, <2>1, <2>2
<1> HIDE DEF next
<1>14. /\ q % Frames \in 0..(Frames - 1) /\ Between(accepted, q % Frames) \in Nat
       /\ Between(accepted, (q + 1) % Frames) \in 0..(Between(accepted, q % Frames) + 1)
       /\ Between(q % Frames, (q + 1) % Frames) = 0
  BY <1>4, BetweenNext
<1>15. CASE n = FrameLen /\ FrameValid(buf) /\ Accept(buf)
  <2>1. buf[1].frame = q % Frames
    BY <1>8, <1>15, AcceptedIsOwn DEF a
  <2>2. /\ accum' = <<>> /\ accepted' = q % Frames
        /\ missed' = missed + Between(accepted, q % Frames)
    BY <1>15, <2>1 DEF Accept
  <2>3. Cardinality(bad) + missed' + Between(accepted', (q + 1) % Frames) <= faults'
    BY <1>1, <1>4, <1>6, <1>14, <2>2
  <2>4. InStep(q + 1, bad)'
    BY <1>6, <1>13, <1>15, <2>2, <2>3, PlacedNone DEF InStep, next
  <2>5. QED
    BY <1>12, <2>4
<1>16. CASE n = FrameLen /\ ~FrameValid(buf) /\ Rejects(buf)
  <2>1. accum' = <<>> /\ UNCHANGED <<accepted, missed>>
    BY <1>8, <1>16, NothingToKeep DEF Rejects, a
  <2>2. PICK i \in 1..FrameLen : a + (i - 1) \in bad
    BY <1>8, <1>16, RejectedIsGarbled DEF a
  <2>3. PICK x : x = a + (i - 1)
    OBVIOUS
  <2>4. x \in bad /\ x \in Nat /\ x < next
    BY <1>5, <1>12, <2>2, <2>3
  <2> DEFINE rest == bad \ {x}
  <2>5. IsFiniteSet(rest) /\ Cardinality(rest) = Cardinality(bad) - 1
    BY <1>6, <2>4, FS_RemoveElement
  <2>6. rest \in SUBSET Nat /\ \A y \in bad : y >= next => y \in rest
    BY <1>12, <2>4
  <2> HIDE DEF rest
  <2>7. Placed(fifo', next, rest)
    <3>1. Placed(fifo', next, bad)
      BY <1>13, <1>16, <2>1
    <3>2. QED
      BY <1>9, <1>12, <2>6, <3>1, PlacedBad
  <2>8. Cardinality(rest) + missed' + Between(accepted', (q + 1) % Frames) <= faults'
    <3>1. PICK x1, x2 : x1 = Between(accepted, q % Frames) /\ x2 = Between(accepted, (q + 1) % Frames)
      OBVIOUS
    <3>2. x1 \in Nat /\ x2 \in 0..(x1 + 1) /\ Cardinality(bad) + missed + x1 <= faults
      BY <1>6, <1>14, <3>1
    <3>3. (Cardinality(bad) - 1) + missed + x2 <= faults
      BY <1>4, <1>6, <3>2
    <3>4. Cardinality(rest) + missed + x2 <= faults
      BY <2>5, <3>3
    <3>5. missed' = missed /\ faults' = faults /\ Between(accepted', (q + 1) % Frames) = x2
      BY <1>1, <2>1, <3>1
    <3>6. QED
      BY <3>4, <3>5
  <2>9. Placed(accum', next, rest)
    BY <2>1, PlacedNone
  <2>10. InStep(q + 1, rest)'
    BY <1>13, <1>16, <2>1, <2>5, <2>7, <2>8, <2>9 DEF InStep, next
  <2>11. QED
    BY <1>12, <2>6, <2>10
<1>17. QED
  BY <1>10, <1>11, <1>15, <1>16

LEMMA StepKeeps == IInv /\ [Next]_vars => IInv'
<1> SUFFICES ASSUME IInv, [Next]_vars PROVE IInv'
  OBVIOUS
<1>1. TypeOK'
  BY TypeStep DEF IInv
<1>2. CASE Slips
  <2>1. slips' # 0
    BY <1>2 DEF Slips, IInv, TypeOK
  <2>2. QED
    BY <1>1, <2>1 DEF IInv, StaysInStep
<1>3. CASE UNCHANGED vars
  <2>1. StaysInStep'
    BY <1>3 DEF IInv, StaysInStep, InStep, vars, tally
  <2>2. QED
    BY <1>1, <2>1 DEF IInv
<1>4. QED
  BY <1>1, <1>2, <1>3, ArrivalKeeps, TakingKeeps DEF Next, IInv

-----------------------------------------------------------------------------
(* Every reachable state of the framing is type-correct; before the first  *)
(* loss of bytes the receiver is in step with the sender's frames.         *)
THEOREM FramingInvariant == Spec => []IInv
<1>1. QED
  BY InitInStep, StepKeeps, PTL DEF Spec

(* A garbled byte costs the frame it was in and no other (the resync of    *)
(* pdb_service_rx and host_link_poll_rx drops exactly that frame).         *)
THEOREM GarblingIsLocal == Spec => []GarbledCostsOneFrame
<1>1. ASSUME IInv PROVE GarbledCostsOneFrame
  <2> SUFFICES ASSUME slips = 0 PROVE missed <= faults
    BY DEF GarbledCostsOneFrame
  <2>1. PICK q \in Nat : \E bad \in SUBSET Nat : InStep(q, bad)
    BY <1>1 DEF IInv, StaysInStep
  <2>2. PICK bad \in SUBSET Nat : InStep(q, bad)
    BY <2>1
  <2>3. /\ missed \in Nat /\ faults \in Nat /\ accepted \in 0..(Frames - 1)
        /\ Cardinality(bad) \in Nat /\ Between(accepted, q % Frames) \in Nat
    BY <1>1, <2>2, BetweenNext, FS_CardinalityType DEF IInv, TypeOK, InStep
  <2>4. QED
    BY <2>2, <2>3 DEF InStep
<1>2. QED
  BY <1>1, FramingInvariant, PTL

-----------------------------------------------------------------------------
(* The transmit side of the link to the power board.                       *)

CommandByte == [idx: 0..(FrameBytes - 1), cmd: Command]

LEMMA NothingHeard == <<>> \in Seq(CommandByte) /\ Len(<<>>) = 0 /\ 1..Len(<<>>) = {}
OBVIOUS

LEMMA Positive == TxPeriodMs \in Nat \ {0} /\ FrameBytes \in Nat \ {0}
BY TransmitAssumption

(* A frame is built only when none is under way (pdb_service_tx).          *)
LEMMA BuildKeeps ==
  ASSUME TxIInv, NEW ok \in BOOLEAN, BuildsFrame(ok)
  PROVE  TxIInv'
<1> USE Positive DEF TxIInv, boardVars, txVars, reqVars, plantVars
<1>1. /\ wireBytes = <<>> /\ wireBytes' = wireBytes /\ Len(wireBytes) = 0
      /\ txIdx' = 0 /\ txActive' = TRUE /\ txBusy' = ok
  BY DEF BuildsFrame, TxTypeOK, PaceInv
<1>2. txFrame' \in Command /\ txSeq' \in 0..1
  BY DEF BuildsFrame, TxTypeOK, Command
<1>3. TxTypeOK'
  BY <1>1, <1>2 DEF BuildsFrame, TxTypeOK
<1>4. PaceInv'
  BY <1>1 DEF PaceInv
<1>5. QED
  BY <1>3, <1>4

(* The board hears the byte the index points at; the last one ends the     *)
(* frame on both sides at once (HAL_UART_TxCpltCallback).                  *)
LEMMA ByteKeeps ==
  ASSUME TxIInv, ByteSent
  PROVE  TxIInv'
<1> USE Positive DEF TxIInv, boardVars, txVars, reqVars, plantVars
<1> DEFINE byte == [idx |-> txIdx, cmd |-> txFrame]
           got == Append(wireBytes, byte)
<1>1. /\ txActive /\ txBusy' = FALSE /\ txIdx' = txIdx + 1
      /\ txIdx \in Nat /\ txIdx < FrameBytes /\ Len(wireBytes) = txIdx
      /\ UNCHANGED <<txFrame, txSeq, txAge, estopReq, killReq, hostPc>>
      /\ UNCHANGED <<staged, plantPc, image>>
  BY DEF ByteSent, TxTypeOK, PaceInv
<1>2. byte \in CommandByte /\ wireBytes \in Seq(CommandByte)
  BY <1>1 DEF TxTypeOK, CommandByte
<1>3. /\ got \in Seq(CommandByte) /\ Len(got) = txIdx + 1
      /\ \A i \in 1..Len(wireBytes) : got[i] = wireBytes[i]
      /\ got[txIdx + 1] = byte
  BY <1>1, <1>2
<1>4. /\ txIdx' \in 0..FrameBytes /\ txBusy' \in BOOLEAN
      /\ txFrame' \in Command /\ txSeq' \in 0..1 /\ txAge' \in 0..TxPeriodMs
      /\ estopReq' \in BOOLEAN /\ killReq' \in {"NORMAL", "SOFT_READY"}
      /\ hostPc' \in {"tx", "rest", "probe"} /\ plantPc' \in {"lap", "park", "ask"}
      /\ staged' \in McuStates \cup {"none"} /\ image' \in McuStates \cup {"none"}
  <2>1. txIdx' \in 0..FrameBytes
    BY <1>1
  <2>2. txFrame' \in Command /\ txSeq' \in 0..1 /\ txAge' \in 0..TxPeriodMs
    BY <1>1 DEF TxTypeOK
  <2>3. estopReq' \in BOOLEAN /\ killReq' \in {"NORMAL", "SOFT_READY"}
    BY <1>1 DEF TxTypeOK
  <2>4. hostPc' \in {"tx", "rest", "probe"} /\ plantPc' \in {"lap", "park", "ask"}
    BY <1>1 DEF TxTypeOK
  <2>5. staged' \in McuStates \cup {"none"} /\ image' \in McuStates \cup {"none"}
    BY <1>1 DEF TxTypeOK
  <2>6. txBusy' \in BOOLEAN
    BY <1>1, Zenon
  <2>7. QED
    BY <2>1, <2>2, <2>3, <2>4, <2>5, <2>6
<1>5. seen \in Command /\ txFrame \in Command
  BY DEF TxTypeOK
<1>6. CASE txIdx + 1 < FrameBytes
  <2>1. wireBytes' = got /\ seen' = seen /\ txActive' = TRUE
    <3>1. txIdx' < FrameBytes /\ Len(got) < FrameBytes
      BY <1>1, <1>3, <1>6
    <3>2. txActive' = TRUE
      BY <3>1 DEF ByteSent
    <3>3. QED
      BY <3>1, <3>2 DEF ByteSent, BoardHears
  <2>2. \A i \in 1..(txIdx + 1) : got[i] = [idx |-> i - 1, cmd |-> txFrame]
    BY <1>1, <1>3 DEF PaceInv
  <2>3. TxTypeOK'
    <3>1. wireBytes' \in Seq(CommandByte) /\ Len(wireBytes') < FrameBytes
      BY <1>3, <1>6, <2>1
    <3>2. QED
      BY <3>1, <1>4, <1>5, <2>1 DEF TxTypeOK, CommandByte
  <2>4. PaceInv'
    BY <1>1, <1>3, <1>6, <2>1, <2>2 DEF PaceInv
  <2>5. QED
    BY <2>3, <2>4
<1>7. CASE ~(txIdx + 1 < FrameBytes)
  <2>1. wireBytes' = <<>> /\ seen' = txFrame /\ txActive' = FALSE
    <3>1. ~(txIdx' < FrameBytes) /\ ~(Len(got) < FrameBytes)
      BY <1>1, <1>3, <1>7
    <3>2. txActive' = FALSE
      <4>1. txActive' = (txIdx' < FrameBytes)
        BY Zenon DEF ByteSent
      <4>2. (txIdx' < FrameBytes) = FALSE
        BY <3>1, <1>1, SMT
      <4>3. QED
        BY <4>1, <4>2, Zenon
    <3>3. wireBytes' = <<>> /\ seen' = byte.cmd
      BY <3>1 DEF ByteSent, BoardHears
    <3>4. QED
      BY <3>2, <3>3
  <2>2. wireBytes' \in Seq(CommandByte) /\ Len(wireBytes') = 0 /\ 1..Len(wireBytes') = {}
    BY <2>1, NothingHeard
  <2>3. TxTypeOK'
    <3>1. Len(wireBytes') < FrameBytes
      BY <2>2
    <3>2. QED
      BY <3>1, <2>1, <2>2, <1>4, <1>5 DEF TxTypeOK, CommandByte
  <2>4. PaceInv'
    BY <1>1, <2>1, <2>2 DEF PaceInv
  <2>5. QED
    BY <2>3, <2>4
<1>8. QED
  BY <1>6, <1>7

(* Whatever leaves the frame under way alone.                              *)
LEMMA OtherStep ==
  ASSUME TxIInv,
         \/ Tick \/ HostCommands \/ ProbeStarts \/ ProbeEnds \/ NothingToSend
         \/ \E ok \in BOOLEAN : KicksByte(ok)
         \/ Latches \/ Parks \/ Answers \/ UNCHANGED linkVars
  PROVE  TxIInv'
<1> USE Positive DEF TxIInv, boardVars, txVars, reqVars, plantVars
<1>1. /\ UNCHANGED <<wireBytes, txActive, txIdx, txFrame>>
      /\ txBusy' \in BOOLEAN /\ (txBusy' => txActive)
  BY DEF linkVars, Tick, HostCommands, ProbeStarts, ProbeEnds, NothingToSend, KicksByte,
     Latches, Parks, Answers, TxTypeOK, PaceInv
<1>2. PaceInv'
  BY <1>1 DEF PaceInv
<1>3. /\ UNCHANGED <<seen, txSeq>> /\ txAge' \in 0..TxPeriodMs
      /\ hostPc' \in {"tx", "rest", "probe"}
  BY DEF linkVars, Tick, Older, HostCommands, ProbeStarts, ProbeEnds, NothingToSend,
     KicksByte, Latches, Parks, Answers, TxTypeOK
<1>4. estopReq' \in BOOLEAN /\ killReq' \in {"NORMAL", "SOFT_READY"}
  BY DEF linkVars, Tick, HostCommands, ProbeStarts, ProbeEnds, NothingToSend,
     KicksByte, Latches, Parks, Answers, TxTypeOK
<1>5. /\ plantPc' \in {"lap", "park", "ask"}
      /\ staged' \in McuStates \cup {"none"} /\ image' \in McuStates \cup {"none"}
  BY DEF linkVars, Tick, HostCommands, ProbeStarts, ProbeEnds, NothingToSend,
     KicksByte, Latches, Parks, Answers, TxTypeOK
<1>6. TxTypeOK'
  BY <1>1, <1>3, <1>4, <1>5 DEF TxTypeOK
<1>7. QED
  BY <1>2, <1>6

-----------------------------------------------------------------------------
(* The paced transmit and the board agree on the frame under way in every  *)
(* reachable state.                                                        *)
THEOREM PaceInvariant == TxSpec => []TxIInv
<1>1. ASSUME TxInit PROVE TxIInv
  <2> USE Positive
  <2>1. /\ wireBytes \in Seq(CommandByte) /\ Len(wireBytes) = 0
        /\ 1..Len(wireBytes) = {} /\ Len(wireBytes) < FrameBytes
    BY <1>1, NothingHeard DEF TxInit
  <2>2. Reset \in Command /\ TxPeriodMs \in 0..TxPeriodMs /\ 0 \in 0..FrameBytes
    BY DEF Reset, Command
  <2>3. wireBytes \in Seq([idx: 0..(FrameBytes - 1), cmd: Command])
    BY <2>1 DEF CommandByte
  <2>4. TxTypeOK
    <3>1. seen \in Command /\ txFrame \in Command /\ txAge \in 0..TxPeriodMs
      BY <1>1, <2>2 DEF TxInit
    <3>2. txActive \in BOOLEAN /\ txBusy \in BOOLEAN /\ estopReq \in BOOLEAN
      BY <1>1, Zenon DEF TxInit
    <3>3. /\ txSeq \in 0..1 /\ txIdx \in 0..FrameBytes /\ killReq \in {"NORMAL", "SOFT_READY"}
          /\ hostPc \in {"tx", "rest", "probe"} /\ plantPc \in {"lap", "park", "ask"}
          /\ staged \in McuStates \cup {"none"} /\ image \in McuStates \cup {"none"}
      BY <1>1, <2>2 DEF TxInit
    <3>4. QED
      BY <2>1, <2>3, <3>1, <3>2, <3>3 DEF TxTypeOK
  <2>5. PaceInv
    BY <1>1, <2>1 DEF TxInit, PaceInv
  <2>6. QED
    BY <2>4, <2>5 DEF TxIInv
<1>2. TxIInv /\ [TxNext]_linkVars => TxIInv'
  BY BuildKeeps, ByteKeeps, OtherStep DEF TxNext, Sends, PlantTask
<1>3. QED
  BY <1>1, <1>2, PTL DEF TxSpec

(* The board never gets bytes of two commands in one frame: latches change *)
(* and periods pass while a frame goes out byte by byte (pdb_service_tx).  *)
THEOREM CommandsArriveWhole == TxSpec => []CommandWhole
<1>1. TxIInv => CommandWhole
  <2> SUFFICES ASSUME TxIInv, NEW i \in DOMAIN wireBytes
               PROVE  wireBytes[i] = [idx |-> i - 1, cmd |-> wireBytes[1].cmd]
    BY DEF CommandWhole
  <2>1. Len(wireBytes) \in Nat /\ DOMAIN wireBytes = 1..Len(wireBytes)
    BY DEF TxIInv, TxTypeOK
  <2>2. i \in 1..Len(wireBytes) /\ 1 \in 1..Len(wireBytes)
    BY <2>1
  <2>3. \A j \in 1..Len(wireBytes) : wireBytes[j] = [idx |-> j - 1, cmd |-> txFrame]
    BY DEF TxIInv, PaceInv
  <2>4. wireBytes[i] = [idx |-> i - 1, cmd |-> txFrame]
    BY <2>2, <2>3
  <2>5. wireBytes[1].cmd = txFrame
    <3>1. wireBytes[1] = [idx |-> 1 - 1, cmd |-> txFrame]
      BY <2>2, <2>3
    <3>2. QED
      BY <3>1
  <2>6. QED
    BY <2>4, <2>5
<1>2. QED
  BY <1>1, PaceInvariant, PTL
=============================================================================
