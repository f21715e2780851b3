----------------------------- MODULE PeerChecks -----------------------------
(***************************************************************************)
(* What must hold of the frames of PeerWire, over samples of the values     *)
(* their bytes tell apart.  TLC evaluates the assumptions in the runs that  *)
(* extend this module.                                                      *)
(***************************************************************************)
EXTENDS Integers, Sequences, FiniteSets, TLC

LOCAL P == INSTANCE PeerWire

LOCAL Command(n) ==
    [seq |-> n, flags |-> n % 2, rail_enable_cmd |-> n + 1, kill_request |-> n % 4,
     heartbeat |-> 2 * n]
LOCAL Quiet == [i \in 1 .. 4 |-> 0]
LOCAL Feedback(kill, reason, pack, amps, railV, contactor) ==
    [seq |-> 7, pack_v |-> [Quiet EXCEPT ![2] = pack], rail_v |-> [Quiet EXCEPT ![1] = railV],
     pack_i |-> [Quiet EXCEPT ![2] = amps], rail_i |-> [Quiet EXCEPT ![3] = amps],
     contactor_state |-> contactor, kill_state |-> kill, kill_reason |-> reason,
     estop_sense |-> 1, fault_flags |-> 9, heartbeat_echo |-> 255]
LOCAL Feedbacks ==
    {Feedback(k, r, pv, a, rv, c) : k \in {0, 1, 3}, r \in {0, 5},
       pv \in {0, 3999, 4000, 5500, 5501}, a \in {0, 3000, 3001}, rv \in {0, 4200, 5201},
       c \in {0, 4}}
LOCAL Loud == Feedback(0, 0, 65535, 256, 4660, 15)

\* The check value of the polynomial, over the characters 1 .. 9.
ASSUME CrcCheckValue ==
    P!crc16(<<49, 50, 51, 52, 53, 54, 55, 56, 57>>) = 10673

\* No frame that differs from a valid one in one bit or in two is valid: the
\* change that a bit makes to the check of the frame is not 0, and no two
\* bits make the same one.
ASSUME TwoBitErrorsDetected ==
    LET low[m \in 1 .. P!CrcOff] ==    \* the lowest bit of the m-th last byte
            IF m = 1 THEN {0, 5, 12} ELSE P!CrcByte(low[m - 1])
        of(m) == LET b[n \in 0 .. 7] == IF n = 0 THEN low[m] ELSE P!CrcBit(b[n - 1])
                 IN {b[n] : n \in 0 .. 7}
        changes == UNION {of(m) : m \in 1 .. P!CrcOff} \cup {{k} : k \in 0 .. 15}
    IN {} \notin changes /\ Cardinality(changes) = 8 * P!CrcOff + 16

\* A flipped byte anywhere makes a frame invalid; so does the other magic.
ASSUME DamageIsSeen ==
    LET good == P!PackCommand(Command(5))
        bad(i, v) == [good EXCEPT ![i] = (@ + v) % 256]
    IN /\ P!IsFrameValid(good, P!PdbMagic.CMD)
       /\ ~P!IsFrameValid(good, P!PdbMagic.FB)
       /\ ~P!IsFrameValid(Tail(good), P!PdbMagic.CMD)
       /\ \A i \in {1, 5, 6, 8, 30, 62, 63, 64} :
            ~P!IsFrameValid(bad(i, 1), P!PdbMagic.CMD)

\* What is packed is what is parsed, on either side of the link.
ASSUME FramesComeBack ==
    /\ \A n \in {0, 1, 127} : P!ParseCommand(P!PackCommand(Command(n))) = Command(n)
    /\ \A e \in BOOLEAN :
         P!ParseCommand(P!FwCommand(9, 3, 2, 4, e)) =
           [seq |-> 9, flags |-> IF e THEN 1 ELSE 0, rail_enable_cmd |-> 3,
            kill_request |-> 2, heartbeat |-> 4]
    /\ P!ParsePdbFeedback(P!PackFeedback(Loud)) = Loud

\* The four verdicts of the firmware: a stale board is a hard stop, the
\* board's own word counts unless it is NORMAL, and then the readings do.
ASSUME VerdictOverReadings ==
    \A f \in Feedbacks :
      /\ P!FwEvalKill(TRUE, f) = <<3, 5>>
      /\ f.kill_state # 0 => P!FwEvalKill(FALSE, f) = <<f.kill_state, f.kill_reason>>
      /\ f.kill_state = 0 =>
           LET v == P!FwEvalKill(FALSE, f)
               over == f.pack_i[2] > 3000 /\ (f.pack_v[2] # 0 \/ f.contactor_state = 4)
           IN /\ v[1] \in {0, 1} /\ (v = <<1, 3>> <=> over)
              /\ v[1] = 0 => v[2] = f.kill_reason /\ f.pack_v[2] \in {0} \cup (4000 .. 5500)

\* What the SDK reports of an image is the verdict of the firmware, one of
\* four, by name; it says fail-safe whenever the board is stale, and shows
\* the readings of the last frame next to it, stale or not.
ASSUME StatusIsTheVerdict ==
    \A stale \in BOOLEAN, f \in {Feedback(0, 0, 4800, 3001, 4800, 1), Loud,
                                 Feedback(2, 6, 0, 0, 0, 0), Feedback(3, 5, 0, 0, 0, 0)} :
      LET st == P!PdbStatus(P!FwImage(stale, f, P!PackFeedback(f)))
          v  == P!FwEvalKill(stale, f)
      IN /\ <<st.kill_state, st.kill_reason>> = v
         /\ st.kill_state_name # "unknown" /\ st.kill_reason_name # "unknown"
         /\ stale => st.stale_failsafe /\ st.hard_estop
         /\ st.stale_failsafe => stale \/ f.kill_reason = 5
         /\ Cardinality({b \in {"normal", "soft_kill_req", "soft_kill_ready", "hard_estop"} :
                           st[b]}) = 1
         /\ st.pdb = f /\ st.scaled.pack_v[2] = 10 * f.pack_v[2]

\* Before the first frame the mirror is zeros: no readings, and fail-safe.
ASSUME StatusBeforeTheBoard ==
    LET st == P!PdbStatus(P!FwImage(TRUE, Loud, [i \in 1 .. P!FrameBytes |-> 0]))
    IN st.pdb = <<>> /\ st.scaled = <<>> /\ st.stale_failsafe

\* A count comes back from its value, a value within half a count.
ASSUME ScalesComeBack ==
    /\ \A c \in {0, 1, 2, 255, 4000, 65535} : P!MilliToCounts(P!CountsToMilli(c)) = c
    /\ \A v \in 0 .. 60 : P!CountsToMilli(P!MilliToCounts(v)) - v \in -5 .. 5
    /\ P!MilliToCounts(655360) = 0

-----------------------------------------------------------------------------
LOCAL Models == DOMAIN P!AkLimits
LOCAL Steps(lo, hi) == {lo, lo + 1, (lo + hi) \div 2, (lo + hi) \div 2 + 7, hi - 1, hi}

\* A quantised value is within its bits, within one step below the value it
\* stands for; the order of values is kept; what is out of range is clamped.
ASSUME QuantisedWithinAStep ==
    \A model \in Models, f \in DOMAIN P!Width :
      LET range == P!Limits(model)[f]  lo == range[1]  hi == range[2]  bits == P!Width[f]
          U(x) == P!FloatToUint(x, range, bits)
      IN /\ \A x \in Steps(lo, hi) :
              /\ U(x) \in 0 .. (2^bits - 1)
              /\ (x - lo) * (2^bits - 1) - P!UintAbove(U(x), range) \in 0 .. (hi - lo - 1)
         /\ \A x, y \in Steps(lo, hi) : x <= y => U(x) <= U(y)
         /\ U(lo - 5) = 0 /\ U(hi + 5) = 2^bits - 1
         /\ U(lo) = 0 /\ U(hi) = 2^bits - 1

\* The fields of a command do not run into one another, and the id is a
\* standard one.
ASSUME MitFieldsComeBack ==
    \A p \in {0, 255, 256, 65535}, v, kp, kd, t \in {0, 15, 16, 240, 4095} :
      LET u == [position |-> p, velocity |-> v, kp |-> kp, kd |-> kd, torque |-> t]
      IN P!UnpackMitTx(P!PackMit(5, u).data) = u

\* A motion command is never taken for one of the opcodes: that takes every
\* field at the top of its range but the torque.
ASSUME OpcodesApart ==
    \A op \in DOMAIN P!Opcode, t \in {3837, 4080, 4092, 4093, 4094, 4095} :
      LET u == [position |-> 65535, velocity |-> 4095, kp |-> 4095, kd |-> 4095, torque |-> t]
      IN P!PackMit(1, u).data = P!PackOpcode(1, op).data <=> t = 3840 + P!Opcode[op]

\* Feedback is taken from the drive it was asked of and no other; the short
\* form of a frame tells the motion and no more.
ASSUME FeedbackOfTheDrive ==
    \A id \in {1, 5, 255}, mine \in {{}, {1}, {5}, {261}}, n \in 5 .. 8 :
      LET data == SubSeq(<<id, 128, 3, 127, 248, 1, 30, 2>>, 1, n)
          got  == P!UnpackMitRx(data, mine)
      IN /\ got = <<>> <=> n < 6 \/ (mine # {} /\ \A e \in mine : e % 256 # id)
         /\ got # <<>> =>
              /\ got.position = 32771 /\ got.velocity = 2047 /\ got.torque = 2049
              /\ got.temperature = (IF n >= 7 THEN 30 ELSE 0)
              /\ got.fault = (IF n = 8 THEN 2 ELSE 0)

ASSUME RxIdResolved ==
    /\ \A id \in {1, 2047, 2049} :
         /\ \A m \in {<<>>, <<0>>, <<-1>>} : P!ResolveRxCanId(id, m) = id % 2048
         /\ P!ResolveRxCanId(id, <<17>>) = 17
=============================================================================
