------------------------------- MODULE PeerWire -------------------------------
(***************************************************************************)
(* The bytes of the links beyond the USB one: the 64-byte frames of the     *)
(* power board as the SDK packs and parses them (pdb/frame.py, status.py)   *)
(* against pdb_link.c, and the MIT frames of the CubeMars drives            *)
(* (link/cubemars_mit.py) against cubemars.c.                               *)
(*                                                                         *)
(* Physical values are integers in thousandths; a cyclic redundancy check   *)
(* is the set of its bits that are 1, so that xor is the symmetric          *)
(* difference.                                                              *)
(***************************************************************************)
EXTENDS Wire

-----------------------------------------------------------------------------
(* pdb/frame.py *)

FrameBytes == 64
CrcOff     == 62
PdbMagic   == [CMD |-> <<80, 68, 66, 67>>, FB |-> <<80, 68, 66, 70>>]
PdbVersion == 1

CmdOff == [rail_enable_cmd |-> 8, kill_request |-> 9, heartbeat |-> 10]
FbRows == [pack_v |-> 8, rail_v |-> 16, pack_i |-> 24, rail_i |-> 32]
FbOff  == [contactor_state |-> 40, kill_state |-> 41, kill_reason |-> 42,
           estop_sense |-> 43, fault_flags |-> 44, heartbeat_echo |-> 45]

Kill == [normal |-> 0, soft_req |-> 1, soft_ready |-> 2, hard_estop |-> 3]
KillStateNames == (0 :> "normal") @@ (1 :> "soft_kill_req")
                    @@ (2 :> "soft_kill_ready") @@ (3 :> "hard_estop")
KillReasonNames == (0 :> "none") @@ (1 :> "host") @@ (2 :> "undervoltage")
                     @@ (3 :> "overcurrent") @@ (4 :> "overtemp")
                     @@ (5 :> "comms_loss") @@ (6 :> "button") @@ (7 :> "other")
CommsLoss == 5

Xor(s, t)  == (s \ t) \cup (t \ s)
BitSet(v)  == {k \in 0 .. 15 : Bits(v, k, 1) = 1}
Word(s)    == MapThenSumSet(LAMBDA k : 2^k, s)

\* One bit of the polynomial 0x1021, most significant bit first.
CrcBit(crc) ==
    LET shifted == {k + 1 : k \in crc \ {15}}
    IN IF 15 \in crc THEN Xor(shifted, {0, 5, 12}) ELSE shifted

\* What eight bits make of the high byte of the check, the low one being 0.
CrcHigh ==
    LET Two(c) == CrcBit(CrcBit(c))
    IN [high \in SUBSET (8 .. 15) |-> Two(Two(Two(Two(high))))]

CrcByte(in) == Xor({k + 8 : k \in in \cap (0 .. 7)}, CrcHigh[in \cap (8 .. 15)])

crc16(bytes) ==
    LET after[crc \in SUBSET (0 .. 15), i \in 1 .. Len(bytes)] ==
          CrcByte(Xor(crc, {k + 8 : k \in BitSet(bytes[i])}))
        crc[n \in 0 .. Len(bytes)] == IF n = 0 THEN 0 .. 15 ELSE after[crc[n - 1], n]
    IN Word(crc[Len(bytes)])

\* A frame is the sequence of its bytes; PdbAt reads from an offset.
PdbAt(buf, off) == buf[off + 1]

Finish(buf) == SubSeq(buf, 1, CrcOff) \o Pair(crc16(SubSeq(buf, 1, CrcOff)))

IsFrameValid(buf, magic) ==
    /\ Len(buf) = FrameBytes
    /\ SubSeq(buf, 1, 4) = magic
    /\ PdbAt(buf, 4) = PdbVersion
    /\ SubSeq(buf, CrcOff + 1, FrameBytes) = Pair(crc16(SubSeq(buf, 1, CrcOff)))

\* at: bytes by offset, over zeros.
Framed(magic, seq, flags, at) ==
    LET head == At(0, magic \o <<PdbVersion, Low(seq), Low(flags)>>)
        all  == at @@ head @@ Zeros(FrameBytes)
    IN Finish([i \in 1 .. FrameBytes |-> all[i - 1]])

PackCommand(c) ==
    Framed(PdbMagic.CMD, c.seq, c.flags,
           At(8, <<Low(c.rail_enable_cmd), Low(c.kill_request), Low(c.heartbeat)>>))

ParseCommand(buf) ==
    IF ~IsFrameValid(buf, PdbMagic.CMD) THEN <<>>
    ELSE [seq |-> PdbAt(buf, 5), flags |-> PdbAt(buf, 6)]
           @@ [f \in DOMAIN CmdOff |-> PdbAt(buf, CmdOff[f])]

Quad(q) == FlattenSeq([i \in 1 .. 4 |-> Pair(q[i])])
ReadQuad(buf, off) ==
    [i \in 1 .. 4 |-> PdbAt(buf, off + 2 * i - 2) + 256 * PdbAt(buf, off + 2 * i - 1)]

PackFeedback(f) ==
    Framed(PdbMagic.FB, f.seq, 0,
           At(8, Quad(f.pack_v) \o Quad(f.rail_v) \o Quad(f.pack_i) \o Quad(f.rail_i)
                  \o <<Low(f.contactor_state), Low(f.kill_state), Low(f.kill_reason),
                       Low(f.estop_sense), Low(f.fault_flags), Low(f.heartbeat_echo)>>))

ParsePdbFeedback(buf) ==
    IF ~IsFrameValid(buf, PdbMagic.FB) THEN <<>>
    ELSE [seq |-> PdbAt(buf, 5)]
           @@ [r \in DOMAIN FbRows |-> ReadQuad(buf, FbRows[r])]
           @@ [f \in DOMAIN FbOff |-> PdbAt(buf, FbOff[f])]

(* The firmware: the command it sends, and the verdict over what it heard.  *)
FwCommand(seq, rail, kill, heartbeat, estop) ==
    PackCommand([seq |-> seq, flags |-> Flag(estop), rail_enable_cmd |-> rail,
                 kill_request |-> kill, heartbeat |-> heartbeat])

MaxAmps   == 3000
PackRange == 4000 .. 5500
RailRange == 4200 .. 5200

\* Too much current wins over a voltage out of its window; a pack without
\* voltage, and a rail neither switched on nor live, are not looked at.
FwViReason(f) ==
    LET packs == {i \in 1 .. 4 : f.pack_v[i] # 0}
        rails == {i \in 1 .. 4 : f.rail_v[i] # 0 \/ Bits(f.contactor_state, i - 1, 1) = 1}
    IN CASE (\E i \in packs : f.pack_i[i] > MaxAmps)
              \/ (\E i \in rails : f.rail_i[i] > MaxAmps) -> "overcurrent"
         [] OTHER ->
              IF (\E i \in packs : f.pack_v[i] \notin PackRange)
                   \/ (1 \in rails /\ f.rail_v[1] \notin RailRange)
              THEN "undervoltage" ELSE "none"

FwEvalKill(stale, f) ==
    IF stale THEN <<Kill.hard_estop, CommsLoss>>
    ELSE IF f.kill_state # Kill.normal \/ FwViReason(f) = "none"
         THEN <<f.kill_state, f.kill_reason>>
         ELSE <<Kill.soft_req, IF FwViReason(f) = "overcurrent" THEN 3 ELSE 2>>

\* A plant image: the verdict in the system block, and the last frame that
\* was valid, however old, in pdb.
FwImage(stale, f, buf) ==
    At(SystemOff + KillOff.kill_state, FwEvalKill(stale, f)) @@ At(PduOff, buf)
      @@ At(0, Magic.HBHF) @@ Zeros(ImageBytes)

-----------------------------------------------------------------------------
(* pdb/status.py.  Volts and amperes in thousandths, 10 to a count.         *)

CountsToMilli(counts) == counts * 10

\* round() of Python takes a tie to the even neighbour.
MilliToCounts(milli) ==
    LET q == milli \div 10  r == milli % 10
    IN (IF r > 5 \/ (r = 5 /\ q % 2 = 1) THEN q + 1 ELSE q) % 65536

ParseSystemKill(image) ==
    LET state  == image[SystemOff + KillOff.kill_state]
        reason == image[SystemOff + KillOff.kill_reason]
    IN [kill_state |-> state, kill_reason |-> reason,
        estop_sense |-> image[SystemOff + KillOff.estop_sense],
        kill_state_name |-> Named(KillStateNames, state),
        kill_reason_name |-> Named(KillReasonNames, reason),
        stale_failsafe |-> state = Kill.hard_estop /\ reason = CommsLoss]

ParsePdbMirror(image) == ParsePdbFeedback(Bytes(image, PduOff, FrameBytes))

PdbStatus(image) ==
    LET sys == ParseSystemKill(image)  pdb == ParsePdbMirror(image) IN
    sys @@ [soft_kill_req |-> sys.kill_state = Kill.soft_req,
            soft_kill_ready |-> sys.kill_state = Kill.soft_ready,
            hard_estop |-> sys.kill_state = Kill.hard_estop,
            normal |-> sys.kill_state = Kill.normal,
            pdb |-> pdb,
            scaled |-> IF pdb = <<>> THEN <<>>
                       ELSE [r \in DOMAIN FbRows |->
                               [i \in 1 .. 4 |-> CountsToMilli(pdb[r][i])]]]

-----------------------------------------------------------------------------
(* link/cubemars_mit.py *)

AkLimits ==     \* v and t, symmetric about 0
    [AK10_9 |-> <<50000, 65000>>, AK60_6 |-> <<50000, 15000>>,
     AK70_10 |-> <<50000, 25000>>, AK80_6 |-> <<76000, 12000>>,
     AK80_9 |-> <<50000, 18000>>, AK80_80 |-> <<8000, 144000>>,
     AKH70_48 |-> <<3665, 222000>>]

Limits(model) ==
    LET v == AkLimits[model][1]  t == AkLimits[model][2] IN
    [position |-> <<-12500, 12500>>, velocity |-> <<-v, v>>, kp |-> <<0, 500000>>,
     kd |-> <<0, 5000>>, torque |-> <<-t, t>>]

Width == [position |-> 16, velocity |-> 12, kp |-> 12, kd |-> 12, torque |-> 12]

Clamp(x, lo, hi) == IF x > hi THEN hi ELSE IF x < lo THEN lo ELSE x

\* Truncation, of the exact product: the binary rounding of the code can
\* lower a result that is a whole number by one.
FloatToUint(x, range, bits) ==
    IF bits <= 0 \/ bits > 16 THEN 0
    ELSE ((Clamp(x, range[1], range[2]) - range[1]) * (2^bits - 1))
            \div (range[2] - range[1])

\* The value times 2^bits - 1, which keeps it exact, less the lower limit.
UintAbove(raw, range) == raw * (range[2] - range[1])

Quantised(model, d) ==
    [f \in DOMAIN Width |-> FloatToUint(d[f], Limits(model)[f], Width[f])]

StdId(id) == id % 2048

PackMit(id, u) ==
    [id |-> StdId(id),
     data |-> <<(u.position \div 256) % 256, u.position % 256,
                (u.velocity \div 16) % 256,
                (u.velocity % 16) * 16 + ((u.kp \div 256) % 16), u.kp % 256,
                (u.kd \div 16) % 256,
                (u.kd % 16) * 16 + ((u.torque \div 256) % 16), u.torque % 256>>]

UnpackMitTx(data) ==
    [position |-> data[1] * 256 + data[2],
     velocity |-> data[3] * 16 + (data[4] \div 16),
     kp |-> (data[4] % 16) * 256 + data[5],
     kd |-> data[6] * 16 + (data[7] \div 16),
     torque |-> (data[7] % 16) * 256 + data[8]]

Opcode == [ENABLE |-> 252, DISABLE |-> 253, SET_ZERO |-> 254]
PackOpcode(id, op) ==
    [id |-> StdId(id), data |-> [i \in 1 .. 8 |-> IF i = 8 THEN Opcode[op] ELSE 255]]

\* master: none, a sequence; 0 and -1 (automatic) mean the drive's own id.
ResolveRxCanId(id, master) ==
    IF master \in {<<>>, <<0>>, <<-1>>} THEN StdId(id) ELSE StdId(master[1])

\* expected: the drive's id, or nothing.  Short frames lack the last bytes.
UnpackMitRx(data, expected) ==
    IF Len(data) < 6 \/ (expected # {} /\ data[1] \notin {Low(e) : e \in expected})
    THEN <<>>
    ELSE [motor_id |-> data[1], position |-> data[2] * 256 + data[3],
          velocity |-> data[4] * 16 + (data[5] \div 16),
          torque |-> (data[5] % 16) * 256 + data[6],
          temperature |-> IF Len(data) >= 7 THEN data[7] ELSE 0,
          fault |-> IF Len(data) >= 8 THEN data[8] ELSE 0]
=============================================================================
