------------------------------- MODULE HostPlan -------------------------------
(***************************************************************************)
(* What the host decides before it writes an image: the windows that an     *)
(* arm's joints are held to and the jogs planned inside them, the gains     *)
(* that a hold is given, and the patches that are mounted and applied to    *)
(* the held image.                                                          *)
(*                                                                         *)
(* Angles are whole numbers of 10 microradians, gains of hundredths; a      *)
(* fraction of them is rounded down.  A value that may be None is a set of  *)
(* at most one element; a call that raises returns the empty set.           *)
(***************************************************************************)
EXTENDS Integers, Sequences, FiniteSets

LOCAL SX == INSTANCE SequencesExt
LOCAL FX == INSTANCE FiniteSetsExt
LOCAL Low(a, b)  == IF a < b THEN a ELSE b
LOCAL High(a, b) == IF a > b THEN a ELSE b
LOCAL Abs(a) == IF a < 0 THEN -a ELSE a
LOCAL Over(f, g) == [x \in DOMAIN f \cup DOMAIN g |-> IF x \in DOMAIN f THEN f[x] ELSE g[x]]

\* A value for every slot of a list; the last one of a slot named twice.
LOCAL Zip(slots, values) ==
  [s \in SX!ToSet(slots) |-> values[FX!Max({i \in 1 .. Len(slots) : slots[i] = s})]]

Window(lo, hi) == [lo |-> lo, hi |-> hi]
Clamped(x, w) == Low(w.hi, High(w.lo, x))

----------------------------------------------------------------------------
(* Joint limits. *)

SoftMargin == 5000
DeltaCap   == 35000
ClearInset == 8000

J7Motor == Window(110000, 280000)

Embedded ==
  <<Window(-261799, 313000), Window(0, 365000), Window(0, 313000),
    Window(-157080, 157080), Window(-157080, 157080), Window(-209440, 209440)>>

Span(lim) == High(0, lim.hi - lim.lo)

\* The margin is taken off both ends, never more than what leaves a tenth.
Soft(lim, margin) ==
  LET m == IF Span(lim) > 0 THEN Low(margin, (45 * Span(lim)) \div 100) ELSE 0
  IN Window(lim.lo + m, lim.hi - m)

\* xml: the joints that the robot's description gave a range; one that does
\* not give all six counts for nothing.  Both arms have the same limits.
LoadLimits(xml) ==
  LET six == IF DOMAIN xml = 1 .. 6 THEN xml ELSE Embedded
  IN [j \in 1 .. 14 |-> LET l == 1 + ((j - 1) % 7) IN IF l = 7 THEN J7Motor ELSE six[l]]

ArmLocal(joint) == 1 + ((joint - 1) % 7)
LimitsForSide(side, limits) ==
  [i \in 1 .. 7 |-> limits[IF side = "left" THEN i ELSE i + 7]]

\* The window between two edges the operator stopped at, in either order; a
\* window that the inset closes is a band about home, or the middle.
ClearWindow(a, b, inset, home) ==
  LET lo   == Low(a, b)
      hi   == High(a, b)
      half == (hi - lo) \div 2
      m    == IF hi > lo THEN Low(inset, half \div 10) ELSE inset
      mid  == IF home = {} THEN (lo + hi) \div 2 ELSE CHOOSE h \in home : TRUE
      band == High(2000, High(hi - lo, 4000) \div 4)
  IN IF lo + m <= hi - m THEN Window(lo + m, hi - m)
     ELSE Window(mid - band, mid + band)

BenchClear ==
  <<Window(-146210, 103450), Window(-459290, -268260), Window(112770, 306010),
    Window(-93610, 134880), Window(-140370, 105970), Window(-141900, 17920),
    Window(125620, 264560)>>
BenchActive(env, flag) == env \notin {"0", "false", "off", "no"} /\ flag

\* The left arm's windows are cut down to what was cleared on the bench; a
\* joint whose two windows do not meet keeps the bench's.
SoftLimits(side, margin, limits, bench) ==
  [i \in 1 .. 7 |->
     LET soft == Soft(LimitsForSide(side, limits)[i], margin)
         met  == Window(High(soft.lo, BenchClear[i].lo), Low(soft.hi, BenchClear[i].hi))
     IN IF ~(bench /\ side = "left") THEN soft
        ELSE IF met.hi < met.lo THEN BenchClear[i] ELSE met]

ClampAbsolute(pos, lim, margin) == Clamped(pos, Soft(lim, margin))
ClampQ(q, windows) == [i \in 1 .. 7 |-> Clamped(q[i], windows[i])]

SpanCap(span) == Low(DeltaCap, High(5000, (8 * span) \div 100))

\* The step a jog may take from start, of what it asked for.  The last joint
\* is turned round at its hard stop; a joint far outside its window moves by
\* the cap at most, either way; one held at a wall is sent off it.
ClampDelta(start, delta, local, w) ==
  LET cap  == SpanCap(Span(w))
      mag  == Low(Abs(delta), cap)
      step == Clamped(start + delta, w) - start
      up   == w.hi - start
      down == start - w.lo
  IN CASE local = 7 /\ start <= J7Motor.lo + 15000 /\ delta < 0 -> mag
       [] OTHER ->
            IF start < w.lo - 25000 \/ start > w.hi + 25000
            THEN (IF delta < 0 THEN -mag ELSE mag)
            ELSE IF ~(Abs(step) < 10 /\ Abs(delta) > 10) THEN step
            ELSE IF up >= down /\ up > 100 THEN Low(mag, up)
            ELSE IF down > 100 THEN -Low(mag, down) ELSE step

PlanHold(q, windows) == ClampQ(q, windows)

\* The whole arm is clamped, the joints that were not asked to move as well.
PlanJog(q, joint, delta, windows) ==
  IF joint \notin 0 .. 6 THEN {}
  ELSE LET i == joint + 1
       IN {ClampQ([q EXCEPT ![i] = @ + ClampDelta(@, delta, i, windows[i])], windows)}

----------------------------------------------------------------------------
(* Gains. *)

ArmKp == <<4000, 6000, 9000, 6000, 2500, 2500, 2000>>
ArmKd == <<250, 375, 560, 375, 150, 150, 125>>
Kinds == [joint |-> [kp |-> ArmKp[1], kd |-> ArmKd[1], torque |-> 0],
          wheel |-> [kp |-> 2000, kd |-> 100, torque |-> 0]]
HoldGains == Kinds.wheel

KindForComponent(name) ==
  IF name \in {"base", "base_product", "base_wheel_1", "base_wheel_2", "base_wheel_3"}
  THEN "wheel" ELSE "joint"

GainsForKind(kind) == IF kind \in DOMAIN Kinds THEN {Kinds[kind]} ELSE {}

\* given: what the caller passed, a kind, and a list: of none, of one value, or of all.
GainVector(n, given, default) ==
  CASE given.kind = "none"   -> {[i \in 1 .. n |-> default]}
    [] given.kind = "scalar" -> {[i \in 1 .. n |-> given.value[1]]}
    [] given.kind = "vector" -> IF Len(given.value) = n THEN {given.value} ELSE {}

Vectors(kps, kds, tqs) ==
  {[kp |-> kp, kd |-> kd, torque |-> tq] : kp \in kps, kd \in kds, tq \in tqs}

ResolveHoldGains(n, kp, kd, torque) ==
  Vectors(GainVector(n, kp, HoldGains.kp), GainVector(n, kd, HoldGains.kd),
          GainVector(n, torque, HoldGains.torque))

\* Only an arm of seven joints has gains of its own for every joint.
ResolveGainVectors(kind, n, kp, kd, torque) ==
  LET table(given, arm, default) ==
        IF given.kind = "none" /\ kind = "joint" /\ n = Len(arm) THEN {arm}
        ELSE GainVector(n, given, default)
  IN UNION {Vectors(table(kp, ArmKp, g.kp), table(kd, ArmKd, g.kd),
                    GainVector(n, torque, g.torque)) : g \in GainsForKind(kind)}

----------------------------------------------------------------------------
(* Mounted patches. *)

NoActuators == [s \in {} |-> 0]
Blank == [position |-> 0, kp |-> 0, kd |-> 0, torque |-> 0]
NoServo == [servo_id |-> 0, position |-> 0, torque |-> FALSE, mode |-> 0]
Patch(actuators, servos, led) == [actuators |-> actuators, servos |-> servos, led |-> led]
FromActuators(a) == Patch(a, NoActuators, {})
FromServos(s)    == Patch(NoActuators, s, {})
FromLed(l)       == Patch(NoActuators, NoActuators, {l})

\* Later mounts win per slot.
MergeMounted(items) ==
  SX!FoldLeft(LAMBDA m, p : Patch(Over(p.actuators, m.actuators),
                                  Over(p.servos, m.servos),
                                  IF p.led = {} THEN m.led ELSE p.led),
              Patch(NoActuators, NoActuators, {}), items)

\* feedback: the positions by slot that the board has reported.
Positions(slots, feedback) ==
  IF SX!ToSet(slots) \subseteq DOMAIN feedback
  THEN {[i \in 1 .. Len(slots) |-> feedback[slots[i]]]} ELSE {}

HoldDesires(slots, positions, gains) ==
  IF Len(positions) # Len(slots) THEN {}
  ELSE {Zip(slots, [i \in 1 .. Len(slots) |->
               [position |-> positions[i], kp |-> g.kp[i], kd |-> g.kd[i],
                torque |-> g.torque[i]]]) : g \in gains}

\* given: {} to hold the joints where they are, else the set of the positions.
Hold(slots, given, feedback, gains) ==
  UNION {{FromActuators(d) : d \in HoldDesires(slots, q, gains)} :
           q \in (IF given = {} THEN Positions(slots, feedback) ELSE given)}

Nudge(slots, index, delta, feedback, gains) ==
  UNION {IF index \notin 0 .. Len(slots) - 1 THEN {}
         ELSE Hold(slots, {[q EXCEPT ![index + 1] = @ + delta]}, feedback, gains) :
           q \in Positions(slots, feedback)}

SetDesires(slots, desires) ==
  IF Len(desires) # Len(slots) THEN {} ELSE {FromActuators(Zip(slots, desires))}

BlankGroup(slots) == FromActuators([s \in SX!ToSet(slots) |-> Blank])

ServoSet(slot, id, position, torque, mode) ==
  FromServos([s \in {slot} |->
     [servo_id |-> id % 256, position |-> position, torque |-> torque, mode |-> mode]])
ServoClear(slot) == FromServos([s \in {slot} |-> NoServo])

\* profile: the first two entries of a servo profile that has two, or the
\* caller's slots and numbers.
NeckSlots(profile, given) == IF Len(profile) >= 2 THEN SubSeq(profile, 1, 2) ELSE given
NeckCenter(profile, given, position) ==
  LET neck == NeckSlots(profile, given)
      at(i) == ServoSet(neck[i].slot, neck[i].id, position, TRUE, 3).servos
  IN FromServos(Over(at(2), at(1)))
NeckClear(profile, given) ==
  LET neck == NeckSlots(profile, given)
  IN FromServos([s \in {neck[1].slot, neck[2].slot} |-> NoServo])

LedPatterns ==
  [idle |-> 8, flash |-> 2, test |-> 1, solid_green |-> 3, solid_yellow |-> 4,
   solid_red |-> 5, caution |-> 6, fault |-> 7]
LedPresets ==
  [gen_2 |-> <<"follow", 0>>, idle |-> <<"debug", 8>>, pdu |-> <<"pdu", 0>>,
   follow |-> <<"follow", 0>>]

LedDesire(policy, pattern, brightness) ==
  IF policy \notin {"debug", "pdu", "follow"} THEN {}
  ELSE {[mode |-> policy, pattern |-> pattern % 32,
         brightness |-> Clamped(brightness, Window(0, 31))]}

\* The number of a pattern instead of a policy, as older callers give it.
LedNumber(mode, brightness) ==
  LedDesire(IF mode % 32 = 0 THEN "follow" ELSE "debug", mode, brightness)

LedNamed(name, brightness) ==
  CASE name \in DOMAIN LedPatterns -> LedDesire("debug", LedPatterns[name], brightness)
    [] name \in {"follow", "pdu"}  -> LedDesire(name, 0, brightness)
    [] name = "off"                -> LedDesire("follow", 0, 0)
    [] OTHER                       -> {}
LedPreset(name) ==
  IF name \in DOMAIN LedPresets
  THEN LedDesire(LedPresets[name][1], LedPresets[name][2], 8) ELSE {}

----------------------------------------------------------------------------
(* The session's pending patches and the image it holds.                    *)
(* A session: pending, held; touchedA, touchedS and touchedL, what was ever   *)
(* applied; listen, that the board was told to show the power board's state; *)
(* sent, the images that were committed.                                     *)

ServoSlots == {0, 1}
PlantSlots == 0 .. 25
Session == [pending |-> <<>>, held |-> Patch(NoActuators, NoActuators, {}),
            touchedA |-> {}, touchedS |-> {}, touchedL |-> FALSE, listen |-> FALSE,
            sent |-> <<>>]

Mount(ses, patch) == [ses EXCEPT !.pending = Append(@, patch)]
Discard(ses)      == [ses EXCEPT !.pending = <<>>]
Commit(ses)       == [ses EXCEPT !.sent = Append(@, ses.held)]

\* Slots are looked at before any of them is set: a call sets all or none.
SetActuators(held, desires) ==
  IF DOMAIN desires \subseteq PlantSlots THEN {[held EXCEPT !.actuators = Over(desires, @)]} ELSE {}
SetServo(held, slot, desire) ==
  IF slot \in ServoSlots
  THEN {[held EXCEPT !.servos = Over([s \in {slot} |-> desire], @)]} ELSE {}

\* A light that shows the power board's state turns listening on, host and
\* board, and no other turns it off.
SetLed(ses, led) ==
  IF led = {} THEN ses
  ELSE [ses EXCEPT !.held.led = led, !.listen = @ \/ \E l \in led : l.mode = "pdu"]

\* The pending patches, merged: the actuators, then each servo in the order
\* it was first named, then the light; a servo slot that does not exist stops
\* it there, with what was already set still held, uncommitted, and the
\* patches still pending.
ServoOrder(items) ==
  SX!FoldLeft(LAMBDA q, p : q \o SX!SetToSortSeq(DOMAIN p.servos \ SX!ToSet(q), <),
              <<>>, items)

Apply(ses) ==
  LET m == MergeMounted(ses.pending)
      order == ServoOrder(ses.pending)
      fine  == SX!SelectInSeq(order, LAMBDA s : s \notin ServoSlots)
      done  == IF fine = 0 THEN SX!ToSet(order) ELSE SX!ToSet(SubSeq(order, 1, fine - 1))
      some  == [s \in done |-> m.servos[s]]
      base  == [ses EXCEPT !.held.actuators = Over(m.actuators, @),
                           !.touchedA = @ \cup DOMAIN m.actuators,
                           !.held.servos = Over(some, @), !.touchedS = @ \cup done]
  IN IF ~(DOMAIN m.actuators \subseteq PlantSlots) THEN ses
     ELSE IF fine # 0 THEN base
     ELSE Discard(Commit(SetLed([base EXCEPT !.touchedL = @ \/ m.led # {}], m.led)))

\* What was ever applied is blanked and committed; what is pending is dropped.
ClearAll(ses) ==
  LET blank == [held |-> Patch(Over([s \in ses.touchedA |-> Blank], ses.held.actuators),
                               Over([s \in ses.touchedS |-> NoServo], ses.held.servos),
                               IF ses.touchedL THEN LedDesire("follow", 0, 0) ELSE ses.held.led)]
      any   == ses.touchedA \cup ses.touchedS # {} \/ ses.touchedL
      left  == [ses EXCEPT !.held = blank.held, !.touchedA = {}, !.touchedS = {},
                           !.touchedL = FALSE]
  IN Discard(IF any THEN Commit(left) ELSE left)

\* A helper that is bound to a session hands its patch back, or mounts and
\* applies it; one that is not writes the held image itself.
Emit(ses, patch, send) == IF send THEN Apply(Mount(ses, patch)) ELSE ses
EmitUnbound(ses, patch, send) ==
  LET set(held) == SetLed([ses EXCEPT !.held = [held EXCEPT !.servos = Over(patch.servos, @)]],
                          patch.led)
  IN IF ~(DOMAIN patch.servos \subseteq ServoSlots) THEN {}
     ELSE {IF send /\ patch # FromActuators(NoActuators) THEN Commit(set(h)) ELSE set(h) :
             h \in SetActuators(ses.held, patch.actuators)}

SetSection(held, slots, desires) ==
  IF Len(desires) # Len(slots) THEN {} ELSE SetActuators(held, Zip(slots, desires))
SectionFeedback(slots, feedback) ==
  [i \in 1 .. Len(slots) |->
     IF slots[i] \in DOMAIN feedback THEN {feedback[slots[i]]} ELSE {}]

\* The servo slots of a section: the assembly's, or the neck's.
ServoSection(name, assembly) ==
  CASE name \in DOMAIN assembly -> {assembly[name]}
    [] name = "neck"            -> {<<0, 1>>}
    [] OTHER                    -> {}
SetServoSection(held, slots, desires) ==
  IF Len(desires) # Len(slots) THEN {}
  ELSE {[held EXCEPT !.servos = Over(Zip(slots, desires), @)]}

----------------------------------------------------------------------------
(* Cruises: the slots that are engaged, in order, before a slot without a    *)
(* specification stops the call.                                            *)

SeedForSlot(feedback, slot) == IF slot \in DOMAIN feedback THEN feedback[slot] ELSE 0

Engaged(slots, specs) ==
  LET stop == SX!SelectInSeq(slots, LAMBDA s : s \notin specs)
  IN IF stop = 0 THEN slots ELSE SubSeq(slots, 1, stop - 1)

SpinJog(slots, specs) == Engaged(slots, specs)
MoveArmCruise(slots, specs, targets) ==
  Engaged(SelectSeq(slots, LAMBDA s : s \in targets), specs)
NeckCruise(specs, targets) ==
  Engaged(SelectSeq(<<0, 1>>, LAMBDA s : s \in targets), specs)
=============================================================================
