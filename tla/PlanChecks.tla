------------------------------ MODULE PlanChecks ------------------------------
(***************************************************************************)
(* What must hold of what the host plans: of the windows and the jogs of an *)
(* arm from every stance about them, and of the patches of a session in     *)
(* every order they can be mounted, applied, cleared and dropped.  TLC      *)
(* evaluates the assumptions in the runs that extend this module.           *)
(***************************************************************************)
EXTENDS Integers, Sequences, FiniteSets

LOCAL H == INSTANCE HostPlan
LOCAL Within(v, w) == w.lo <= v.lo /\ v.hi <= w.hi
LOCAL Abs(a) == IF a < 0 THEN -a ELSE a
LOCAL Partial == [j \in 1 .. 5 |-> H!Window(-1, 1)]
LOCAL Limits == H!LoadLimits(<<>>)
LOCAL Win(side) == H!SoftLimits(side, H!SoftMargin, Limits, TRUE)

\* Positions about a window: far below and above, beyond and at its ends,
\* just inside, in the middle.
LOCAL About(w) ==
  {w.lo - 60000, w.lo - 25001, w.lo - 3, w.lo, w.lo + 3, (w.lo + w.hi) \div 2,
   w.hi - 3, w.hi, w.hi + 3, w.hi + 25001, w.hi + 60000}
LOCAL Deltas == {-100000, -5000, -11, -3, 0, 3, 11, 5000, 100000}
LOCAL Mid(side) == [i \in 1 .. 7 |-> (Win(side)[i].lo + Win(side)[i].hi) \div 2]

\* However an operator's stop edges come, the cleared window is a window; of
\* two different edges it keeps the middle and lies inside them, and it is
\* inset at both ends, by no more than was asked.
ASSUME ClearWindowIsSafe ==
    \A a, b \in {-300000, -2001, -7, 0, 3, 41, 90000} : \A inset \in {0, H!ClearInset} :
      \A home \in {{}, {12}, {400000}} :
        LET w == H!ClearWindow(a, b, inset, home)
            e == H!Window(IF a < b THEN a ELSE b, IF a < b THEN b ELSE a)
        IN /\ w.lo <= w.hi
           /\ w = H!ClearWindow(b, a, inset, home)
           /\ a # b => /\ Within(w, e)
                       /\ w.lo - e.lo <= inset /\ w.lo - e.lo = e.hi - w.hi
                       /\ w.lo <= (e.lo + e.hi) \div 2 /\ (e.lo + e.hi) \div 2 <= w.hi

\* A robot description that is missing or incomplete does not change the
\* limits, both arms have the same, and no window is empty.  With the bench
\* table the left arm stays inside it on every joint; on the second one the
\* two tables do not meet at all, so that the bench's window, outside the
\* description's limits, is what the arm may use.
ASSUME WindowsAreWhole ==
    /\ H!LoadLimits(Partial) = Limits /\ H!LoadLimits(H!Embedded) = Limits
    /\ H!LimitsForSide("left", Limits) = H!LimitsForSide("right", Limits)
    /\ \A i \in 1 .. 7 :
         /\ Win("left")[i].lo < Win("left")[i].hi /\ Win("right")[i].lo < Win("right")[i].hi
         /\ Within(Win("left")[i], H!BenchClear[i])
         /\ Within(Win("right")[i], H!LimitsForSide("right", Limits)[i])
    /\ {i \in 1 .. 7 : ~Within(Win("left")[i], H!LimitsForSide("left", Limits)[i])} = {2}
    /\ H!SoftLimits("left", H!SoftMargin, Limits, FALSE) = Win("right")
    /\ \A w \in {H!Window(0, 0), H!Window(3, 1), H!Window(0, 9), H!Window(-4, 400000)} :
         w.lo <= w.hi => H!Soft(w, 5000).lo <= H!Soft(w, 5000).hi

\* From any stance, whatever a jog asks for, the whole command lies in the
\* arm's windows; joints that were inside and not asked to move stay.
ASSUME JogStaysInWindow ==
    \A side \in {"left", "right"} : \A joint \in 0 .. 6 : \A delta \in Deltas :
      LET other == (joint + 1) % 7
      IN \A at \in About(Win(side)[joint + 1]) :
        \A elsewhere \in About(Win(side)[other + 1]) :
          LET q == [Mid(side) EXCEPT ![joint + 1] = at, ![other + 1] = elsewhere]
          IN \A c \in H!PlanJog(q, joint, delta, Win(side)) :
               \A i \in 1 .. 7 :
                 /\ Win(side)[i].lo <= c[i] /\ c[i] <= Win(side)[i].hi
                 /\ (i # joint + 1 /\ Win(side)[i].lo <= q[i] /\ q[i] <= Win(side)[i].hi)
                      => c[i] = q[i]

\* A joint that is inside its window moves by no more than was asked, and
\* the way that was asked unless it is at the wall or the last joint's stop.
ASSUME JogMovesAsAsked ==
    \A side \in {"left", "right"} : \A i \in 1 .. 7 : \A delta \in Deltas :
      \A at \in {x \in About(Win(side)[i]) : H!Clamped(x, Win(side)[i]) = x} :
        LET d == H!ClampDelta(at, delta, i, Win(side)[i])
        IN /\ Abs(d) <= Abs(delta)
           /\ (d # 0 /\ (d > 0) # (delta > 0)) =>
                \/ at - Win(side)[i].lo < 10 \/ Win(side)[i].hi - at < 10
                \/ i = 7 /\ at <= 125000
           /\ (Abs(delta) > 10) => d # 0

\* The note of a jog from far outside the window says it moves by the cap at
\* most, but the clamp of the whole arm takes the joint to the window's edge,
\* and takes every other joint that is outside there too.
ASSUME FarJogJumpsToEdge ==
    LET w == Win("right")
        q == [Mid("right") EXCEPT ![1] = w[1].lo - 60000, ![3] = w[3].hi + 60000]
    IN /\ H!ClampDelta(q[1], -3, 1, w[1]) = -3
       /\ \A c \in H!PlanJog(q, 0, -3, w) :
            /\ c[1] - q[1] = 60000 /\ 60000 > H!SpanCap(H!Span(w[1]))
            /\ q[3] - c[3] = 60000

\* What the arm holds lies in its windows, from any stance; holding it again
\* moves nothing, nor does holding a stance that was inside.  A single joint
\* clamped by itself lands in the same limits.
ASSUME HoldIsInWindow ==
    \A side \in {"left", "right"} : \A i \in 1 .. 7 : \A k \in 1 .. 7 :
      \A at \in About(Win(side)[i]), elsewhere \in About(Win(side)[k]) :
        LET q    == [Mid(side) EXCEPT ![i] = at, ![k] = elsewhere]
            held == H!PlanHold(q, Win(side))
            lim  == H!LimitsForSide(side, Limits)[H!ArmLocal(IF side = "left" THEN i ELSE i + 7)]
            own  == H!ClampAbsolute(q[i], lim, H!SoftMargin)
        IN /\ \A j \in 1 .. 7 : H!Clamped(held[j], Win(side)[j]) = held[j]
                                /\ (H!Clamped(q[j], Win(side)[j]) = q[j] => held[j] = q[j])
           /\ H!PlanHold(held, Win(side)) = held
           /\ lim.lo <= own /\ own <= lim.hi
           /\ (side = "right" => own = held[i])

\* Gains are as many as the slots, whichever way they are given, or the call
\* is refused; the arm's own gains are only those of seven joints.
LOCAL None == [kind |-> "none", value |-> <<>>]
LOCAL Given == {None, [kind |-> "vector", value |-> <<7, 8>>],
                [kind |-> "vector", value |-> H!ArmKd]}
               \cup {[kind |-> "scalar", value |-> <<5>>]}
ASSUME GainsFitTheSlots ==
    \A n \in {1, 2, 7} : \A kp, kd \in Given : \A kind \in {"joint", "wheel", "belt"} :
      LET all  == H!ResolveGainVectors(kind, n, kp, kd, None)
          hold == H!ResolveHoldGains(n, kp, kd, None)
          fits(g) == g.kind = "vector" => Len(g.value) = n
      IN /\ (all # {}) <=> (kind # "belt" /\ fits(kp) /\ fits(kd))
         /\ (hold # {}) <=> (fits(kp) /\ fits(kd))
         /\ \A g \in all \cup hold : \A f \in {"kp", "kd", "torque"} : Len(g[f]) = n
         /\ \A g \in all : kp = None =>
              (g.kp = H!ArmKp <=> n = 7 /\ kind = "joint")

----------------------------------------------------------------------------
\* A group holds where it is only if every slot of it has been heard of;
\* a nudge is the hold with one joint moved.
ASSUME HoldStaysPut ==
    \A slots \in {<<0>>, <<3, 4>>, <<4, 3, 9>>} : \A heard \in SUBSET {0, 3, 4, 9} :
      LET fb    == [s \in heard |-> 100 * s]
          gains == H!ResolveHoldGains(Len(slots), None, None, None)
          held  == H!Hold(slots, {}, fb, gains)
      IN /\ (held = {}) <=> (\E i \in 1 .. Len(slots) : slots[i] \notin heard)
         /\ \A p \in held : \A s \in DOMAIN p.actuators : p.actuators[s].position = fb[s]
         /\ \A k \in -1 .. 3 :
              LET moved == H!Nudge(slots, k, 7, fb, gains)
              IN IF held = {} \/ k \notin 0 .. Len(slots) - 1 THEN moved = {}
                 ELSE \A p \in held : moved =
                        {[p EXCEPT !.actuators[slots[k + 1]].position = @ + 7]}

LOCAL P1 == H!FromActuators([s \in {1, 2} |-> [H!Blank EXCEPT !.position = s]])
LOCAL P2 == H!FromActuators([s \in {2, 3} |-> [H!Blank EXCEPT !.position = 10 * s]])
LOCAL P3 == H!NeckCenter(<<>>, <<[slot |-> 0, id |-> 1], [slot |-> 1, id |-> 2]>>, 2048)
LOCAL P4 == H!ServoClear(1)
LOCAL P5 == H!FromLed(CHOOSE l \in H!LedNamed("fault", 40) : TRUE)
LOCAL P6 == H!FromLed(CHOOSE l \in H!LedPreset("pdu") : TRUE)
LOCAL Patches == {P1, P2, P3, P4, P5, P6}
LOCAL Lists == UNION {[1 .. n -> Patches] : n \in 0 .. 3}
LOCAL Bad == H!ServoSet(2, 5, 0, TRUE, 3)
LOCAL Mounted(list) == [H!Session EXCEPT !.pending = list]

\* Applying what is pending leaves the image that applying the patches one
\* by one leaves, in one frame and nothing pending; what is later mounted
\* wins, slot by slot.  A light that a later one of the batch replaces does
\* not turn listening on, which it would have done on its own.
ASSUME ApplyIsInOrder ==
    \A list \in Lists :
      LET step[i \in 0 .. Len(list)] ==
            IF i = 0 THEN H!Session ELSE H!Emit(step[i - 1], list[i], TRUE)
          once == H!Apply(Mounted(list))
      IN /\ once.held = step[Len(list)].held
         /\ once.listen = (\E i \in 1 .. Len(list) :
                             list[i] = P6 /\ \A k \in i + 1 .. Len(list) : list[k].led = {})
         /\ once.pending = <<>> /\ once.sent = <<once.held>>
         /\ \A i \in 1 .. Len(list) : \A s \in DOMAIN list[i].actuators :
              (\A k \in i + 1 .. Len(list) : s \notin DOMAIN list[k].actuators)
                => once.held.actuators[s] = list[i].actuators[s]

\* A patch for a servo that does not exist makes apply raise with its
\* actuator half already held, so that the stream sends it, and everything
\* still pending: every later apply raises again until what is pending is
\* dropped, and clear still blanks what was let through.
ASSUME RaisingApplyKeepsPending ==
    \A list \in Lists : \A i \in 1 .. Len(list) + 1 :
      LET all   == SubSeq(list, 1, i - 1) \o <<Bad>> \o SubSeq(list, i, Len(list))
          once  == H!Apply(Mounted(all))
          clear == H!ClearAll(once)
      IN /\ once.pending = all /\ once.sent = <<>>
         /\ once.held.actuators = H!MergeMounted(all).actuators
         /\ H!Apply(once) = once
         /\ \A s \in DOMAIN clear.held.actuators : clear.held.actuators[s] = H!Blank
         /\ clear.pending = <<>>

\* After any calls, clear leaves nothing this session applied alive: every
\* slot it touched is blank in the image it holds and in the last frame it
\* sent, and a patch it had only mounted is gone, not applied later.  What it
\* does leave is the board told to listen to the power board.
LOCAL Calls == [kind : {"mount"}, patch : {P1, P3, P6, Bad}]
                 \cup [kind : {"apply", "clear", "discard"}]
LOCAL Call(ses, c) ==
  CASE c.kind = "mount"   -> H!Mount(ses, c.patch)
    [] c.kind = "apply"   -> H!Apply(ses)
    [] c.kind = "clear"   -> H!ClearAll(ses)
    [] c.kind = "discard" -> H!Discard(ses)
ASSUME ClearLeavesNothing ==
    \A calls \in UNION {[1 .. n -> Calls] : n \in 0 .. 4} :
      LET at[i \in 0 .. Len(calls)] ==
            IF i = 0 THEN H!Session ELSE Call(at[i - 1], calls[i])
          before == at[Len(calls)]
          after  == H!ClearAll(before)
          dead(held) == /\ \A s \in DOMAIN held.actuators : held.actuators[s] = H!Blank
                        /\ \A s \in DOMAIN held.servos : held.servos[s] = H!NoServo
                        /\ \A l \in held.led : l.mode = "follow"
      IN /\ dead(after.held)
         /\ after.sent # <<>> => dead(after.sent[Len(after.sent)])
         /\ H!Apply(after).held = after.held
         /\ H!Discard(before).held = before.held
         /\ after.listen = before.listen

\* Every component has gains, of a wheel or of a joint.
ASSUME ComponentsHaveGains ==
    \A name \in {"left_arm", "base", "base_wheel_2", "torso"} :
      H!GainsForKind(H!KindForComponent(name)) # {}

\* The neck's centre and its clear name the same two servos, so that one
\* undoes the other, whichever profile they were given, and each servo as well as a
\* clear of its own would.
ASSUME NeckClearUndoesCenter ==
    \A a, b \in {0, 1} : \A full \in BOOLEAN :
      LET entry(s)  == [slot |-> s, id |-> s + 1]
          profile   == IF full THEN <<entry(a), entry(b), entry(0)>> ELSE <<entry(a)>>
          given     == <<entry(1), entry(0)>>
          center    == H!Emit(H!Session, H!NeckCenter(profile, given, 2048), TRUE)
          cleared   == H!Emit(center, H!NeckClear(profile, given), TRUE)
          one(s)    == H!Emit(center, H!ServoClear(s), TRUE).held.servos[s]
      IN /\ DOMAIN center.held.servos = IF full THEN {a, b} ELSE {0, 1}
         /\ cleared.held.servos = [s \in DOMAIN center.held.servos |-> one(s)]
         /\ \A s \in DOMAIN center.held.servos : center.held.servos[s].torque /\ ~one(s).torque

\* A patch that a helper without a session writes leaves the image that the
\* session's own call leaves, and the same listening; both refuse a servo
\* that does not exist, but the session holds on to it.
ASSUME UnboundEmitAgrees ==
    \A p \in Patches \cup {Bad, H!FromActuators([s \in {} |-> 0])} :
      LET direct == H!EmitUnbound(H!Session, p, TRUE)
          own    == H!Emit(H!Session, p, TRUE)
      IN /\ (direct = {}) <=> (p = Bad)
         /\ (direct = {}) <=> (own.pending # <<>>)
         /\ \A d \in direct : d.held = own.held /\ d.listen = own.listen

\* A light that is given by its number is the light that is given by its
\* name, and no light's brightness leaves the strip's range.
ASSUME LightsByNumber ==
    \A b \in {-1, 0, 8, 31, 32} :
      /\ \A name \in DOMAIN H!LedPatterns : H!LedNumber(H!LedPatterns[name], b) = H!LedNamed(name, b)
      /\ H!LedNumber(0, b) = H!LedNumber(32, b)
      /\ \A l \in H!LedNumber(40, b) : l.brightness \in 0 .. 31 /\ l.pattern = 8

\* A section is set as a whole or not at all, slot by slot in its order, and
\* a list of another length is refused.
ASSUME SectionsAreWhole ==
    \A slots \in {<<14, 17>>, <<3, 4, 5>>, <<25, 26>>} : \A n \in 1 .. 3 :
      LET want == [i \in 1 .. n |-> [H!Blank EXCEPT !.position = i]]
          got  == H!SetSection(H!Session.held, slots, want)
      IN /\ (got # {}) <=> (n = Len(slots) /\ 26 \notin {slots[i] : i \in 1 .. Len(slots)})
         /\ \A h \in got :
              /\ \A i \in 1 .. n : h.actuators[slots[i]].position = i
              /\ H!SectionFeedback(slots, h.actuators) = [i \in 1 .. n |-> {want[i]}]
              /\ {h} = H!SetActuators(H!Session.held,
                         (CHOOSE p \in H!SetDesires(slots, want) : TRUE).actuators)
         /\ (H!SetDesires(slots, want) = {}) <=> (n # Len(slots))
         /\ H!SetDesires(slots, [i \in 1 .. Len(slots) |-> H!Blank]) = {H!BlankGroup(slots)}

\* A servo section is set as its servos are set one by one, or not at all.
ASSUME ServoSectionsAreWhole ==
    \A n \in 1 .. 3 : \A assembly \in {[x \in {} |-> <<>>], [x \in {"neck"} |-> <<1, 0>>]} :
      LET want  == [i \in 1 .. n |-> [H!NoServo EXCEPT !.position = i]]
          slots == CHOOSE q \in H!ServoSection("neck", assembly) : TRUE
          got   == H!SetServoSection(H!Session.held, slots, want)
      IN /\ (got # {}) <=> (n = 2)
         /\ got = IF n # 2 THEN {} ELSE
                    UNION {H!SetServo(h, slots[2], want[2]) :
                             h \in H!SetServo(H!Session.held, slots[1], want[1])}
         /\ H!ServoSection("tail", assembly) = {}
         /\ H!SetServo(H!Session.held, 2, H!NoServo) = {}

\* A cruise over slots of which one has no specification raises with the
\* slots named before it already moving.
ASSUME CruiseStopsAtMissing ==
    \A slots \in UNION {[1 .. n -> 0 .. 3] : n \in 0 .. 3} : \A specs \in SUBSET (0 .. 3) :
      LET on == H!SpinJog(slots, specs)
      IN /\ \A i \in 1 .. Len(on) : on[i] = slots[i] /\ on[i] \in specs
         /\ Len(on) < Len(slots) => slots[Len(on) + 1] \notin specs
         /\ H!MoveArmCruise(slots, specs, {}) = <<>>
         /\ H!NeckCruise(specs, {1}) = SelectSeq(<<1>>, LAMBDA s : s \in specs)
         /\ (0 \notin specs => H!NeckCruise(specs, {0, 1}) = <<>>)

\* A slot that has not been heard of is cruised from zero, not from where the
\* drive is.
ASSUME UnheardSlotStartsAtZero ==
    \A heard \in SUBSET {3, 4} : \A s \in {3, 4} :
      H!SeedForSlot([x \in heard |-> 700 + x], s) = IF s \in heard THEN 700 + s ELSE 0
=============================================================================
