---------------------------- MODULE Teleop_proofs ----------------------------
(***************************************************************************)
(* Proofs about Teleop, for any slots, any number of request handlers and  *)
(* any mixes of requests.                                                  *)
(***************************************************************************)
EXTENDS Teleop, FiniteSetTheorems, TLAPS

-----------------------------------------------------------------------------
(* Requests. *)

(* What SetToSeq makes of a finite set has its elements. *)
LEMMA SetToSeqIs ==
  ASSUME NEW S, IsFiniteSet(S)
  PROVE  /\ Cardinality(S) \in Nat
         /\ \A i \in 1..Cardinality(S) : SetToSeq(S)[i] \in S
<1>1. Cardinality(S) \in Nat /\ ExistsBijection(1..Cardinality(S), S)
  BY FS_CardinalityType
<1>2. \E f \in [1..Cardinality(S) -> S] : IsInjective(f)
  BY <1>1 DEF ExistsBijection, Bijection, Injection
<1>3. SetToSeq(S) \in [1..Cardinality(S) -> S]
  BY <1>2 DEF SetToSeq
<1>4. QED
  BY <1>1, <1>3

LEMMA SlotsFinite == IsFiniteSet(Slots) /\ IsFiniteSet(Arm) /\ Arm \subseteq Slots /\ Wheels \subseteq Slots
BY TeleopAssumption, FS_Union DEF Slots

LEMMA SomeSlotIs == SomeSlot \in Slots
BY TeleopAssumption DEF SomeSlot, Slots

LEMMA DoIs ==
  ASSUME NEW op \in Ops, NEW s \in Slots, NEW v \in Nat, session \in Nat
  PROVE  /\ Do(op, s, v) \in Section
         /\ Do(op, s, v).op = op /\ Do(op, s, v).slot = s /\ Do(op, s, v).of = session
BY DEF Do, Section

(* A request for each of several slots. *)
LEMMA EachIs ==
  ASSUME NEW S, IsFiniteSet(S), S \subseteq Slots, NEW op \in Ops, session \in Nat
  PROVE  /\ Each(S, op) \in Seq(Section)
         /\ \A i \in 1..Len(Each(S, op)) : Each(S, op)[i].op = op /\ Each(S, op)[i].of = session
<1>1. Cardinality(S) \in Nat /\ \A i \in 1..Cardinality(S) : SetToSeq(S)[i] \in Slots
  BY SetToSeqIs
<1>2. \A i \in 1..Cardinality(S) :
        LET x == Do(op, SetToSeq(S)[i], 0) IN x \in Section /\ x.op = op /\ x.of = session
  BY <1>1, DoIs
<1>3. QED
  BY <1>1, <1>2 DEF Each

LEMMA InTurnIs ==
  ASSUME NEW S, IsFiniteSet(S), S \subseteq Slots, NEW one \in Ops, NEW two \in Ops, session \in Nat
  PROVE  /\ InTurn(S, one, two) \in Seq(Section)
         /\ \A i \in 1..Len(InTurn(S, one, two)) :
              InTurn(S, one, two)[i].op \in {one, two} /\ InTurn(S, one, two)[i].of = session
<1>1. Cardinality(S) \in Nat /\ \A i \in 1..Cardinality(S) : SetToSeq(S)[i] \in Slots
  BY SetToSeqIs
<1>2. \A i \in 1..2 * Cardinality(S) : ((i + 1) \div 2) \in 1..Cardinality(S)
  BY <1>1
<1>3. ASSUME NEW i \in 1..2 * Cardinality(S), NEW op, op = IF (i % 2) = 1 THEN one ELSE two
      PROVE  LET x == Do(op, SetToSeq(S)[(i + 1) \div 2], 0)
             IN  x \in Section /\ x.op \in {one, two} /\ x.of = session
  <2>1. op \in Ops /\ op \in {one, two} /\ SetToSeq(S)[(i + 1) \div 2] \in Slots
    BY <1>1, <1>2, <1>3
  <2>2. QED
    BY <2>1, DoIs
<1>4. 2 * Cardinality(S) \in Nat
  BY <1>1
<1>5. QED
  BY <1>3, <1>4 DEF InTurn

Plain == {"release", "disengage", "seed", "ensure", "stop", "blank", "park", "widen", "narrow", "specs"}

(* A request that has just been let in. *)
Fresh(name, td) ==
  /\ td \in Seq(Section) /\ Shape(td)
  /\ \A i \in 1..Len(td) :
       /\ td[i].of = session
       /\ td[i].op \in {"open", "disengage_all", "close", "leave"} => name \in Locked
       /\ td[i].op = "open" => name = "connect"
  /\ td # <<>> => td[1].op \notin {"engage", "close", "leave"}

LEMMA PlainIs ==
  ASSUME NEW name, NEW td \in Seq(Section),
         \A i \in 1..Len(td) : td[i].op \in Plain /\ td[i].of = session
  PROVE  Fresh(name, td)
<1>1. Shape(td)
  BY DEF Shape, Plain
<1>2. td # <<>> => td[1].op \in Plain
  OBVIOUS
<1>3. QED
  BY <1>1, <1>2 DEF Fresh, Plain

LEMMA OneIs ==
  ASSUME NEW name, NEW op \in Ops, NEW s \in Slots, NEW v \in Nat, session \in Nat,
         op \in Plain \/ op = "freeze" \/ (op = "apply" /\ s \in Wheels)
  PROVE  Fresh(name, <<Do(op, s, v)>>)
<1>1. PICK x : x = Do(op, s, v)
  OBVIOUS
<1>2. x \in Section /\ x.op = op /\ x.slot = s /\ x.of = session
  BY <1>1, DoIs
<1>3. <<x>> \in Seq(Section) /\ Len(<<x>>) = 1 /\ <<x>>[1] = x
  BY <1>2
<1>4. Shape(<<x>>)
  BY <1>2, <1>3 DEF Shape, Plain, After
<1>5. Fresh(name, <<x>>)
  BY <1>2, <1>3, <1>4 DEF Fresh, Plain
<1>6. QED
  BY <1>1, <1>5

LEMMA ConnectIs ==
  ASSUME NEW s \in Slots, NEW v \in Nat, session \in Nat
  PROVE  Fresh("connect", <<Do("open", s, v), Do("freeze", s, v)>>)
<1>1. PICK x : x = Do("open", s, v)
  OBVIOUS
<1>2. PICK y : y = Do("freeze", s, v)
  OBVIOUS
<1>3. x \in Section /\ y \in Section /\ x.op = "open" /\ y.op = "freeze" /\ x.of = session /\ y.of = session
  BY <1>1, <1>2, DoIs DEF Ops
<1>4. PICK td : td = <<x, y>>
  OBVIOUS
<1>5. td \in Seq(Section) /\ Len(td) = 2 /\ td[1] = x /\ td[2] = y
  BY <1>3, <1>4
<1>6. Shape(td)
  BY <1>3, <1>5 DEF Shape, After
<1>7. Fresh("connect", td)
  BY <1>3, <1>5, <1>6 DEF Fresh, Locked
<1>8. QED
  BY <1>1, <1>2, <1>4, <1>7

LEMMA DisconnectIs ==
  ASSUME NEW s \in Slots, NEW v \in Nat, session \in Nat
  PROVE  Fresh("disconnect", <<Do("disengage_all", s, v), Do("close", s, v), Do("leave", s, v)>>)
<1>1. PICK x : x = Do("disengage_all", s, v)
  OBVIOUS
<1>2. PICK y : y = Do("close", s, v)
  OBVIOUS
<1>3. PICK z : z = Do("leave", s, v)
  OBVIOUS
<1>4. /\ x \in Section /\ x.op = "disengage_all" /\ x.of = session
      /\ y \in Section /\ y.op = "close" /\ y.of = session
      /\ z \in Section /\ z.op = "leave" /\ z.of = session
  BY <1>1, <1>2, <1>3, DoIs DEF Ops
<1>5. PICK td : td = <<x, y, z>>
  OBVIOUS
<1>6. td \in Seq(Section) /\ Len(td) = 3 /\ td[1] = x /\ td[2] = y /\ td[3] = z
  BY <1>4, <1>5
<1>7. \A i \in 1..Len(td) : i = 1 \/ (i = 2 /\ td[i - 1] = x) \/ (i = 3 /\ td[i - 1] = y)
  BY <1>6
<1>8. Shape(td)
  BY <1>4, <1>6, <1>7 DEF Shape, After
<1>9. Fresh("disconnect", td)
  BY <1>4, <1>6, <1>8 DEF Fresh, Locked
<1>10. QED
  BY <1>1, <1>2, <1>3, <1>5, <1>9

LEMMA EngagesIs ==
  ASSUME NEW name, NEW s \in Slots, NEW v \in Nat, session \in Nat \ {0}
  PROVE  Fresh(name, Engages(s, v))
<1>1. PICK x : x = Do("seed", s, v)
  OBVIOUS
<1>2. PICK y : y = Do("engage", s, v)
  OBVIOUS
<1>3. PICK z : z = Do("ensure", s, v)
  OBVIOUS
<1>4. /\ x \in Section /\ x.op = "seed" /\ x.of = session
      /\ y \in Section /\ y.op = "engage" /\ y.of = session
      /\ z \in Section /\ z.op = "ensure" /\ z.of = session
  BY <1>1, <1>2, <1>3, DoIs DEF Ops
<1>5. PICK td : td = <<x, y, z>>
  OBVIOUS
<1>6. td \in Seq(Section) /\ Len(td) = 3 /\ td[1] = x /\ td[2] = y /\ td[3] = z
  BY <1>4, <1>5
<1>7. \A i \in 1..Len(td) : i = 1 \/ (i = 2 /\ td[i - 1] = x) \/ (i = 3 /\ td[i - 1] = y)
  BY <1>6
<1>8. Shape(td)
  BY <1>4, <1>6, <1>7 DEF Shape, After
<1>9. Fresh(name, td)
  BY <1>4, <1>6, <1>8 DEF Fresh, Locked
<1>10. td = Engages(s, v)
  BY <1>1, <1>2, <1>3, <1>5 DEF Engages
<1>11. QED
  BY <1>9, <1>10

(* limit_scout: the arm's rails, then the table. *)
LEMMA ScoutIs ==
  ASSUME NEW name, NEW op \in {"narrow", "widen"}, NEW s \in Slots, NEW v \in Nat, session \in Nat
  PROVE  Fresh(name, Each(Arm, op) \o <<Do("specs", s, v)>>)
<1>1. PICK x : x = Do("specs", s, v)
  OBVIOUS
<1>2. x \in Section /\ x.op = "specs" /\ x.of = session
  BY <1>1, DoIs DEF Ops
<1>3. PICK e : e = Each(Arm, op)
  OBVIOUS
<1>4. e \in Seq(Section) /\ \A i \in 1..Len(e) : e[i].op = op /\ e[i].of = session
  <2>1. op \in Ops /\ IsFiniteSet(Arm) /\ Arm \subseteq Slots
    BY SlotsFinite DEF Ops
  <2>2. /\ Each(Arm, op) \in Seq(Section)
        /\ \A i \in 1..Len(Each(Arm, op)) : Each(Arm, op)[i].op = op /\ Each(Arm, op)[i].of = session
    BY <2>1, EachIs
  <2>3. QED
    BY <2>2, <1>3
<1>5. PICK td : td = e \o <<x>>
  OBVIOUS
<1>6. /\ td \in Seq(Section) /\ Len(td) = Len(e) + 1
      /\ \A i \in 1..Len(td) : td[i] = IF i <= Len(e) THEN e[i] ELSE x
  BY <1>2, <1>4, <1>5
<1>7. \A i \in 1..Len(td) : td[i].op \in Plain /\ td[i].of = session
  BY <1>2, <1>4, <1>6 DEF Plain
<1>8. Fresh(name, td)
  BY <1>6, <1>7, PlainIs
<1>9. QED
  BY <1>1, <1>3, <1>5, <1>8

LEMMA ProgramIs ==
  ASSUME NEW name \in Names, NEW s \in Slots, NEW v \in Nat, session \in Nat,
         name = "apply" => s \in Wheels, name \in NeedsHub => session # 0
  PROVE  Fresh(name, Program(name, s, v))
<1>1. CASE name = "connect"
  BY <1>1, ConnectIs DEF Program
<1>2. CASE name = "disconnect"
  BY <1>2, DisconnectIs DEF Program
<1>3. CASE name = "release"
  BY <1>3, OneIs DEF Program, Ops, Plain
<1>4. CASE name = "engage_soft_kill"
  BY <1>4, OneIs DEF Program, Ops, Plain
<1>5. CASE name \in {"target", "jog"}
  <2>1. session \in Nat \ {0}
    BY <1>5 DEF NeedsHub
  <2>2. Fresh(name, Engages(s, v))
    BY <2>1, EngagesIs
  <2>3. Program(name, s, v) = Engages(s, v)
    BY <1>5 DEF Program
  <2>4. QED
    BY <2>2, <2>3
<1>6. CASE name = "stop"
  BY <1>6, OneIs DEF Program, Ops, Plain
<1>7. CASE name = "apply"
  BY <1>7, OneIs DEF Program, Ops, Plain
<1>8. CASE name = "idle"
  BY <1>8, OneIs DEF Program, Ops, Plain
<1>9. CASE name \in {"estop_park", "recover"}
  BY <1>9, OneIs DEF Program, Ops, Plain
<1>10. CASE name \in {"stop_all", "idle_all"}
  <2>1. PICK op : op = IF name = "stop_all" THEN "stop" ELSE "blank"
    OBVIOUS
  <2>2. op \in Ops /\ op \in Plain
    BY <2>1 DEF Ops, Plain
  <2>3. /\ Each(Slots, op) \in Seq(Section)
        /\ \A i \in 1..Len(Each(Slots, op)) : Each(Slots, op)[i].op = op /\ Each(Slots, op)[i].of = session
    BY <2>2, EachIs, SlotsFinite
  <2>4. Fresh(name, Each(Slots, op))
    BY <2>2, <2>3, PlainIs
  <2>5. Program(name, s, v) = Each(Slots, op)
    BY <1>10, <2>1 DEF Program
  <2>6. QED
    BY <2>4, <2>5
<1>11. CASE name = "idle_group"
  <2>1. PICK td : td = InTurn(Arm, "disengage", "blank")
    OBVIOUS
  <2>2. td \in Seq(Section) /\ \A i \in 1..Len(td) : td[i].op \in {"disengage", "blank"} /\ td[i].of = session
    <3>1. "disengage" \in Ops /\ "blank" \in Ops /\ IsFiniteSet(Arm) /\ Arm \subseteq Slots
      BY SlotsFinite DEF Ops
    <3>2. PICK one, two : one = "disengage" /\ two = "blank"
      OBVIOUS
    <3>3. one \in Ops /\ two \in Ops
      BY <3>1, <3>2
    <3>4. /\ InTurn(Arm, one, two) \in Seq(Section)
          /\ \A i \in 1..Len(InTurn(Arm, one, two)) :
               InTurn(Arm, one, two)[i].op \in {one, two} /\ InTurn(Arm, one, two)[i].of = session
      BY <3>1, <3>3, InTurnIs
    <3>5. td = InTurn(Arm, one, two)
      BY <2>1, <3>2
    <3>6. QED
      BY <3>2, <3>4, <3>5
  <2>3. Fresh(name, td)
    BY <2>2, PlainIs DEF Plain
  <2>4. Program(name, s, v) = td
    BY <1>11, <2>1 DEF Program
  <2>5. QED
    BY <2>3, <2>4
<1>12. CASE name = "limit_scout"
  <2>1. PICK op : op = IF scout THEN "narrow" ELSE "widen"
    OBVIOUS
  <2>2. op \in {"narrow", "widen"}
    BY <2>1
  <2>3. Program(name, s, v) = Each(Arm, op) \o <<Do("specs", s, v)>>
    BY <1>12, <2>1 DEF Program
  <2>4. QED
    BY <2>2, <2>3, ScoutIs
<1>13. QED
  BY <1>1, <1>2, <1>3, <1>4, <1>5, <1>6, <1>7, <1>8, <1>9, <1>10, <1>11, <1>12 DEF Names

(* What requests carry. *)
LEMMA InputsAre ==
  ASSUME NEW name, NEW in \in Inputs(name)
  PROVE  in[1] \in Slots /\ in[2] \in Nat /\ (name = "apply" => in[1] \in Wheels)
<1>1. Top \in Nat /\ Arm \subseteq Slots /\ Wheels \subseteq Slots /\ SomeSlot \in Slots
  BY TeleopAssumption, SlotsFinite, SomeSlotIs
<1>2. CASE name = "target"
  BY <1>1, <1>2 DEF Inputs
<1>3. CASE name = "jog" \/ name = "apply"
  BY <1>1, <1>3 DEF Inputs
<1>4. CASE name \in {"stop", "idle"}
  BY <1>1, <1>4 DEF Inputs
<1>5. CASE name \notin {"target", "jog", "apply", "stop", "idle"}
  BY <1>1, <1>5 DEF Inputs
<1>6. QED
  BY <1>2, <1>3, <1>4, <1>5

-----------------------------------------------------------------------------
(* One critical section further. *)

LEMMA TailShape ==
  ASSUME NEW td \in Seq(Section), td # <<>>, Shape(td)
  PROVE  /\ Tail(td) \in Seq(Section) /\ Shape(Tail(td))
         /\ \A i \in 1..Len(Tail(td)) : i + 1 \in 1..Len(td) /\ Tail(td)[i] = td[i + 1] /\ Tail(td)[i].op # "open"
         /\ Tail(td) # <<>> =>
              /\ td[1].op \notin {"freeze", "leave"}
              /\ Tail(td)[1].op = "engage" => td[1].op = "seed"
              /\ Tail(td)[1].op = "close" => td[1].op = "disengage_all"
              /\ Tail(td)[1].op = "leave" => td[1].op = "close"
<1>1. PICK t, n : t = Tail(td) /\ n = Len(td)
  OBVIOUS
<1>2. n \in Nat \ {0} /\ t \in Seq(Section) /\ Len(t) = n - 1 /\ \A i \in 1..(n - 1) : t[i] = td[i + 1]
  BY <1>1
<1>3. \A i \in 1..n :
        /\ td[i].op = "open" => i = 1
        /\ td[i].op \in {"freeze", "leave"} => i = n
        /\ td[i].op = "engage" => td[i].of # 0 /\ (i > 1 => td[i - 1].op = "seed")
        /\ td[i].op = "close" => (i > 1 => td[i - 1].op = "disengage_all")
        /\ td[i].op = "leave" => (i > 1 => td[i - 1].op = "close")
        /\ td[i].op = "apply" => td[i].slot \in Wheels
  BY <1>1 DEF Shape, After
<1>4. \A i \in 1..(n - 1) : t[i].op # "open"
  BY <1>2, <1>3
<1>5. \A i \in 1..(n - 1) : t[i].op \in {"freeze", "leave"} => i = n - 1
  BY <1>2, <1>3
<1>6. ASSUME NEW i \in 1..(n - 1)
      PROVE  /\ t[i].op = "engage" => t[i].of # 0 /\ (i > 1 => t[i - 1].op = "seed")
             /\ t[i].op = "close" => (i > 1 => t[i - 1].op = "disengage_all")
             /\ t[i].op = "leave" => (i > 1 => t[i - 1].op = "close")
             /\ t[i].op = "apply" => t[i].slot \in Wheels
  <2>1. PICK j : j = i + 1
    OBVIOUS
  <2>2. j \in 1..n /\ j > 1 /\ t[i] = td[j] /\ (i > 1 => t[i - 1] = td[j - 1])
    BY <1>2, <2>1
  <2>3. /\ td[j].op = "engage" => td[j].of # 0 /\ td[j - 1].op = "seed"
        /\ td[j].op = "close" => td[j - 1].op = "disengage_all"
        /\ td[j].op = "leave" => td[j - 1].op = "close"
        /\ td[j].op = "apply" => td[j].slot \in Wheels
    BY <1>3, <2>2
  <2>4. QED
    BY <2>2, <2>3
<1>7. Shape(t)
  BY <1>2, <1>4, <1>5, <1>6 DEF Shape, After
<1>8. t # <<>> => n >= 2 /\ t[1] = td[2] /\ td[2 - 1] = td[1]
  BY <1>2
<1>9. ASSUME t # <<>>
      PROVE  /\ td[1].op \notin {"freeze", "leave"}
             /\ t[1].op = "engage" => td[1].op = "seed"
             /\ t[1].op = "close" => td[1].op = "disengage_all"
             /\ t[1].op = "leave" => td[1].op = "close"
  <2>1. n >= 2 /\ 1 \in 1..n /\ 2 \in 1..n /\ t[1] = td[2] /\ td[2 - 1] = td[1]
    BY <1>2, <1>8, <1>9
  <2>2. QED
    BY <2>1, <1>3
<1>10. QED
  BY <1>1, <1>2, <1>4, <1>7, <1>9

(* What a step keeps of the handlers, if it changes neither the lock nor   *)
(* the session and moves at most one handler on.                           *)
LEMMA HandlersKept ==
  ASSUME TypeOK, HandlersOK, NEW h \in Handlers,
         \/ todo[h] # <<>> /\ todo' = [todo EXCEPT ![h] = Tail(@)]
         \/ todo' = [todo EXCEPT ![h] = <<>>]
         \/ UNCHANGED todo,
         UNCHANGED <<lock, session, opened>>, released => released', ~stray' => ~stray,
         \A g \in Handlers : todo[g] # <<>> /\ todo[g][1].op \in {"close", "leave"} /\ ~stray' => Nothing',
         todo[h] # <<>> /\ todo[h][1].op = "disengage_all" => Nothing',
         todo[h] # <<>> /\ todo[h][1].op = "seed" => released' \/ todo'[h] = <<>> \/ UNCHANGED todo
  PROVE  HandlersOK' /\ todo' \in [Handlers -> Seq(Section)]
<1>1. SUFFICES ASSUME NEW g \in Handlers
               PROVE  Shape(todo[g])' /\ HasLock(g, todo[g])' /\ Guarded(todo[g])'
                      /\ todo' \in [Handlers -> Seq(Section)]
  <2>1. todo' \in [Handlers -> Seq(Section)]
    <3>1. todo[h] \in Seq(Section) /\ (todo[h] # <<>> => Tail(todo[h]) \in Seq(Section)) /\ <<>> \in Seq(Section)
      BY DEF TypeOK
    <3>2. QED
      BY <3>1 DEF TypeOK
  <2>2. QED
    BY <2>1, <1>1 DEF HandlersOK
<1>2. todo \in [Handlers -> Seq(Section)] /\ todo[g] \in Seq(Section)
  BY DEF TypeOK
<1>3. PICK td : td = todo[g]
  OBVIOUS
<1>4. PICK t : t = todo'[g]
  OBVIOUS
<1>5. td \in Seq(Section) /\ Shape(td) /\ HasLock(g, td) /\ Guarded(td)
  BY <1>2, <1>3 DEF HandlersOK
<1>6. t = td \/ t = <<>> \/ (g = h /\ td # <<>> /\ t = Tail(td))
  BY <1>2, <1>3, <1>4
<1>7. todo' \in [Handlers -> Seq(Section)]
  <2>1. todo[h] \in Seq(Section) /\ (todo[h] # <<>> => Tail(todo[h]) \in Seq(Section)) /\ <<>> \in Seq(Section)
    BY <1>2
  <2>2. QED
    BY <2>1, <1>2
<1>8. ASSUME HasLock(g, t)', Shape(t), Guarded(t)'
      PROVE  Shape(todo[g])' /\ HasLock(g, todo[g])' /\ Guarded(todo[g])'
  BY <1>4, <1>8, Zenon
<1>9. CASE t = td
  <2>1. HasLock(g, t)'
    BY <1>5, <1>9 DEF HasLock
  <2>2. ASSUME td # <<>>, td[1].op \in {"close", "leave"}, ~stray' PROVE Nothing'
    BY <1>3, <2>2
  <2>3. Guarded(t)'
    BY <1>5, <1>9, <2>2 DEF Guarded
  <2>4. QED
    BY <1>5, <1>7, <1>8, <1>9, <2>1, <2>3
<1>10. CASE t = <<>>
  BY <1>7, <1>8, <1>10 DEF HasLock, Shape, Guarded
<1>11. CASE g = h /\ td # <<>> /\ t = Tail(td) /\ t # <<>> /\ t # td
  <2>1. /\ t \in Seq(Section) /\ Shape(t)
        /\ \A i \in 1..Len(t) : i + 1 \in 1..Len(td) /\ t[i] = td[i + 1] /\ t[i].op # "open"
        /\ td[1].op \notin {"freeze", "leave"}
        /\ t[1].op = "engage" => td[1].op = "seed"
        /\ t[1].op = "close" => td[1].op = "disengage_all"
        /\ t[1].op = "leave" => td[1].op = "close"
    BY <1>5, <1>11, TailShape
  <2>2. HasLock(g, t)'
    BY <1>5, <2>1 DEF HasLock
  <2>3. t[1].op = "engage" => released'
    BY <1>3, <1>4, <1>11, <2>1
  <2>4. ASSUME t[1].op \in {"close", "leave"}, ~stray' PROVE Nothing'
    <3>1. CASE t[1].op = "close"
      BY <1>3, <1>11, <2>1, <3>1
    <3>2. CASE t[1].op = "leave"
      BY <1>3, <1>11, <2>1, <2>4, <3>2
    <3>3. QED
      BY <2>4, <3>1, <3>2
  <2>5. Guarded(t)'
    BY <2>3, <2>4 DEF Guarded
  <2>6. QED
    BY <1>7, <1>8, <2>1, <2>2, <2>5
<1>12. QED
  BY <1>6, <1>9, <1>10, <1>11

-----------------------------------------------------------------------------
(* The handlers, one critical section after the other. *)

LEMMA AtIs ==
  ASSUME TypeOK, NEW h \in Handlers, NEW op, At(h, op)
  PROVE  /\ todo[h] # <<>> /\ todo[h] \in Seq(Section) /\ todo[h][1] \in Section
         /\ Head(todo[h]) = todo[h][1] /\ todo[h][1].op = op
         /\ Slot(h) = todo[h][1].slot /\ Slot(h) \in Slots
         /\ Value(h) = todo[h][1].value /\ Value(h) \in Nat
         /\ todo[h][1].of \in Nat
<1>1. todo[h] \in Seq(Section) /\ todo[h] # <<>> /\ Head(todo[h]).op = op
  BY DEF TypeOK, At
<1>2. Head(todo[h]) = todo[h][1] /\ todo[h][1] \in Section
  BY <1>1
<1>3. QED
  BY <1>1, <1>2 DEF Section, Slot, Value

(* Steps that leave the session, its guard, the engine and its slots alone *)
(* change desires only, and to none with torque unless they may.           *)
LEMMA DesiresKept ==
  ASSUME IInv, NEW h \in Handlers, NEW op, At(h, op), Next1(h) \/ Raise(h),
         UNCHANGED <<lock, session, opened, released, stray, stopped, act, armQ, tick, left>>,
         UNCHANGED engine \/ (engine = "dead" /\ engine' = "top"),
         softKill' \in {softKill, TRUE}, scout' \in BOOLEAN,
         seed' \in [Handlers -> Nat], held' \in [Slots -> Desire],
         \A s \in Slots : held'[s].stiff => held[s].stiff \/ ~softKill,
         op # "disengage_all", op = "seed" => ~softKill \/ Raise(h)
  PROVE  IInv'
<1>1. TypeOK /\ HandlersOK /\ FrozenInv /\ TickInv
  BY DEF IInv
<1>2. /\ todo[h] # <<>> /\ todo[h][1].op = op
  BY <1>1, AtIs
<1>3. Nothing => Nothing'
  BY DEF Nothing
<1>4. HandlersOK' /\ todo' \in [Handlers -> Seq(Section)]
  <2>1. \/ todo[h] # <<>> /\ todo' = [todo EXCEPT ![h] = Tail(@)]
        \/ todo' = [todo EXCEPT ![h] = <<>>]
    BY <1>2 DEF Next1, Raise
  <2>2. \A g \in Handlers : todo[g] # <<>> /\ todo[g][1].op \in {"close", "leave"} /\ ~stray' => Nothing'
    BY <1>1, <1>3 DEF HandlersOK, Guarded
  <2>3. op = "seed" => released' \/ todo'[h] = <<>>
    <3>1. todo \in [Handlers -> Seq(Section)]
      BY <1>1 DEF TypeOK
    <3>2. Raise(h) => todo'[h] = <<>>
      BY <3>1 DEF Raise
    <3>3. ~softKill => released'
      BY <1>1 DEF FrozenInv
    <3>4. QED
      BY <3>2, <3>3
  <2>4. QED
    BY <1>1, <1>2, <2>1, <2>2, <2>3, HandlersKept
<1>5. TypeOK'
  <2>1. engine' \in InTick \cup {"dead", "leaving", "top"}
    BY <1>1 DEF TypeOK
  <2>2. softKill' \in BOOLEAN
    BY <1>1 DEF TypeOK
  <2>3. QED
    BY <1>1, <1>4, <2>1, <2>2 DEF TypeOK
<1>6. engine' \in InTick => engine \in InTick
  BY DEF InTick
<1>7. FrozenInv'
  BY <1>1, <1>3, <1>6 DEF FrozenInv
<1>8. TickInv'
  <2>1. \A p \in {"store", "write", "brace", "fallback"} : engine' = p => engine = p
    OBVIOUS
  <2>2. QED
    BY <1>1, <2>1 DEF TickInv
<1>9. QED
  BY <1>4, <1>5, <1>7, <1>8 DEF IInv

LEMMA SeedsStep ==
  ASSUME IInv, NEW h \in Handlers, Seeds(h)
  PROVE  IInv'
<1>1. TypeOK
  BY DEF IInv
<1>2. At(h, "seed") /\ UNCHANGED <<app, left, held, core, ghost>>
  BY DEF Seeds
<1>3. Slot(h) \in Slots /\ held[Slot(h)].pos \in Place
  BY <1>1, <1>2, AtIs DEF TypeOK, Desire
<1>4. seed' \in [Handlers -> Nat] /\ ((~softKill /\ Next1(h)) \/ Raise(h))
  <2>1. seed \in [Handlers -> Nat] /\ Top \in Nat
    BY <1>1, TeleopAssumption DEF TypeOK
  <2>2. CASE ~MotionAllowed /\ Raise(h) /\ UNCHANGED seed
    BY <2>1, <2>2
  <2>3. CASE MotionAllowed /\ held[Slot(h)].pos # Nowhere
             /\ seed' = [seed EXCEPT ![h] = held[Slot(h)].pos] /\ Next1(h)
    BY <1>3, <2>1, <2>3 DEF Place, MotionAllowed
  <2>4. CASE MotionAllowed /\ held[Slot(h)].pos = Nowhere
             /\ \/ \E p \in 0..Top : seed' = [seed EXCEPT ![h] = p] /\ Next1(h)
                \/ Raise(h) /\ UNCHANGED seed
    BY <2>1, <2>4 DEF MotionAllowed
  <2>5. QED
    BY <2>2, <2>3, <2>4 DEF Seeds
<1>5. held' \in [Slots -> Desire] /\ scout' \in BOOLEAN
  BY <1>1, <1>2 DEF TypeOK, app
<1>6. QED
  BY <1>2, <1>4, <1>5, DesiresKept DEF app, core, ghost

LEMMA EnsuresStep ==
  ASSUME IInv, NEW h \in Handlers, Ensures(h)
  PROVE  IInv'
<1>1. TypeOK
  BY DEF IInv
<1>2. At(h, "ensure") /\ Next1(h) /\ UNCHANGED <<app, left, held, act, armQ, tick, ghost>>
  BY DEF Ensures
<1>3. seed' \in [Handlers -> Nat] /\ held' \in [Slots -> Desire] /\ scout' \in BOOLEAN
  BY <1>1, <1>2 DEF TypeOK, Ensures, app
<1>4. UNCHANGED engine \/ (engine = "dead" /\ engine' = "top")
  BY DEF Ensures
<1>5. QED
  BY <1>2, <1>3, <1>4, DesiresKept DEF app, ghost

LEMMA AppliesStep ==
  ASSUME IInv, NEW h \in Handlers, Applies(h)
  PROVE  IInv'
<1>1. TypeOK
  BY DEF IInv
<1>2. At(h, "apply") /\ UNCHANGED <<app, seed, left, core, ghost>> /\ (Next1(h) \/ Raise(h))
  BY DEF Applies
<1>3. Slot(h) \in Slots /\ Value(h) \in Nat
  BY <1>1, <1>2, AtIs
<1>4. [pos |-> Value(h), stiff |-> TRUE] \in Desire
  BY <1>3 DEF Desire, Place
<1>5. held' \in [Slots -> Desire] /\ scout' \in BOOLEAN /\ seed' \in [Handlers -> Nat]
  BY <1>1, <1>2, <1>4 DEF TypeOK, app, Applies
<1>6. \A s \in Slots : held'[s].stiff => held[s].stiff \/ ~softKill
  BY DEF Applies, MotionAllowed
<1>7. QED
  BY <1>2, <1>5, <1>6, DesiresKept DEF app, core, ghost

LEMMA BlankIs == Blank \in Desire /\ Unset \in Desire /\ ~Blank.stiff /\ ~Unset.stiff
BY DEF Blank, Unset, Desire, Place

LEMMA BlanksStep ==
  ASSUME IInv, NEW h \in Handlers, Blanks(h)
  PROVE  IInv'
<1>1. TypeOK
  BY DEF IInv
<1>2. At(h, "blank") /\ UNCHANGED <<app, seed, left, core, ghost>> /\ (Next1(h) \/ Raise(h))
  BY DEF Blanks
<1>3. held \in [Slots -> Desire] /\ (UNCHANGED held \/ held' = [held EXCEPT ![Slot(h)] = Blank])
  BY <1>1 DEF Blanks, TypeOK
<1>4. held' \in [Slots -> Desire] /\ \A s \in Slots : held'[s].stiff => held[s].stiff \/ ~softKill
  BY <1>3, BlankIs
<1>5. scout' \in BOOLEAN /\ seed' \in [Handlers -> Nat]
  BY <1>1, <1>2 DEF TypeOK, app
<1>6. QED
  BY <1>2, <1>4, <1>5, DesiresKept DEF app, core, ghost

LEMMA ParksStep ==
  ASSUME IInv, NEW h \in Handlers, Parks(h)
  PROVE  IInv'
<1>1. TypeOK
  BY DEF IInv
<1>2. At(h, "park") /\ UNCHANGED <<app, seed, left, core, ghost>> /\ Next1(h)
  BY DEF Parks
<1>3. held' \in [Slots -> Desire] /\ \A s \in Slots : held'[s].stiff => held[s].stiff \/ ~softKill
  BY BlankIs DEF Parks
<1>4. scout' \in BOOLEAN /\ seed' \in [Handlers -> Nat]
  BY <1>1, <1>2 DEF TypeOK, app
<1>5. QED
  BY <1>2, <1>3, <1>4, DesiresKept DEF app, core, ghost

LEMMA ClosesStep ==
  ASSUME IInv, NEW h \in Handlers, Closes(h)
  PROVE  IInv'
<1>1. TypeOK
  BY DEF IInv
<1>2. At(h, "close") /\ UNCHANGED <<app, seed, left, core, ghost>> /\ Next1(h)
  BY DEF Closes
<1>3. held' \in [Slots -> Desire] /\ \A s \in Slots : held'[s].stiff => held[s].stiff \/ ~softKill
  BY BlankIs DEF Closes
<1>4. scout' \in BOOLEAN /\ seed' \in [Handlers -> Nat]
  BY <1>1, <1>2 DEF TypeOK, app
<1>5. QED
  BY <1>2, <1>3, <1>4, DesiresKept DEF app, core, ghost

LEMMA NewSpecsStep ==
  ASSUME IInv, NEW h \in Handlers, NewSpecs(h)
  PROVE  IInv'
<1>1. TypeOK
  BY DEF IInv
<1>2. /\ At(h, "specs") /\ Next1(h) /\ scout' = ~scout
      /\ UNCHANGED <<session, opened, softKill, lock, seed, left, held, core, ghost>>
  BY DEF NewSpecs
<1>3. scout' \in BOOLEAN /\ seed' \in [Handlers -> Nat] /\ held' \in [Slots -> Desire]
  BY <1>1, <1>2 DEF TypeOK
<1>4. QED
  BY <1>2, <1>3, DesiresKept DEF core, ghost

LEMMA Marks ==
  /\ None # Live /\ None \notin Walk /\ Live \notin Walk
  /\ \A e \in Walk : e # None /\ e # Live
<1>1. None.pos = -99 /\ Live.pos = -99 /\ None.target = -99 /\ Live.target = -98
  BY DEF None, Live
<1>2. \A e \in Walk : e.pos \in Nat
  BY DEF Walk
<1>3. -99 \notin Nat /\ -98 # -99
  OBVIOUS
<1>4. QED
  BY <1>1, <1>2, <1>3

(* The list of the tick after some slots got another entry, or none. *)
LEMMA OutlivesIs ==
  ASSUME TypeOK, TickInv, NEW S \in SUBSET Slots, Outlives(S)
  PROVE  /\ tick' \in Tick
         /\ tick'.hub = tick.hub /\ tick'.due = tick.due /\ tick'.cur = tick.cur
         /\ tick'.q = tick.q /\ tick'.fb = tick.fb
         /\ \A s \in Slots : tick.items[s] # None => tick'.items[s] # None
         /\ \A s \in Slots : tick'.items[s] = Live => s \notin S /\ act[s] # None
<1>1. /\ tick \in Tick /\ act \in [Slots -> Walk \cup {None}]
      /\ tick.items \in [Slots -> Walk \cup {None, Live}]
      /\ \A s \in Slots : tick.items[s] = Live => act[s] # None
  BY DEF TypeOK, TickInv, Tick
<1>2. PICK items : items = [s \in Slots |-> IF s \in S /\ tick.items[s] = Live THEN act[s] ELSE tick.items[s]]
  OBVIOUS
<1>3. tick' = [tick EXCEPT !.items = items]
  BY <1>2 DEF Outlives
<1>4. items \in [Slots -> Walk \cup {None, Live}]
  BY <1>1, <1>2
<1>5. /\ tick' \in Tick /\ tick'.items = items
      /\ tick'.hub = tick.hub /\ tick'.due = tick.due /\ tick'.cur = tick.cur
      /\ tick'.q = tick.q /\ tick'.fb = tick.fb
  BY <1>1, <1>3, <1>4 DEF Tick
<1>6. \A s \in Slots : tick.items[s] # None => items[s] # None
  BY <1>1, <1>2
<1>7. \A s \in Slots : items[s] = Live => s \notin S /\ act[s] # None
  BY <1>1, <1>2, Marks
<1>8. QED
  BY <1>5, <1>6, <1>7

(* Steps that change the engaged slots and what the tick shares with them. *)
LEMMA SlotsKept ==
  ASSUME IInv, NEW h \in Handlers, NEW op, At(h, op), Next1(h), op # "seed",
         UNCHANGED <<lock, session, opened, softKill, scout, released, seed, left, held, engine>>,
         stray' \in BOOLEAN, ~stray' => ~stray,
         stopped' \in [Slots -> Place], armQ' \in [Arm -> Place],
         act' \in [Slots -> Walk \cup {None}],
         tick' \in Tick,
         tick'.hub = tick.hub /\ tick'.due = tick.due /\ tick'.cur = tick.cur
           /\ tick'.q = tick.q /\ tick'.fb = tick.fb,
         \A s \in Slots : tick.items[s] # None => tick'.items[s] # None,
         \A s \in Slots : tick'.items[s] = Live => act'[s] # None,
         ~stray' /\ (session = 0 \/ ~released) => Nothing',
         \A g \in Handlers : todo[g] # <<>> /\ todo[g][1].op \in {"close", "leave"} /\ ~stray' => Nothing',
         op = "disengage_all" => Nothing'
  PROVE  IInv'
<1>1. TypeOK /\ HandlersOK /\ FrozenInv /\ TickInv
  BY DEF IInv
<1>2. todo[h] # <<>> /\ todo[h][1].op = op
  BY <1>1, AtIs
<1>3. HandlersOK' /\ todo' \in [Handlers -> Seq(Section)]
  <2>1. todo[h] # <<>> /\ todo' = [todo EXCEPT ![h] = Tail(@)]
    BY <1>2 DEF Next1
  <2>2. QED
    BY <1>1, <1>2, <2>1, HandlersKept
<1>4. TypeOK'
  BY <1>1, <1>3 DEF TypeOK
<1>5. FrozenInv'
  BY <1>1 DEF FrozenInv
<1>6. TickInv'
  <2>1. tick.due \subseteq Slots /\ (tick.cur \in Slots \/ tick.cur = "none")
    BY <1>1 DEF TypeOK, Tick
  <2>2. QED
    BY <1>1, <2>1 DEF TickInv
<1>7. QED
  BY <1>3, <1>4, <1>5, <1>6 DEF IInv

LEMMA NowhereIs == Nowhere \in Place /\ NoFb \in [Arm -> Place] /\ [s \in Slots |-> Nowhere] \in [Slots -> Place]
BY DEF Nowhere, Place, NoFb

LEMMA DisengagesAllStep ==
  ASSUME IInv, NEW h \in Handlers, DisengagesAll(h)
  PROVE  IInv'
<1>1. TypeOK /\ TickInv
  BY DEF IInv
<1>2. /\ At(h, "disengage_all") /\ Next1(h) /\ act' = [s \in Slots |-> None] /\ armQ' = NoFb
      /\ Outlives(Slots) /\ stopped' = [s \in Slots |-> Nowhere]
      /\ UNCHANGED <<app, seed, left, held, engine, released, stray>>
  BY DEF DisengagesAll
<1>3. act' \in [Slots -> Walk \cup {None}] /\ Nothing'
  BY <1>2 DEF Nothing
<1>4. /\ tick' \in Tick
      /\ tick'.hub = tick.hub /\ tick'.due = tick.due /\ tick'.cur = tick.cur
      /\ tick'.q = tick.q /\ tick'.fb = tick.fb
      /\ \A s \in Slots : tick.items[s] # None => tick'.items[s] # None
      /\ \A s \in Slots : tick'.items[s] = Live => s \notin Slots /\ act[s] # None
  <2>1. PICK S : S = Slots
    OBVIOUS
  <2>2. S \in SUBSET Slots /\ Outlives(S)
    BY <1>2, <2>1
  <2>3. QED
    BY <1>1, <2>1, <2>2, OutlivesIs
<1>5. \A s \in Slots : tick'.items[s] = Live => act'[s] # None
  BY <1>4
<1>6. stopped' \in [Slots -> Place] /\ armQ' \in [Arm -> Place] /\ stray' \in BOOLEAN
  BY <1>1, <1>2, NowhereIs DEF TypeOK
<1>7. QED
  BY <1>2, <1>3, <1>4, <1>5, <1>6, SlotsKept DEF app

LEMMA DisengagesStep ==
  ASSUME IInv, NEW h \in Handlers, Disengages(h)
  PROVE  IInv'
<1>1. TypeOK /\ TickInv /\ FrozenInv /\ HandlersOK
  BY DEF IInv
<1>2. /\ At(h, "disengage") /\ Next1(h) /\ act' = [act EXCEPT ![Slot(h)] = None]
      /\ Outlives({Slot(h)}) /\ stopped' = [stopped EXCEPT ![Slot(h)] = Nowhere]
      /\ UNCHANGED <<app, seed, left, held, armQ, engine, released, stray>>
  BY DEF Disengages
<1>3. act \in [Slots -> Walk \cup {None}] /\ Slot(h) \in Slots
  BY <1>1, <1>2, AtIs DEF TypeOK
<1>4. act' \in [Slots -> Walk \cup {None}] /\ (Nothing => Nothing')
  BY <1>2, <1>3 DEF Nothing
<1>5. /\ tick' \in Tick
      /\ tick'.hub = tick.hub /\ tick'.due = tick.due /\ tick'.cur = tick.cur
      /\ tick'.q = tick.q /\ tick'.fb = tick.fb
      /\ \A s \in Slots : tick.items[s] # None => tick'.items[s] # None
      /\ \A s \in Slots : tick'.items[s] = Live => s \notin {Slot(h)} /\ act[s] # None
  <2>1. PICK S : S = {Slot(h)}
    OBVIOUS
  <2>2. S \in SUBSET Slots /\ Outlives(S)
    BY <1>2, <1>3, <2>1
  <2>3. QED
    BY <1>1, <2>1, <2>2, OutlivesIs
<1>6. \A s \in Slots : tick'.items[s] = Live => act'[s] # None
  BY <1>2, <1>3, <1>5
<1>7. stopped' \in [Slots -> Place] /\ armQ' \in [Arm -> Place] /\ stray' \in BOOLEAN /\ (~stray' => ~stray)
  BY <1>1, <1>2, <1>3, NowhereIs DEF TypeOK
<1>8. ~stray' /\ (session = 0 \/ ~released) => Nothing'
  BY <1>1, <1>4, <1>7 DEF FrozenInv
<1>9. \A g \in Handlers : todo[g] # <<>> /\ todo[g][1].op \in {"close", "leave"} /\ ~stray' => Nothing'
  BY <1>1, <1>4, <1>7 DEF HandlersOK, Guarded
<1>10. QED
  BY <1>2, <1>4, <1>5, <1>6, <1>7, <1>8, <1>9, SlotsKept DEF app

LEMMA ClampIs ==
  ASSUME NEW v \in Nat, NEW lo \in Int, NEW hi \in Nat
  PROVE  Clamp(v, lo, hi) \in Nat
BY DEF Clamp

LEMMA StopsStep ==
  ASSUME IInv, NEW h \in Handlers, Stops(h)
  PROVE  IInv'
<1>1. TypeOK /\ TickInv /\ FrozenInv /\ HandlersOK
  BY DEF IInv
<1>2. At(h, "stop") /\ Next1(h) /\ UNCHANGED <<app, seed, left, held, armQ, engine, tick, released, stray>>
  BY DEF Stops
<1>3. act \in [Slots -> Walk \cup {None}] /\ Slot(h) \in Slots /\ stopped \in [Slots -> Place]
  BY <1>1, <1>2, AtIs DEF TypeOK
<1>4. /\ act' \in [Slots -> Walk \cup {None}] /\ stopped' \in [Slots -> Place]
      /\ \A s \in Slots : act'[s] = None <=> act[s] = None
  <2>1. CASE act[Slot(h)] = None
    BY <1>3, <2>1 DEF Stops
  <2>2. CASE act[Slot(h)] # None
    <3>1. PICK e : e = [act[Slot(h)] EXCEPT !.target = act[Slot(h)].pos]
      OBVIOUS
    <3>2. act[Slot(h)] \in Walk
      BY <1>3, <2>2
    <3>3. e \in Walk /\ act[Slot(h)].pos \in Nat
      BY <3>1, <3>2 DEF Walk
    <3>4. act' = [act EXCEPT ![Slot(h)] = e] /\ stopped' = [stopped EXCEPT ![Slot(h)] = act[Slot(h)].pos]
      BY <1>3, <2>2, <3>1 DEF Stops
    <3>5. QED
      BY <1>3, <2>2, <3>3, <3>4, Marks DEF Place
  <2>3. QED
    BY <2>1, <2>2
<1>5. Nothing => Nothing'
  BY <1>4 DEF Nothing
<1>6. /\ tick' = tick /\ tick' \in Tick /\ armQ' \in [Arm -> Place] /\ stray' \in BOOLEAN /\ (~stray' => ~stray)
  BY <1>1, <1>2 DEF TypeOK
<1>7. \A s \in Slots : tick'.items[s] = Live => act'[s] # None
  BY <1>1, <1>4, <1>6 DEF TickInv
<1>8. ~stray' /\ (session = 0 \/ ~released) => Nothing'
  BY <1>1, <1>5, <1>6 DEF FrozenInv
<1>9. \A g \in Handlers : todo[g] # <<>> /\ todo[g][1].op \in {"close", "leave"} /\ ~stray' => Nothing'
  BY <1>1, <1>5, <1>6 DEF HandlersOK, Guarded
<1>10. QED
  BY <1>2, <1>4, <1>6, <1>7, <1>8, <1>9, SlotsKept DEF app

LEMMA LimitsStep ==
  ASSUME IInv, NEW h \in Handlers, Limits(h)
  PROVE  IInv'
<1>1. TypeOK /\ TickInv /\ FrozenInv /\ HandlersOK
  BY DEF IInv
<1>2. PICK op \in {"widen", "narrow"} : At(h, op)
  BY DEF Limits
<1>3. Next1(h) /\ UNCHANGED <<app, seed, left, held, armQ, engine, tick, ghost>>
  BY DEF Limits
<1>4. act \in [Slots -> Walk \cup {None}] /\ Slot(h) \in Slots
  BY <1>1, <1>2, AtIs DEF TypeOK
<1>5. act' \in [Slots -> Walk \cup {None}] /\ \A s \in Slots : act'[s] = None <=> act[s] = None
  <2>1. PICK lo : lo = IF At(h, "widen") THEN 0 ELSE 1
    OBVIOUS
  <2>2. PICK e : e = act[Slot(h)]
    OBVIOUS
  <2>3. act' = IF e = None THEN act
               ELSE [act EXCEPT ![Slot(h)] =
                       [pos |-> Clamp(e.pos, lo, Top), target |-> Clamp(e.target, lo, Top),
                        lo |-> lo, hi |-> Top]]
    BY <2>1, <2>2 DEF Limits
  <2>4. CASE e = None
    BY <1>4, <2>3, <2>4
  <2>5. CASE e # None
    <3>1. e.pos \in Nat /\ e.target \in Nat /\ lo \in Int /\ Top \in Nat
      BY <1>4, <2>1, <2>2, <2>5, TeleopAssumption DEF Walk
    <3>2. Clamp(e.pos, lo, Top) \in Nat /\ Clamp(e.target, lo, Top) \in Nat
      BY <3>1, ClampIs
    <3>3. PICK r : r = [pos |-> Clamp(e.pos, lo, Top), target |-> Clamp(e.target, lo, Top),
                        lo |-> lo, hi |-> Top]
      OBVIOUS
    <3>4. r \in Walk
      BY <3>1, <3>2, <3>3 DEF Walk
    <3>5. act' = [act EXCEPT ![Slot(h)] = r]
      BY <2>3, <2>5, <3>3
    <3>6. QED
      BY <1>4, <2>2, <2>5, <3>4, <3>5, Marks
  <2>6. QED
    BY <2>4, <2>5
<1>6. Nothing => Nothing'
  BY <1>5 DEF Nothing
<1>7. /\ tick' = tick /\ tick' \in Tick /\ armQ' \in [Arm -> Place] /\ stray' \in BOOLEAN /\ (~stray' => ~stray)
      /\ stopped' \in [Slots -> Place]
  BY <1>1, <1>3 DEF TypeOK, ghost
<1>8. \A s \in Slots : tick'.items[s] = Live => act'[s] # None
  BY <1>1, <1>5, <1>7 DEF TickInv
<1>9. ~stray' /\ (session = 0 \/ ~released) => Nothing'
  BY <1>1, <1>6, <1>7 DEF FrozenInv
<1>10. \A g \in Handlers : todo[g] # <<>> /\ todo[g][1].op \in {"close", "leave"} /\ ~stray' => Nothing'
  BY <1>1, <1>6, <1>7 DEF HandlersOK, Guarded
<1>11. QED
  BY <1>2, <1>3, <1>5, <1>7, <1>8, <1>9, <1>10, SlotsKept DEF app, ghost

(* The entry of a slot that is engaged. *)
LEMMA EntryIs ==
  ASSUME TypeOK, NEW s \in Slots, NEW v \in Nat, NEW at \in Nat
  PROVE  Entry(s, v, at) \in Walk
<1>1. Lead \in Nat /\ Top \in Nat /\ v * Lead \in Nat
  BY TeleopAssumption
<1>2. CASE s \in Wheels
  <2>1. at + v * Lead \in Nat /\ at - Lead \in Int /\ at + Lead \in Nat
    BY <1>1
  <2>2. QED
    BY <1>2, <2>1 DEF Entry, Walk
<1>3. CASE s \notin Wheels
  <2>1. Rails(s).lo \in Nat /\ Rails(s).hi = Top
    BY DEF Rails
  <2>2. Clamp(v, Rails(s).lo, Rails(s).hi) \in Nat
    BY <1>1, <2>1, ClampIs
  <2>3. act[s] = None \/ act[s].pos \in Nat
    BY DEF TypeOK, Walk
  <2>4. QED
    BY <1>1, <1>3, <2>1, <2>2, <2>3 DEF Entry, Walk
<1>4. QED
  BY <1>2, <1>3

LEMMA EngagesStep ==
  ASSUME IInv, NEW h \in Handlers, Engages1(h)
  PROVE  IInv'
<1>1. TypeOK /\ TickInv /\ FrozenInv /\ HandlersOK
  BY DEF IInv
<1>2. PICK e : e = Entry(Slot(h), Value(h), seed[h])
  OBVIOUS
<1>3. /\ At(h, "engage") /\ Next1(h) /\ act' = [act EXCEPT ![Slot(h)] = e]
      /\ Outlives({Slot(h)}) /\ stopped' = [stopped EXCEPT ![Slot(h)] = Nowhere]
      /\ stray' = (stray \/ session # Head(todo[h]).of
                         \/ \E g \in Handlers : At(g, "close") \/ At(g, "leave"))
      /\ UNCHANGED <<app, seed, left, held, armQ, engine, released>>
  BY <1>2 DEF Engages1
<1>4. /\ act \in [Slots -> Walk \cup {None}] /\ Slot(h) \in Slots /\ Value(h) \in Nat /\ seed[h] \in Nat
  BY <1>1, <1>3, AtIs DEF TypeOK
<1>5. e \in Walk
  BY <1>1, <1>2, <1>4, EntryIs
<1>6. act' \in [Slots -> Walk \cup {None}] /\ act'[Slot(h)] # None
  BY <1>3, <1>4, <1>5, Marks
<1>7. /\ tick' \in Tick
      /\ tick'.hub = tick.hub /\ tick'.due = tick.due /\ tick'.cur = tick.cur
      /\ tick'.q = tick.q /\ tick'.fb = tick.fb
      /\ \A s \in Slots : tick.items[s] # None => tick'.items[s] # None
      /\ \A s \in Slots : tick'.items[s] = Live => s \notin {Slot(h)} /\ act[s] # None
  <2>1. PICK S : S = {Slot(h)}
    OBVIOUS
  <2>2. S \in SUBSET Slots /\ Outlives(S)
    BY <1>3, <1>4, <2>1
  <2>3. QED
    BY <1>1, <2>1, <2>2, OutlivesIs
<1>8. \A s \in Slots : tick'.items[s] = Live => act'[s] # None
  BY <1>3, <1>4, <1>7
<1>9. stopped' \in [Slots -> Place] /\ armQ' \in [Arm -> Place] /\ stray' \in BOOLEAN /\ (~stray' => ~stray)
  BY <1>1, <1>3, <1>4, NowhereIs DEF TypeOK
<1>10. ASSUME ~stray' PROVE session # 0 /\ released
  <2>1. session = Head(todo[h]).of
    BY <1>3, <1>10
  <2>2. todo[h] # <<>> /\ todo[h] \in Seq(Section) /\ Head(todo[h]) = todo[h][1] /\ todo[h][1].op = "engage"
    BY <1>1, <1>3, AtIs
  <2>3. released
    BY <1>1, <2>1, <2>2 DEF HandlersOK, Guarded
  <2>4. 1 \in 1..Len(todo[h]) /\ Shape(todo[h])
    BY <1>1, <2>2 DEF HandlersOK
  <2>5. todo[h][1].of # 0
    BY <2>2, <2>4 DEF Shape
  <2>6. QED
    BY <2>1, <2>2, <2>3, <2>5
<1>11. \A g \in Handlers : ~(todo[g] # <<>> /\ todo[g][1].op \in {"close", "leave"} /\ ~stray')
  <2>1. \A g \in Handlers : todo[g] \in Seq(Section)
    BY <1>1 DEF TypeOK
  <2>2. ASSUME NEW g \in Handlers, todo[g] # <<>>, todo[g][1].op \in {"close", "leave"}
        PROVE  At(g, "close") \/ At(g, "leave")
    BY <2>1, <2>2 DEF At
  <2>3. QED
    BY <1>3, <2>2
<1>12. QED
  BY <1>3, <1>6, <1>7, <1>8, <1>9, <1>10, <1>11, SlotsKept DEF app

LEMMA LastIs ==
  ASSUME NEW td \in Seq(Section), Len(td) = 1
  PROVE  Tail(td) = <<>>
<1>1. PICK t : t = Tail(td)
  OBVIOUS
<1>2. t \in Seq(Section) /\ Len(t) = 0
  <2>1. td # <<>> /\ Len(td) = 1
    OBVIOUS
  <2>2. QED
    BY <1>1, <2>1
<1>3. t = <<>>
  BY <1>2
<1>4. QED
  BY <1>1, <1>3

(* What holds of the rest of a request holds of the handler that has it. *)
LEMMA HandlerIs ==
  ASSUME NEW g, NEW t, t = todo'[g], Shape(t), HasLock(g, t)', Guarded(t)'
  PROVE  Shape(todo[g])' /\ HasLock(g, todo[g])' /\ Guarded(todo[g])'
BY Zenon

LEMMA FreezesStep ==
  ASSUME IInv, NEW h \in Handlers, Freezes(h)
  PROVE  IInv'
<1>1. TypeOK /\ TickInv /\ FrozenInv /\ HandlersOK
  BY DEF IInv
<1>2. /\ At(h, "freeze") /\ Next1(h) /\ softKill' = TRUE /\ lock' = IF lock = h THEN "none" ELSE lock
      /\ UNCHANGED <<session, opened, scout, seed, left, held, core, ghost>>
  BY DEF Freezes
<1>3. /\ todo \in [Handlers -> Seq(Section)] /\ todo[h] # <<>> /\ todo[h] \in Seq(Section)
      /\ todo[h][1].op = "freeze" /\ 1 \in 1..Len(todo[h])
  <2>1. todo[h] # <<>> /\ todo[h] \in Seq(Section) /\ todo[h][1].op = "freeze"
    BY <1>1, <1>2, AtIs
  <2>2. QED
    BY <1>1, <2>1 DEF TypeOK
<1>4. Len(todo[h]) = 1
  <2>1. Shape(todo[h])
    BY <1>1 DEF HandlersOK
  <2>2. QED
    BY <1>3, <2>1 DEF Shape
<1>5. todo' = [todo EXCEPT ![h] = <<>>]
  <2>1. Tail(todo[h]) = <<>>
    BY <1>3, <1>4, LastIs
  <2>2. QED
    BY <1>2, <2>1 DEF Next1
<1>6. HandlersOK'
  <2>1. SUFFICES ASSUME NEW g \in Handlers PROVE Shape(todo[g])' /\ HasLock(g, todo[g])' /\ Guarded(todo[g])'
    BY DEF HandlersOK
  <2>2. CASE g = h
    <3>1. todo'[g] = <<>>
      BY <1>3, <1>5, <2>2
    <3>2. PICK t : t = <<>>
      OBVIOUS
    <3>3. Shape(t) /\ HasLock(g, t)' /\ Guarded(t)'
      BY <3>2 DEF Shape, HasLock, Guarded
    <3>4. t = todo'[g]
      BY <3>1, <3>2
    <3>5. QED
      BY <3>3, <3>4, HandlerIs
  <2>3. CASE g # h
    <3>1. PICK td : td = todo[g]
      OBVIOUS
    <3>2. td = todo'[g]
      BY <1>3, <1>5, <2>3, <3>1
    <3>3. Shape(td) /\ HasLock(g, td) /\ Guarded(td)
      BY <1>1, <3>1 DEF HandlersOK
    <3>4. lock = g => lock' = g
      BY <1>2, <2>3
    <3>5. HasLock(g, td)'
      BY <1>2, <3>3, <3>4 DEF HasLock
    <3>6. Guarded(td)'
      BY <1>2, <3>3 DEF Guarded, Nothing, core, ghost
    <3>7. QED
      BY <3>2, <3>3, <3>5, <3>6, HandlerIs
  <2>4. QED
    BY <2>2, <2>3
<1>7. TypeOK'
  <2>1. todo' \in [Handlers -> Seq(Section)]
    <3>1. <<>> \in Seq(Section)
      OBVIOUS
    <3>2. QED
      BY <1>3, <1>5, <3>1
  <2>2. lock' \in Handlers \cup {"none"}
    BY <1>1, <1>2 DEF TypeOK
  <2>3. QED
    BY <1>1, <1>2, <2>1, <2>2 DEF TypeOK, core, ghost
<1>8. FrozenInv'
  BY <1>1, <1>2 DEF FrozenInv, Nothing, core, ghost
<1>9. TickInv'
  BY <1>1, <1>2 DEF TickInv, core
<1>10. QED
  BY <1>6, <1>7, <1>8, <1>9 DEF IInv

LEMMA ReleasesStep ==
  ASSUME IInv, NEW h \in Handlers, Releases(h)
  PROVE  IInv'
<1>1. TypeOK /\ TickInv /\ FrozenInv /\ HandlersOK
  BY DEF IInv
<1>2. At(h, "release") /\ UNCHANGED <<session, opened, scout, lock, seed, left, held, core, stray, stopped>>
  BY DEF Releases
<1>3. \/ session = 0 /\ Raise(h) /\ UNCHANGED <<softKill, released>>
      \/ session # 0 /\ Next1(h) /\ softKill' = FALSE /\ released' = TRUE
  BY DEF Releases
<1>4. todo[h] # <<>> /\ todo[h][1].op = "release"
  BY <1>1, <1>2, AtIs
<1>5. Nothing => Nothing'
  BY <1>2 DEF Nothing, core
<1>6. HandlersOK' /\ todo' \in [Handlers -> Seq(Section)]
  <2>1. \/ todo[h] # <<>> /\ todo' = [todo EXCEPT ![h] = Tail(@)]
        \/ todo' = [todo EXCEPT ![h] = <<>>]
    BY <1>3, <1>4 DEF Next1, Raise
  <2>2. \A g \in Handlers : todo[g] # <<>> /\ todo[g][1].op \in {"close", "leave"} /\ ~stray' => Nothing'
    BY <1>1, <1>2, <1>5 DEF HandlersOK, Guarded
  <2>3. released => released'
    BY <1>3
  <2>4. QED
    BY <1>1, <1>2, <1>4, <2>1, <2>2, <2>3, HandlersKept
<1>7. TypeOK'
  BY <1>1, <1>2, <1>3, <1>6 DEF TypeOK, core
<1>8. FrozenInv'
  BY <1>1, <1>2, <1>3, <1>5 DEF FrozenInv, core
<1>9. TickInv'
  BY <1>1, <1>2 DEF TickInv, core
<1>10. QED
  BY <1>6, <1>7, <1>8, <1>9 DEF IInv

(* A new session: nothing is engaged, no tick has its hub. *)
LEMMA OpensStep ==
  ASSUME IInv, NEW h \in Handlers, Opens(h)
  PROVE  IInv'
<1>1. TypeOK /\ TickInv /\ FrozenInv /\ HandlersOK
  BY DEF IInv
<1>2. /\ At(h, "open") /\ Next1(h) /\ session' = opened + 1 /\ opened' = opened + 1
      /\ held' = [s \in Slots |-> Blank] /\ released' = FALSE
      /\ UNCHANGED <<softKill, scout, lock, seed, left, core, stray, stopped>>
  BY DEF Opens
<1>3. /\ todo \in [Handlers -> Seq(Section)] /\ todo[h] # <<>> /\ todo[h] \in Seq(Section)
      /\ todo[h][1].op = "open" /\ 1 \in 1..Len(todo[h])
  <2>1. todo[h] # <<>> /\ todo[h] \in Seq(Section) /\ todo[h][1].op = "open"
    BY <1>1, <1>2, AtIs
  <2>2. QED
    BY <1>1, <2>1 DEF TypeOK
<1>4. PICK t : t = Tail(todo[h])
  OBVIOUS
<1>5. todo' = [todo EXCEPT ![h] = t]
  BY <1>2, <1>4 DEF Next1
<1>6. Shape(todo[h]) /\ HasLock(h, todo[h])
  BY <1>1 DEF HandlersOK
<1>7. /\ t \in Seq(Section) /\ Shape(t)
      /\ \A i \in 1..Len(t) : i + 1 \in 1..Len(todo[h]) /\ t[i] = todo[h][i + 1] /\ t[i].op # "open"
      /\ t # <<>> => t[1].op \notin {"engage", "close", "leave"}
  BY <1>3, <1>4, <1>6, TailShape
<1>8. lock = h /\ session = 0
  BY <1>3, <1>6 DEF HasLock
<1>9. HandlersOK'
  <2>1. SUFFICES ASSUME NEW g \in Handlers PROVE Shape(todo[g])' /\ HasLock(g, todo[g])' /\ Guarded(todo[g])'
    BY DEF HandlersOK
  <2>2. CASE g = h
    <3>1. todo'[g] = t
      BY <1>3, <1>5, <2>2
    <3>2. opened \in Nat /\ \A i \in 1..Len(todo[h]) : todo[h][i].of <= opened /\ todo[h][i].of \in Nat
      <4>1. \A i \in 1..Len(todo[h]) : todo[h][i] \in Section
        BY <1>3
      <4>2. QED
        BY <1>1, <1>6, <4>1 DEF TypeOK, HasLock, Section
    <3>3. HasLock(g, t)'
      <4>1. lock' = h /\ opened' \in Nat /\ opened <= opened'
        BY <1>2, <1>8, <3>2
      <4>2. ASSUME NEW i \in 1..Len(t) PROVE t[i].op # "open" /\ t[i].of <= opened'
        <5>1. i + 1 \in 1..Len(todo[h]) /\ t[i] = todo[h][i + 1] /\ t[i].op # "open"
          BY <1>7
        <5>2. t[i].of \in Nat /\ t[i].of <= opened
          BY <3>2, <5>1
        <5>3. QED
          BY <3>2, <4>1, <5>1, <5>2
      <4>3. QED
        BY <2>2, <4>1, <4>2 DEF HasLock
    <3>4. Guarded(t)'
      BY <1>7 DEF Guarded
    <3>5. QED
      BY <1>7, <3>1, <3>3, <3>4, HandlerIs
  <2>3. CASE g # h
    <3>1. PICK td : td = todo[g]
      OBVIOUS
    <3>2. td = todo'[g]
      BY <1>3, <1>5, <2>3, <3>1
    <3>3. td \in Seq(Section) /\ Shape(td) /\ HasLock(g, td)
      BY <1>1, <1>3, <3>1 DEF HandlersOK
    <3>4. opened \in Nat /\ \A i \in 1..Len(td) : td[i].of <= opened /\ td[i].of \in Nat
      <4>1. \A i \in 1..Len(td) : td[i] \in Section
        BY <3>3
      <4>2. QED
        BY <1>1, <3>3, <4>1 DEF TypeOK, HasLock, Section
    <3>5. \A i \in 1..Len(td) : td[i].op \notin {"open", "disengage_all", "close", "leave"}
      BY <1>8, <2>3, <3>3 DEF HasLock
    <3>6. HasLock(g, td)'
      BY <1>2, <3>4, <3>5 DEF HasLock
    <3>7. td # <<>> => 1 \in 1..Len(td)
      BY <3>3
    <3>8. Guarded(td)'
      <4>1. ASSUME td # <<>>
            PROVE  td[1].of # session' /\ td[1].op \notin {"close", "leave"}
        BY <1>2, <3>4, <3>5, <3>7, <4>1
      <4>2. QED
        BY <4>1 DEF Guarded
    <3>9. QED
      BY <3>2, <3>3, <3>6, <3>8, HandlerIs
  <2>4. QED
    BY <2>2, <2>3
<1>10. TypeOK'
  <2>1. todo' \in [Handlers -> Seq(Section)]
    BY <1>3, <1>5, <1>7
  <2>2. opened' \in Nat /\ session' \in 0..opened'
    BY <1>1, <1>2 DEF TypeOK
  <2>3. held' \in [Slots -> Desire]
    BY <1>2, BlankIs
  <2>4. QED
    BY <1>1, <1>2, <2>1, <2>2, <2>3 DEF TypeOK, core
<1>11. FrozenInv'
  <2>1. softKill /\ (~stray => Nothing)
    BY <1>1, <1>8 DEF FrozenInv
  <2>2. softKill' /\ (~stray' => Nothing')
    BY <1>2, <2>1 DEF Nothing, core
  <2>3. engine' \in InTick => tick'.hub \in 1..opened' /\ tick'.hub # session'
    <3>1. opened \in Nat
      BY <1>1 DEF TypeOK
    <3>2. engine' = engine /\ tick' = tick
      BY <1>2 DEF core
    <3>3. QED
      BY <1>1, <1>2, <3>1, <3>2 DEF FrozenInv
  <2>4. \A s \in Slots : ~held'[s].stiff
    BY <1>2, BlankIs
  <2>5. QED
    BY <2>2, <2>3, <2>4 DEF FrozenInv
<1>12. TickInv'
  BY <1>1, <1>2 DEF TickInv, core
<1>13. QED
  BY <1>9, <1>10, <1>11, <1>12 DEF IInv

(* The session is over: what it had engaged is not any more. *)
LEMMA LeavesStep ==
  ASSUME IInv, NEW h \in Handlers, Leaves(h)
  PROVE  IInv'
<1>1. TypeOK /\ TickInv /\ FrozenInv /\ HandlersOK
  BY DEF IInv
<1>2. /\ At(h, "leave") /\ Next1(h) /\ session' = 0 /\ softKill' = TRUE /\ lock' = "none"
      /\ held' = [s \in Slots |-> Unset]
      /\ UNCHANGED <<opened, scout, seed, left, core, ghost>>
  BY DEF Leaves
<1>3. /\ todo \in [Handlers -> Seq(Section)] /\ todo[h] # <<>> /\ todo[h] \in Seq(Section)
      /\ todo[h][1].op = "leave" /\ 1 \in 1..Len(todo[h])
  <2>1. todo[h] # <<>> /\ todo[h] \in Seq(Section) /\ todo[h][1].op = "leave"
    BY <1>1, <1>2, AtIs
  <2>2. QED
    BY <1>1, <2>1 DEF TypeOK
<1>4. Shape(todo[h]) /\ HasLock(h, todo[h]) /\ Guarded(todo[h])
  BY <1>1 DEF HandlersOK
<1>5. Len(todo[h]) = 1 /\ lock = h /\ (~stray => Nothing)
  BY <1>3, <1>4 DEF Shape, HasLock, Guarded
<1>6. todo' = [todo EXCEPT ![h] = <<>>]
  <2>1. Tail(todo[h]) = <<>>
    BY <1>3, <1>5, LastIs
  <2>2. QED
    BY <1>2, <2>1 DEF Next1
<1>7. ~stray' => Nothing'
  BY <1>2, <1>5 DEF Nothing, core, ghost
<1>8. HandlersOK'
  <2>1. SUFFICES ASSUME NEW g \in Handlers PROVE Shape(todo[g])' /\ HasLock(g, todo[g])' /\ Guarded(todo[g])'
    BY DEF HandlersOK
  <2>2. CASE g = h
    <3>1. todo'[g] = <<>>
      BY <1>3, <1>6, <2>2
    <3>2. PICK t : t = <<>>
      OBVIOUS
    <3>3. Shape(t) /\ HasLock(g, t)' /\ Guarded(t)'
      BY <3>2 DEF Shape, HasLock, Guarded
    <3>4. t = todo'[g]
      BY <3>1, <3>2
    <3>5. QED
      BY <3>3, <3>4, HandlerIs
  <2>3. CASE g # h
    <3>1. PICK td : td = todo[g]
      OBVIOUS
    <3>2. td = todo'[g]
      BY <1>3, <1>6, <2>3, <3>1
    <3>3. td \in Seq(Section) /\ Shape(td) /\ HasLock(g, td)
      BY <1>1, <1>3, <3>1 DEF HandlersOK
    <3>4. \A i \in 1..Len(td) : td[i].op \notin {"open", "disengage_all", "close", "leave"}
      BY <1>5, <2>3, <3>3 DEF HasLock
    <3>5. HasLock(g, td)'
      BY <1>2, <3>3, <3>4 DEF HasLock
    <3>6. td # <<>> => 1 \in 1..Len(td)
      BY <3>3
    <3>7. td # <<>> /\ td[1].op = "engage" => td[1].of # 0
      BY <3>3, <3>6 DEF Shape
    <3>8. Guarded(td)'
      BY <1>2, <1>7, <3>7 DEF Guarded
    <3>9. QED
      BY <3>2, <3>3, <3>5, <3>8, HandlerIs
  <2>4. QED
    BY <2>2, <2>3
<1>9. TypeOK'
  <2>1. todo' \in [Handlers -> Seq(Section)]
    <3>1. <<>> \in Seq(Section)
      OBVIOUS
    <3>2. QED
      BY <1>3, <1>6, <3>1
  <2>2. opened' \in Nat /\ session' \in 0..opened'
    BY <1>1, <1>2 DEF TypeOK
  <2>3. held' \in [Slots -> Desire]
    BY <1>2, BlankIs
  <2>4. QED
    BY <1>1, <1>2, <2>1, <2>2, <2>3 DEF TypeOK, core, ghost
<1>10. FrozenInv'
  BY <1>1, <1>2, <1>7 DEF FrozenInv, core, ghost
<1>11. TickInv'
  BY <1>1, <1>2 DEF TickInv, core
<1>12. QED
  BY <1>8, <1>9, <1>10, <1>11 DEF IInv

LEMMA RequestsStep ==
  ASSUME IInv, NEW h \in Handlers, NEW name \in DOMAIN left, Requests(h, name)
  PROVE  IInv'
<1>1. TypeOK /\ TickInv /\ FrozenInv /\ HandlersOK
  BY DEF IInv
<1>2. /\ todo[h] = <<>> /\ left[name] > 0 /\ (name \in NeedsHub => session # 0)
      /\ (name = "connect" => session = 0) /\ (name \in Locked => lock = "none")
      /\ left' = [left EXCEPT ![name] = @ - 1]
      /\ lock' = IF name \in Locked THEN h ELSE lock
      /\ UNCHANGED <<session, opened, softKill, scout, seed, held, core, ghost>>
  BY DEF Requests
<1>3. PICK in \in Inputs(name) : todo' = [todo EXCEPT ![h] = Program(name, in[1], in[2])]
  BY DEF Requests
<1>4. PICK t : t = Program(name, in[1], in[2])
  OBVIOUS
<1>5. name \in Names /\ session \in Nat /\ opened \in Nat /\ session <= opened
  BY <1>1 DEF TypeOK
<1>6. in[1] \in Slots /\ in[2] \in Nat /\ (name = "apply" => in[1] \in Wheels)
  BY InputsAre
<1>7. Fresh(name, t)
  BY <1>2, <1>4, <1>5, <1>6, ProgramIs
<1>8. todo \in [Handlers -> Seq(Section)] /\ todo' = [todo EXCEPT ![h] = t]
  BY <1>1, <1>3, <1>4 DEF TypeOK
<1>9. HandlersOK'
  <2>1. SUFFICES ASSUME NEW g \in Handlers PROVE Shape(todo[g])' /\ HasLock(g, todo[g])' /\ Guarded(todo[g])'
    BY DEF HandlersOK
  <2>2. CASE g = h
    <3>1. todo'[g] = t
      BY <1>8, <2>2
    <3>2. HasLock(g, t)'
      BY <1>2, <1>5, <1>7, <2>2 DEF HasLock, Fresh
    <3>3. Shape(t) /\ Guarded(t)'
      BY <1>7 DEF Fresh, Guarded
    <3>4. QED
      BY <3>1, <3>2, <3>3, HandlerIs
  <2>3. CASE g # h
    <3>1. PICK td : td = todo[g]
      OBVIOUS
    <3>2. td = todo'[g]
      BY <1>8, <2>3, <3>1
    <3>3. Shape(td) /\ HasLock(g, td) /\ Guarded(td)
      BY <1>1, <3>1 DEF HandlersOK
    <3>4. lock = g => lock' = g
      BY <1>2, TeleopAssumption
    <3>5. HasLock(g, td)'
      BY <1>2, <3>3, <3>4 DEF HasLock
    <3>6. Guarded(td)'
      BY <1>2, <3>3 DEF Guarded, Nothing, core, ghost
    <3>7. QED
      BY <3>2, <3>3, <3>5, <3>6, HandlerIs
  <2>4. QED
    BY <2>2, <2>3
<1>10. TypeOK'
  <2>1. todo' \in [Handlers -> Seq(Section)]
    BY <1>7, <1>8 DEF Fresh
  <2>2. lock' \in Handlers \cup {"none"}
    BY <1>1, <1>2 DEF TypeOK
  <2>3. DOMAIN left' \subseteq Names /\ \A n \in DOMAIN left' : left'[n] \in Nat
    BY <1>1, <1>2 DEF TypeOK
  <2>4. QED
    BY <1>1, <1>2, <2>1, <2>2, <2>3 DEF TypeOK, core, ghost
<1>11. FrozenInv'
  BY <1>1, <1>2 DEF FrozenInv, Nothing, core, ghost
<1>12. TickInv'
  BY <1>1, <1>2 DEF TickInv, core
<1>13. QED
  BY <1>9, <1>10, <1>11, <1>12 DEF IInv

-----------------------------------------------------------------------------
(* The engine. *)

(* A step of the engine: it writes to the hub of its tick only, and keeps  *)
(* engaged what is engaged.                                                *)
LEMMA EngineKept ==
  ASSUME IInv, UNCHANGED <<app, http, ghost>>,
         act' \in [Slots -> Walk \cup {None}], \A s \in Slots : act'[s] = None <=> act[s] = None,
         armQ' \in [Arm -> Place], held' \in [Slots -> Desire],
         engine' \in InTick \cup {"dead", "leaving", "top"}, tick' \in Tick, TickInv',
         engine' \in InTick =>
            \/ engine \in InTick /\ tick'.hub = tick.hub
            \/ ~Nothing /\ session # 0 /\ tick'.hub = session,
         UNCHANGED held \/ (engine \in InTick /\ tick.hub = session)
  PROVE  IInv'
<1>1. TypeOK /\ TickInv /\ FrozenInv /\ HandlersOK
  BY DEF IInv
<1>2. Nothing <=> Nothing'
  BY DEF Nothing
<1>3. HandlersOK'
  BY <1>1, <1>2 DEF HandlersOK, HasLock, Guarded, app, http, ghost
<1>4. TypeOK'
  BY <1>1 DEF TypeOK, app, http, ghost
<1>5. FrozenInv'
  <2>1. session \in Nat /\ opened \in Nat /\ session <= opened
    BY <1>1 DEF TypeOK
  <2>2. UNCHANGED <<session, opened, softKill, released, stray>>
    BY DEF app, ghost
  <2>3. engine' \in InTick => tick'.hub \in 1..opened
    BY <1>1, <2>1 DEF FrozenInv
  <2>4. ASSUME session # 0, ~released, ~stray
        PROVE  (engine' \in InTick => tick'.hub # session) /\ \A s \in Slots : ~held'[s].stiff
    <3>1. Nothing /\ (engine \in InTick => tick.hub # session) /\ \A s \in Slots : ~held[s].stiff
      BY <1>1, <2>4 DEF FrozenInv
    <3>2. QED
      BY <3>1
  <2>5. QED
    BY <1>1, <1>2, <2>2, <2>3, <2>4 DEF FrozenInv
<1>6. QED
  BY <1>3, <1>4, <1>5 DEF IInv

LEMMA IdleIs ==
  /\ Idle \in Tick /\ Idle.due = {} /\ \A s \in Slots : Idle.items[s] = None
  /\ NoFb \in [Arm -> Place]
<1>1. [s \in Slots |-> None] \in [Slots -> Walk \cup {None, Live}]
  OBVIOUS
<1>2. NoFb \in [Arm -> Place]
  BY NowhereIs
<1>3. QED
  BY <1>1, <1>2 DEF Idle, Tick

(* With the next tick still to come there is nothing to say of the last.   *)
LEMMA IdleTickInv ==
  ASSUME tick'.due = {}, \A s \in Slots : tick'.items[s] = None, engine' \in {"dead", "leaving", "top", "copy"}
  PROVE  TickInv'
BY Marks DEF TickInv

LEMMA LooksStep ==
  ASSUME IInv, Looks
  PROVE  IInv'
<1>1. TypeOK /\ TickInv
  BY DEF IInv
<1>2. engine = "top" /\ UNCHANGED <<app, http, held, act, armQ, ghost>>
  BY DEF Looks
<1>3. /\ act' \in [Slots -> Walk \cup {None}] /\ (\A s \in Slots : act'[s] = None <=> act[s] = None)
      /\ armQ' \in [Arm -> Place] /\ held' \in [Slots -> Desire]
  BY <1>1, <1>2 DEF TypeOK
<1>4. CASE engine' = "leaving" /\ UNCHANGED tick
  <2>1. TickInv' /\ tick' \in Tick
    BY <1>1, <1>2, <1>4 DEF TickInv, TypeOK
  <2>2. engine' \notin InTick
    BY <1>4 DEF InTick
  <2>3. QED
    BY <1>2, <1>3, <1>4, <2>1, <2>2, EngineKept
<1>5. CASE Engaged(Slots) # {} /\ session # 0 /\ engine' = "copy" /\ tick' = [Idle EXCEPT !.hub = session]
  <2>1. session \in Nat
    BY <1>1 DEF TypeOK
  <2>2. /\ tick' \in Tick /\ tick'.hub = session /\ tick'.due = {}
        /\ \A s \in Slots : tick'.items[s] = None
    BY <1>5, <2>1, IdleIs DEF Tick
  <2>3. TickInv'
    BY <1>5, <2>2, IdleTickInv
  <2>4. ~Nothing
    BY <1>5 DEF Nothing, Engaged
  <2>5. engine' \in InTick
    BY <1>5 DEF InTick
  <2>6. QED
    BY <1>2, <1>3, <1>5, <2>2, <2>3, <2>4, <2>5, EngineKept
<1>6. QED
  BY <1>4, <1>5 DEF Looks

LEMMA EndsStep ==
  ASSUME IInv, Ends
  PROVE  IInv'
<1>1. TypeOK /\ TickInv
  BY DEF IInv
<1>2. engine' = "dead" /\ UNCHANGED <<app, http, held, act, armQ, tick, ghost>>
  BY DEF Ends
<1>3. /\ act' \in [Slots -> Walk \cup {None}] /\ (\A s \in Slots : act'[s] = None <=> act[s] = None)
      /\ armQ' \in [Arm -> Place] /\ held' \in [Slots -> Desire] /\ tick' \in Tick
  BY <1>1, <1>2 DEF TypeOK
<1>4. TickInv' /\ engine' \notin InTick
  BY <1>1, <1>2 DEF TickInv, InTick
<1>5. QED
  BY <1>2, <1>3, <1>4, EngineKept

LEMMA CopiesStep ==
  ASSUME IInv, Copies
  PROVE  IInv'
<1>1. TypeOK /\ TickInv
  BY DEF IInv
<1>2. engine = "copy" /\ engine' = "read" /\ UNCHANGED <<app, http, held, act, armQ, ghost>>
  BY DEF Copies
<1>3. /\ act' \in [Slots -> Walk \cup {None}] /\ (\A s \in Slots : act'[s] = None <=> act[s] = None)
      /\ armQ' \in [Arm -> Place] /\ held' \in [Slots -> Desire] /\ tick \in Tick
  <2>1. act \in [Slots -> Walk \cup {None}] /\ armQ \in [Arm -> Place] /\ held \in [Slots -> Desire] /\ tick \in Tick
    BY <1>1 DEF TypeOK
  <2>2. QED
    BY <1>2, <2>1, Zenon
<1>4. PICK fb \in IF Engaged(Arm) = {} THEN {NoFb} ELSE {NoFb} \cup [Arm -> {0, Top}] :
        tick' = [tick EXCEPT !.items = [s \in Slots |-> IF act[s] = None THEN None ELSE Live],
                             !.fb = fb, !.due = Engaged(Slots)]
  BY DEF Copies
<1>5. fb \in {NoFb} \cup [Arm -> Nat]
  BY <1>4, TeleopAssumption
<1>6. PICK items : items = [s \in Slots |-> IF act[s] = None THEN None ELSE Live]
  OBVIOUS
<1>7. items \in [Slots -> Walk \cup {None, Live}] /\ Engaged(Slots) \subseteq Slots
  BY <1>6 DEF Engaged
<1>8. tick' = [tick EXCEPT !.items = items, !.fb = fb, !.due = Engaged(Slots)]
  BY <1>4, <1>6
<1>9. /\ tick' \in Tick /\ tick'.hub = tick.hub /\ tick'.items = items /\ tick'.due = Engaged(Slots)
  BY <1>3, <1>5, <1>7, <1>8 DEF Tick
<1>10. TickInv'
  <2>1. \A s \in Slots : tick'.items[s] = Live => act'[s] # None
    BY <1>2, <1>6, <1>9, Marks
  <2>2. \A s \in tick'.due : tick'.items[s] # None
    BY <1>6, <1>9, Marks DEF Engaged
  <2>3. QED
    BY <1>2, <2>1, <2>2 DEF TickInv
<1>11. engine \in InTick /\ engine' \in InTick
  BY <1>2 DEF InTick
<1>12. QED
  BY <1>2, <1>3, <1>9, <1>10, <1>11, EngineKept

(* One cruise step of an entry. *)
LEMMA SlewedIs ==
  ASSUME TypeOK, NEW s \in Slots, NEW e \in Walk
  PROVE  Slewed(s, e) \in Nat
<1>1. e.pos \in Nat /\ e.target \in Nat /\ e.lo \in Int /\ e.hi \in Nat
  BY DEF Walk
<1>2. Lead \in Nat /\ tick.fb \in {NoFb} \cup [Arm -> Nat]
  BY TeleopAssumption DEF TypeOK, Tick
<1>3. CASE Dist(e.target, e.pos) <= 1
  BY <1>1, <1>3 DEF Slewed
<1>4. CASE ~(Dist(e.target, e.pos) <= 1)
  <2>1. PICK v : v = e.pos + Sign(e.target - e.pos)
    OBVIOUS
  <2>2. v \in Nat
    BY <1>1, <1>4, <2>1 DEF Sign, Dist
  <2>3. PICK to : to = Clamp(v, e.lo, e.hi)
    OBVIOUS
  <2>4. to \in Nat
    BY <1>1, <2>2, <2>3, ClampIs
  <2>5. CASE s \in Arm /\ tick.fb # NoFb
    <3>1. tick.fb[s] \in Nat
      BY <1>2, <2>5
    <3>2. PICK lo, hi : lo = tick.fb[s] - Lead /\ hi = tick.fb[s] + Lead
      OBVIOUS
    <3>3. lo \in Int /\ hi \in Nat
      BY <1>2, <3>1, <3>2
    <3>4. Clamp(to, lo, hi) \in Nat
      BY <2>4, <3>3, ClampIs
    <3>5. LeadClamp(to, tick.fb[s]) \in Nat
      BY <3>2, <3>4 DEF LeadClamp
    <3>6. Clamp(LeadClamp(to, tick.fb[s]), e.lo, e.hi) \in Nat
      BY <1>1, <3>5, ClampIs
    <3>7. QED
      BY <1>4, <2>1, <2>3, <2>5, <3>6 DEF Slewed
  <2>6. CASE ~(s \in Arm /\ tick.fb # NoFb)
    BY <1>4, <2>1, <2>3, <2>4, <2>6 DEF Slewed
  <2>7. QED
    BY <2>5, <2>6
<1>5. QED
  BY <1>3, <1>4

(* The entry a tick works on. *)
LEMMA StIs ==
  ASSUME TypeOK, TickInv, NEW s \in Slots, tick.items[s] # None
  PROVE  St(s) \in Walk
<1>1. tick.items[s] \in Walk \cup {None, Live} /\ act[s] \in Walk \cup {None}
  BY DEF TypeOK, Tick
<1>2. tick.items[s] = Live => act[s] # None
  BY DEF TickInv
<1>3. QED
  BY <1>1, <1>2 DEF St

LEMMA SlewsStep ==
  ASSUME IInv, Slews
  PROVE  IInv'
<1>1. TypeOK /\ TickInv
  BY DEF IInv
<1>2. engine = "read" /\ engine' = "store" /\ UNCHANGED <<app, http, held, act, armQ, ghost>>
  BY DEF Slews
<1>3. /\ act' \in [Slots -> Walk \cup {None}] /\ (\A s \in Slots : act'[s] = None <=> act[s] = None)
      /\ armQ' \in [Arm -> Place] /\ held' \in [Slots -> Desire] /\ tick \in Tick
  BY <1>1, <1>2 DEF TypeOK
<1>4. PICK s \in tick.due : tick' = [tick EXCEPT !.cur = s, !.due = @ \ {s}, !.new = Slewed(s, St(s))]
  BY DEF Slews
<1>5. s \in Slots /\ tick.items[s] # None
  BY <1>1, <1>3, <1>4 DEF TickInv, Tick
<1>6. St(s) \in Walk
  BY <1>1, <1>5, StIs
<1>7. Slewed(s, St(s)) \in Nat
  BY <1>1, <1>5, <1>6, SlewedIs
<1>8. /\ tick' \in Tick /\ tick'.hub = tick.hub /\ tick'.items = tick.items
      /\ tick'.due = tick.due \ {s} /\ tick'.cur = s
  <2>1. PICK new : new = Slewed(s, St(s))
    OBVIOUS
  <2>2. tick' = [tick EXCEPT !.cur = s, !.due = tick.due \ {s}, !.new = new]
    BY <1>3, <1>4, <2>1 DEF Tick
  <2>3. QED
    BY <1>3, <1>5, <1>7, <2>1, <2>2 DEF Tick
<1>9. TickInv'
  BY <1>1, <1>2, <1>5, <1>8 DEF TickInv
<1>10. engine \in InTick /\ engine' \in InTick
  BY <1>2 DEF InTick
<1>11. QED
  BY <1>2, <1>3, <1>8, <1>9, <1>10, EngineKept

LEMMA NextSlotIs ==
  ASSUME tick \in Tick, NextSlot
  PROVE  /\ engine' = "read" /\ tick' \in Tick /\ tick'.hub = tick.hub
         /\ tick'.items = tick.items /\ tick'.due = tick.due
BY DEF NextSlot, Tick

LEMMA StoresStep ==
  ASSUME IInv, Stores
  PROVE  IInv'
<1>1. TypeOK /\ TickInv
  BY DEF IInv
<1>2. engine = "store" /\ UNCHANGED <<app, http, held, armQ, ghost>>
  BY DEF Stores
<1>3. /\ act \in [Slots -> Walk \cup {None}] /\ armQ' \in [Arm -> Place] /\ held' \in [Slots -> Desire]
      /\ tick \in Tick /\ tick.new \in Nat
  BY <1>1, <1>2 DEF TypeOK, Tick
<1>4. tick.cur \in Slots /\ tick.items[tick.cur] # None
  BY <1>1, <1>2 DEF TickInv
<1>5. act' \in [Slots -> Walk \cup {None}] /\ \A s \in Slots : act'[s] = None <=> act[s] = None
  <2>1. CASE act[tick.cur] = None
    BY <1>3, <2>1 DEF Stores
  <2>2. CASE act[tick.cur] # None
    <3>1. PICK e : e = [act[tick.cur] EXCEPT !.pos = tick.new]
      OBVIOUS
    <3>2. act[tick.cur] \in Walk
      BY <1>3, <1>4, <2>2
    <3>3. e \in Walk
      BY <1>3, <3>1, <3>2 DEF Walk
    <3>4. act' = [act EXCEPT ![tick.cur] = e]
      BY <1>3, <2>2, <3>1 DEF Stores
    <3>5. QED
      BY <1>3, <1>4, <2>2, <3>3, <3>4, Marks
  <2>3. QED
    BY <2>1, <2>2
<1>6. engine \in InTick /\ (engine' \in {"read", "write"} => engine' \in InTick)
  BY <1>2 DEF InTick
<1>7. CASE tick.cur \in Arm
  <2>1. /\ engine' = "read" /\ tick' \in Tick /\ tick'.hub = tick.hub
        /\ tick'.items = tick.items /\ tick'.due = tick.due
    BY <1>3, <1>7, NextSlotIs DEF Stores
  <2>2. TickInv'
    BY <1>1, <1>5, <2>1 DEF TickInv
  <2>3. QED
    BY <1>2, <1>3, <1>5, <1>6, <2>1, <2>2, EngineKept
<1>8. CASE tick.cur \notin Arm
  <2>1. engine' = "write" /\ tick' = tick
    BY <1>8 DEF Stores
  <2>2. TickInv'
    BY <1>1, <1>4, <1>5, <1>8, <2>1 DEF TickInv
  <2>3. QED
    BY <1>2, <1>3, <1>5, <1>6, <2>1, <2>2, EngineKept
<1>9. QED
  BY <1>7, <1>8

(* What the hub of a tick holds after it is commanded. *)
LEMMA CommandedIs ==
  ASSUME TypeOK, NEW S, NEW q, Commanded(S, q), \A s \in Slots \cap S : q[s] \in Place
  PROVE  held' \in [Slots -> Desire] /\ (UNCHANGED held \/ tick.hub = session)
<1>1. held \in [Slots -> Desire]
  BY DEF TypeOK
<1>2. CASE tick.hub # session
  BY <1>1, <1>2 DEF Commanded
<1>3. CASE tick.hub = session
  <2>1. held' = [s \in Slots |-> IF s \in S THEN [pos |-> q[s], stiff |-> TRUE] ELSE held[s]]
    BY <1>3 DEF Commanded
  <2>2. \A s \in Slots : s \in S => [pos |-> q[s], stiff |-> TRUE] \in Desire
    BY DEF Desire
  <2>3. QED
    BY <1>1, <1>3, <2>1, <2>2
<1>4. QED
  BY <1>2, <1>3

LEMMA WritesStep ==
  ASSUME IInv, Writes
  PROVE  IInv'
<1>1. TypeOK /\ TickInv
  BY DEF IInv
<1>2. engine = "write" /\ NextSlot /\ UNCHANGED <<app, http, act, armQ, ghost>>
  BY DEF Writes
<1>3. /\ act' \in [Slots -> Walk \cup {None}] /\ (\A s \in Slots : act'[s] = None <=> act[s] = None)
      /\ armQ' \in [Arm -> Place] /\ tick \in Tick /\ tick.new \in Place
  BY <1>1, <1>2 DEF TypeOK, Tick, Place
<1>4. held' \in [Slots -> Desire] /\ (UNCHANGED held \/ tick.hub = session)
  <2>1. PICK S, q : S = {tick.cur} /\ q = [s \in Slots |-> tick.new]
    OBVIOUS
  <2>2. Commanded(S, q)
    BY <2>1 DEF Writes
  <2>3. \A s \in Slots \cap S : q[s] \in Place
    BY <1>3, <2>1
  <2>4. QED
    BY <1>1, <2>2, <2>3, CommandedIs
<1>5. /\ engine' = "read" /\ tick' \in Tick /\ tick'.hub = tick.hub
      /\ tick'.items = tick.items /\ tick'.due = tick.due
  BY <1>2, <1>3, NextSlotIs
<1>6. TickInv'
  BY <1>1, <1>2, <1>5 DEF TickInv
<1>7. engine \in InTick /\ engine' \in InTick
  BY <1>2, <1>5 DEF InTick
<1>8. QED
  BY <1>2, <1>3, <1>4, <1>5, <1>6, <1>7, EngineKept

LEMMA SleepsStep ==
  ASSUME IInv, Sleeps
  PROVE  IInv'
<1>1. TypeOK
  BY DEF IInv
<1>2. engine' = "top" /\ tick' = Idle /\ UNCHANGED <<app, http, held, act, armQ, ghost>>
  BY DEF Sleeps
<1>3. /\ act' \in [Slots -> Walk \cup {None}] /\ (\A s \in Slots : act'[s] = None <=> act[s] = None)
      /\ armQ' \in [Arm -> Place] /\ held' \in [Slots -> Desire]
  BY <1>1, <1>2 DEF TypeOK
<1>4. TickInv' /\ tick' \in Tick /\ engine' \notin InTick
  BY <1>2, IdleIs, IdleTickInv DEF InTick
<1>5. QED
  BY <1>2, <1>3, <1>4, EngineKept

(* The pose the arm is braced in: known whenever there is feedback.        *)
LEMMA PoseIs ==
  ASSUME TypeOK
  PROVE  /\ Pose \in [Arm -> Place]
         /\ tick.fb # NoFb => \A a \in Arm : Pose[a] # Nowhere
<1>1. ASSUME NEW a \in Arm
      PROVE  Pose[a] \in Place /\ (tick.fb # NoFb => Pose[a] # Nowhere)
  <2>1. a \in Slots /\ act[a] \in Walk \cup {None} /\ armQ[a] \in Place
    BY <1>1, SlotsFinite DEF TypeOK
  <2>2. tick.fb # NoFb => tick.fb[a] \in Nat
    BY <1>1 DEF TypeOK, Tick
  <2>3. act[a] # None => act[a].pos \in Nat
    BY <2>1 DEF Walk
  <2>4. \A n \in Nat : n \in Place /\ n # Nowhere
    BY DEF Place, Nowhere
  <2>5. CASE tick.items[a] # None /\ act[a] # None
    BY <1>1, <2>3, <2>4, <2>5 DEF Pose
  <2>6. CASE ~(tick.items[a] # None /\ act[a] # None) /\ tick.fb # NoFb
    BY <1>1, <2>2, <2>4, <2>6 DEF Pose
  <2>7. CASE ~(tick.items[a] # None /\ act[a] # None) /\ tick.fb = NoFb
    BY <1>1, <2>1, <2>7 DEF Pose
  <2>8. QED
    BY <2>5, <2>6, <2>7
<1>2. Pose = [a \in Arm |-> Pose[a]]
  BY DEF Pose
<1>3. QED
  BY <1>1, <1>2

LEMMA GathersStep ==
  ASSUME IInv, Gathers
  PROVE  IInv'
<1>1. TypeOK /\ TickInv
  BY DEF IInv
<1>2. /\ engine = "read" /\ UNCHANGED <<app, http, held, act, armQ, ghost>>
      /\ tick' = [tick EXCEPT !.q = Pose]
      /\ engine' = IF \E a \in Arm : Pose[a] = Nowhere THEN "fallback" ELSE "brace"
  BY DEF Gathers
<1>3. /\ act' \in [Slots -> Walk \cup {None}] /\ (\A s \in Slots : act'[s] = None <=> act[s] = None)
      /\ armQ' \in [Arm -> Place] /\ held' \in [Slots -> Desire] /\ tick \in Tick
  BY <1>1, <1>2 DEF TypeOK
<1>4. PICK q : q = Pose
  OBVIOUS
<1>5. q \in [Arm -> Place] /\ (tick.fb # NoFb => \A a \in Arm : q[a] # Nowhere)
  BY <1>1, <1>4, PoseIs
<1>6. /\ tick' \in Tick /\ tick'.hub = tick.hub /\ tick'.items = tick.items /\ tick'.due = tick.due
      /\ tick'.q = q /\ tick'.fb = tick.fb
  BY <1>2, <1>3, <1>4, <1>5 DEF Tick
<1>7. engine' = IF \E a \in Arm : q[a] = Nowhere THEN "fallback" ELSE "brace"
  BY <1>2, <1>4
<1>8. TickInv'
  <2>1. /\ \A s \in Slots : tick'.items[s] = Live => act'[s] # None
        /\ \A s \in tick'.due : tick'.items[s] # None
    BY <1>1, <1>2, <1>6 DEF TickInv
  <2>2. engine' \in {"fallback", "brace"}
    BY <1>7
  <2>3. engine' = "brace" => \A a \in Arm : tick'.q[a] # Nowhere
    BY <1>6, <1>7
  <2>4. engine' = "fallback" => tick'.fb = NoFb
    BY <1>5, <1>6, <1>7
  <2>5. QED
    BY <2>1, <2>2, <2>3, <2>4 DEF TickInv
<1>9. engine \in InTick /\ engine' \in InTick /\ engine' \in InTick \cup {"dead", "leaving", "top"}
  BY <1>2, <1>7 DEF InTick
<1>10. QED
  BY <1>2, <1>3, <1>6, <1>8, <1>9, EngineKept

LEMMA BracesStep ==
  ASSUME IInv, Braces
  PROVE  IInv'
<1>1. TypeOK /\ TickInv
  BY DEF IInv
<1>2. engine = "brace" /\ engine' = "keep" /\ Commanded(Arm, tick.q) /\ UNCHANGED <<app, http, act, armQ, tick, ghost>>
  BY DEF Braces
<1>3. /\ act' \in [Slots -> Walk \cup {None}] /\ (\A s \in Slots : act'[s] = None <=> act[s] = None)
      /\ armQ' \in [Arm -> Place] /\ tick \in Tick /\ tick' \in Tick
  BY <1>1, <1>2 DEF TypeOK
<1>4. held' \in [Slots -> Desire] /\ (UNCHANGED held \/ tick.hub = session)
  <2>1. \A s \in Slots \cap Arm : tick.q[s] \in Place
    BY <1>3 DEF Tick
  <2>2. QED
    BY <1>1, <1>2, <2>1, CommandedIs
<1>5. TickInv'
  BY <1>1, <1>2 DEF TickInv
<1>6. engine \in InTick /\ engine' \in InTick
  BY <1>2 DEF InTick
<1>7. QED
  BY <1>2, <1>3, <1>4, <1>5, <1>6, EngineKept

LEMMA KeepsStep ==
  ASSUME IInv, Keeps
  PROVE  IInv'
<1>1. TypeOK
  BY DEF IInv
<1>2. engine' = "top" /\ armQ' = tick.q /\ tick' = Idle /\ UNCHANGED <<app, http, held, act, ghost>>
  BY DEF Keeps
<1>3. /\ act' \in [Slots -> Walk \cup {None}] /\ (\A s \in Slots : act'[s] = None <=> act[s] = None)
      /\ armQ' \in [Arm -> Place] /\ held' \in [Slots -> Desire]
  BY <1>1, <1>2 DEF TypeOK, Tick
<1>4. TickInv' /\ tick' \in Tick /\ engine' \notin InTick
  BY <1>2, IdleIs, IdleTickInv DEF InTick
<1>5. QED
  BY <1>2, <1>3, <1>4, EngineKept

LEMMA FallsBackStep ==
  ASSUME IInv, FallsBack
  PROVE  IInv'
<1>1. TypeOK /\ TickInv
  BY DEF IInv
<1>2. /\ engine = "fallback" /\ engine' = "top" /\ tick' = Idle
      /\ Commanded({a \in Arm : tick.items[a] # None}, [a \in Arm |-> St(a).pos])
      /\ UNCHANGED <<app, http, act, armQ, ghost>>
  BY DEF FallsBack
<1>3. /\ act' \in [Slots -> Walk \cup {None}] /\ (\A s \in Slots : act'[s] = None <=> act[s] = None)
      /\ armQ' \in [Arm -> Place]
  BY <1>1, <1>2 DEF TypeOK
<1>4. held' \in [Slots -> Desire] /\ (UNCHANGED held \/ tick.hub = session)
  <2>1. PICK S, q : S = {a \in Arm : tick.items[a] # None} /\ q = [a \in Arm |-> St(a).pos]
    OBVIOUS
  <2>2. ASSUME NEW s \in Slots \cap S PROVE q[s] \in Place
    <3>1. s \in Slots /\ s \in Arm /\ tick.items[s] # None
      BY <2>1
    <3>2. St(s) \in Walk
      BY <1>1, <3>1, StIs
    <3>3. St(s).pos \in Nat
      BY <3>2 DEF Walk
    <3>4. QED
      BY <2>1, <3>1, <3>3 DEF Place
  <2>3. Commanded(S, q)
    BY <1>2, <2>1
  <2>4. QED
    BY <1>1, <2>2, <2>3, CommandedIs
<1>5. TickInv' /\ tick' \in Tick /\ engine' \notin InTick /\ engine \in InTick
  BY <1>2, IdleIs, IdleTickInv DEF InTick
<1>6. QED
  BY <1>2, <1>3, <1>4, <1>5, EngineKept

-----------------------------------------------------------------------------
(* The theorems. *)

LEMMA InitIs ==
  ASSUME Init
  PROVE  IInv
<1>1. /\ session = 0 /\ opened = 0 /\ softKill = TRUE /\ scout = FALSE /\ lock = "none"
      /\ todo = [h \in Handlers |-> <<>>] /\ seed = [h \in Handlers |-> 0] /\ left \in Mixes
      /\ held = [s \in Slots |-> Unset]
      /\ act = [s \in Slots |-> None] /\ armQ = NoFb /\ engine = "dead" /\ tick = Idle
      /\ released = FALSE /\ stray = FALSE /\ stopped = [s \in Slots |-> Nowhere]
  BY DEF Init
<1>2. TypeOK
  <2>1. todo \in [Handlers -> Seq(Section)]
    <3>1. <<>> \in Seq(Section)
      OBVIOUS
    <3>2. QED
      BY <1>1, <3>1
  <2>2. DOMAIN left \subseteq Names /\ \A name \in DOMAIN left : left[name] \in Nat
    BY <1>1, TeleopAssumption
  <2>3. held \in [Slots -> Desire] /\ stopped \in [Slots -> Place] /\ armQ \in [Arm -> Place] /\ tick \in Tick
    BY <1>1, BlankIs, NowhereIs, IdleIs
  <2>4. seed \in [Handlers -> Nat] /\ act \in [Slots -> Walk \cup {None}]
    BY <1>1
  <2>5. opened \in Nat /\ session \in 0..opened
    BY <1>1
  <2>6. QED
    BY <1>1, <2>1, <2>2, <2>3, <2>4, <2>5 DEF TypeOK
<1>3. HandlersOK
  <2>1. ASSUME NEW h \in Handlers PROVE Shape(todo[h]) /\ HasLock(h, todo[h]) /\ Guarded(todo[h])
    <3>1. todo[h] = <<>>
      BY <1>1
    <3>2. PICK t : t = <<>>
      OBVIOUS
    <3>3. Shape(t) /\ HasLock(h, t) /\ Guarded(t)
      BY <3>2 DEF Shape, HasLock, Guarded
    <3>4. t = todo[h]
      BY <3>1, <3>2
    <3>5. QED
      BY <3>3, <3>4
  <2>2. QED
    BY <2>1 DEF HandlersOK
<1>4. FrozenInv
  BY <1>1, BlankIs DEF FrozenInv, Nothing, InTick
<1>5. TickInv
  BY <1>1, IdleIs, Marks DEF TickInv
<1>6. QED
  BY <1>2, <1>3, <1>4, <1>5 DEF IInv

LEMMA HandlerStep ==
  ASSUME IInv, NEW h \in Handlers, Handler(h)
  PROVE  IInv'
<1>1. CASE \E name \in DOMAIN left : Requests(h, name)
  BY <1>1, RequestsStep
<1>2. CASE Opens(h) \/ Freezes(h) \/ Releases(h) \/ Leaves(h)
  BY <1>2, OpensStep, FreezesStep, ReleasesStep, LeavesStep
<1>3. CASE DisengagesAll(h) \/ Disengages(h) \/ Engages1(h) \/ Stops(h) \/ Limits(h)
  BY <1>3, DisengagesAllStep, DisengagesStep, EngagesStep, StopsStep, LimitsStep
<1>4. CASE Closes(h) \/ Seeds(h) \/ Ensures(h) \/ Applies(h) \/ Blanks(h) \/ Parks(h) \/ NewSpecs(h)
  BY <1>4, ClosesStep, SeedsStep, EnsuresStep, AppliesStep, BlanksStep, ParksStep, NewSpecsStep
<1>5. QED
  BY <1>1, <1>2, <1>3, <1>4 DEF Handler

LEMMA StutterStep ==
  ASSUME IInv, UNCHANGED vars
  PROVE  IInv'
<1>1. UNCHANGED <<session, opened, softKill, scout, lock, todo, seed, left, held, act, armQ,
                  engine, tick, released, stray, stopped>>
  BY DEF vars, app, http, core, ghost
<1>2. HandlersOK'
  BY <1>1 DEF IInv, HandlersOK, Shape, After, HasLock, Guarded, Nothing
<1>3. TypeOK' /\ FrozenInv' /\ TickInv'
  BY <1>1 DEF IInv, TypeOK, FrozenInv, Nothing, TickInv
<1>4. QED
  BY <1>2, <1>3 DEF IInv

(* What request handlers and engine keep between them: who may open and    *)
(* close a session, that a slot is engaged after the guard was asked, that *)
(* nothing is engaged in a session not released yet, and that the tick     *)
(* shares the entries that are still there (AppState, TeleopEngine).       *)
THEOREM TeleopInvariant == Spec => []IInv
<1>1. Init => IInv
  BY InitIs
<1>2. ASSUME IInv, Next PROVE IInv'
  <2>1. CASE Engine
    BY <1>2, <2>1, LooksStep, EndsStep, CopiesStep, SlewsStep, StoresStep, WritesStep, SleepsStep,
       GathersStep, BracesStep, KeepsStep, FallsBackStep DEF Engine
  <2>2. CASE \E h \in Handlers : Handler(h)
    BY <1>2, <2>2, HandlerStep
  <2>3. QED
    BY <1>2, <2>1, <2>2 DEF Next
<1>3. IInv /\ [Next]_vars => IInv'
  BY <1>2, StutterStep
<1>4. QED
  BY <1>1, <1>3, PTL DEF Spec

(* A session starts without torque, whatever was engaged before it and     *)
(* however the end of the last one met the tick in progress (connect,      *)
(* disconnect, _require_motion_allowed).                                   *)
THEOREM FrozenAtStart == Spec => []FrozenUntilReleased
<1>1. IInv => FrozenUntilReleased
  BY DEF IInv, FrozenInv, FrozenUntilReleased
<1>2. QED
  BY <1>1, TeleopInvariant, PTL

(* A slot of the arm that gets torque.                                     *)
LEMMA BracedStep ==
  ASSUME IInv, [Next]_vars, NEW a \in Arm, ~held[a].stiff, held'[a].stiff, tick.fb # NoFb
  PROVE  \A b \in Arm : held'[b].stiff
<1>1. TypeOK /\ TickInv /\ HandlersOK
  BY DEF IInv
<1>2. a \in Slots /\ a \notin Wheels /\ held \in [Slots -> Desire] /\ held' # held
  BY <1>1, SlotsFinite, TeleopAssumption DEF TypeOK
<1>3. ASSUME NEW h \in Handlers, Handler(h) PROVE FALSE
  <2>1. CASE Opens(h) \/ Closes(h) \/ Leaves(h) \/ Parks(h)
    BY <1>2, <2>1, BlankIs DEF Opens, Closes, Leaves, Parks
  <2>2. CASE Blanks(h)
    BY <1>2, <2>2, BlankIs DEF Blanks
  <2>3. CASE Applies(h)
    <3>1. At(h, "apply")
      BY <2>3 DEF Applies
    <3>2. todo[h] # <<>> /\ todo[h] \in Seq(Section) /\ todo[h][1].op = "apply" /\ Slot(h) = todo[h][1].slot
      BY <1>1, <3>1, AtIs
    <3>3. 1 \in 1..Len(todo[h]) /\ Shape(todo[h])
      BY <1>1, <3>2 DEF HandlersOK
    <3>4. Slot(h) \in Wheels
      BY <3>2, <3>3 DEF Shape
    <3>5. held' = held \/ held' = [held EXCEPT ![Slot(h)] = [pos |-> Value(h), stiff |-> TRUE]]
      BY <2>3 DEF Applies
    <3>6. QED
      BY <1>2, <3>4, <3>5
  <2>4. CASE \/ \E name \in DOMAIN left : Requests(h, name)
             \/ Freezes(h) \/ Releases(h) \/ DisengagesAll(h) \/ Disengages(h)
             \/ Seeds(h) \/ Engages1(h) \/ Ensures(h) \/ Stops(h) \/ Limits(h) \/ NewSpecs(h)
    <3>1. UNCHANGED held
      BY <2>4 DEF Requests, Freezes, Releases, DisengagesAll, Disengages, Seeds, Engages1, Ensures,
                  Stops, Limits, NewSpecs
    <3>2. QED
      BY <1>2, <3>1
  <2>5. QED
    BY <1>3, <2>1, <2>2, <2>3, <2>4 DEF Handler
<1>4. CASE Engine
  <2>1. CASE Looks \/ Ends \/ Copies \/ Slews \/ Stores \/ Sleeps \/ Gathers \/ Keeps
    BY <1>2, <2>1 DEF Looks, Ends, Copies, Slews, Stores, Sleeps, Gathers, Keeps
  <2>2. CASE Writes
    <3>1. tick.cur \notin Arm /\ Commanded({tick.cur}, [s \in Slots |-> tick.new])
      BY <1>1, <2>2 DEF Writes, TickInv
    <3>2. held'[a] = held[a]
      BY <1>2, <3>1 DEF Commanded
    <3>3. QED
      BY <1>2, <3>2
  <2>3. CASE Braces
    <3>1. Commanded(Arm, tick.q)
      BY <2>3 DEF Braces
    <3>2. held' = [s \in Slots |-> IF s \in Arm THEN [pos |-> tick.q[s], stiff |-> TRUE] ELSE held[s]]
      BY <1>2, <3>1 DEF Commanded
    <3>3. QED
      BY <3>2, SlotsFinite
  <2>4. CASE FallsBack
    BY <1>1, <2>4 DEF FallsBack, TickInv
  <2>5. QED
    BY <1>4, <2>1, <2>2, <2>3, <2>4 DEF Engine
<1>5. CASE UNCHANGED vars
  BY <1>2, <1>5 DEF vars
<1>6. QED
  BY <1>3, <1>4, <1>5 DEF Next

(* When a slot of the arm gets torque and there is feedback, none of its   *)
(* siblings is left slack (write_left_arm, _brace_write_left_arm).         *)
THEOREM ArmIsBraced == Spec => SiblingsBraced
<1>1. IInv /\ [Next]_vars =>
        \A a \in Arm : ~held[a].stiff /\ held'[a].stiff /\ tick.fb # NoFb => \A b \in Arm : held'[b].stiff
  BY BracedStep
<1>2. IInv /\ [Next]_vars =>
        [\A a \in Arm : ~held[a].stiff /\ held'[a].stiff /\ tick.fb # NoFb => \A b \in Arm : held'[b].stiff]_vars
  BY <1>1
<1>3. QED
  BY <1>2, TeleopInvariant, PTL DEF Spec, SiblingsBraced

=============================================================================
