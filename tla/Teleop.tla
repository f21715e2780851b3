------------------------------- MODULE Teleop -------------------------------
(***************************************************************************)
(* Motion from the dashboard: the request handlers of debug_dashboard      *)
(* (AppState), each on a thread of its own, and the thread of TeleopEngine *)
(* that walks every engaged slot toward its target and rewrites the held   *)
(* desires of the hub, which the stream resends (SoftKill, PlantGate).     *)
(*                                                                         *)
(* A request is a sequence of critical sections; so is a tick of the       *)
(* engine.  One unit of position is what a slot cruises in one tick.  Only *)
(* the desires of the session that is open are kept: a late write to the   *)
(* hub of an older session reaches a closed port.                          *)
(***************************************************************************)
EXTENDS Integers, Sequences, FiniteSets, SequencesExt

CONSTANTS
  Arm,        \* slots of the left arm, braced together
  Wheels,     \* base slots whose window is laid around the seed
  Top,        \* end of the arm's envelope; the bench-clear part is 1..Top
  Lead,       \* MAX_LEAD, and the window of a wheel (DM_BASE_TRAVEL)
  Handlers,   \* requests the HTTP server runs at a time
  Mixes       \* sets of requests a behaviour makes: how often each

Names == {"connect", "disconnect", "release", "engage_soft_kill", "target", "jog", "stop",
          "stop_all", "apply", "idle", "idle_all", "idle_group", "estop_park", "recover",
          "limit_scout"}

ASSUME TeleopAssumption ==
  /\ Top \in Nat \ {0} /\ Lead \in Nat \ {0}
  /\ Arm \cap Wheels = {} /\ IsFiniteSet(Arm) /\ IsFiniteSet(Wheels) /\ Arm \cup Wheels # {}
  /\ "none" \notin Handlers
  /\ \A m \in Mixes : DOMAIN m \subseteq Names /\ \A name \in DOMAIN m : m[name] \in Nat

VARIABLES
  session,   \* AppState.proxy: number of the session that is open, or 0
  opened,    \* sessions opened so far
  softKill,  \* AppState.soft_kill
  scout,     \* limit_scout, as the rails of actuator_specs show it
  lock,      \* AppState._lock: the handler in connect or disconnect, or None
  todo,      \* critical sections each handler still has to go through
  seed,      \* where the handler found the slot it is about to engage
  left,      \* requests that may still be made
  held,      \* desires of the open hub
  act,       \* TeleopEngine._act
  armQ,      \* TeleopEngine._left_arm_q
  engine,    \* where the engine thread is
  tick,      \* locals of the tick it is in
  released,  \* ghost: soft_kill was released in this session
  stray,     \* ghost: a slot was engaged after the session that allowed it
  stopped    \* ghost: where the last Stop left each slot

app   == <<session, opened, softKill, scout, lock>>
http  == <<todo, seed, left>>
core  == <<act, armQ, engine, tick>>
ghost == <<released, stray, stopped>>
vars  == <<app, http, held, core, ghost>>

Slots == Arm \cup Wheels
None  == [pos |-> -99, target |-> -99, lo |-> 0, hi |-> 0]
Live  == [None EXCEPT !.target = -98]   \* the dict still in _act
Nowhere == -99
Blank == [pos |-> 0, stiff |-> FALSE]   \* ActuatorDesire(), and the anchor
Unset == [pos |-> Nowhere, stiff |-> FALSE]
NoFb  == [a \in Arm |-> Nowhere]
Idle  == [hub |-> 0, items |-> [s \in Slots |-> None], fb |-> NoFb, due |-> {},
          cur |-> "none", new |-> 0, q |-> NoFb]

Init ==
  /\ session = 0 /\ opened = 0 /\ softKill = TRUE /\ scout = FALSE /\ lock = "none"
  /\ todo = [h \in Handlers |-> <<>>] /\ seed = [h \in Handlers |-> 0] /\ left \in Mixes
  /\ held = [s \in Slots |-> Unset]
  /\ act = [s \in Slots |-> None] /\ armQ = NoFb /\ engine = "dead" /\ tick = Idle
  /\ released = FALSE /\ stray = FALSE /\ stopped = [s \in Slots |-> Nowhere]

-----------------------------------------------------------------------------
(* Requests. *)

Do(op, s, v) == [op |-> op, slot |-> s, value |-> v, of |-> session]
Each(S, op)  == [i \in 1..Cardinality(S) |-> Do(op, SetToSeq(S)[i], 0)]
InTurn(S, one, two) ==
  [i \in 1..2 * Cardinality(S) |->
     Do(IF (i % 2) = 1 THEN one ELSE two, SetToSeq(S)[(i + 1) \div 2], 0)]
Engages(s, t) == <<Do("seed", s, t), Do("engage", s, t), Do("ensure", s, t)>>
SomeSlot == CHOOSE s \in Slots : TRUE

(* The routes, and what AppState goes through for each. *)
Program(name, s, v) ==
  CASE name = "connect"      -> <<Do("open", s, v), Do("freeze", s, v)>>
    [] name = "disconnect"   -> <<Do("disengage_all", s, v), Do("close", s, v), Do("leave", s, v)>>
    [] name = "release"      -> <<Do("release", s, v)>>
    [] name = "engage_soft_kill" -> <<Do("freeze", s, v)>>
    [] name = "target"       -> Engages(s, v)
    [] name = "jog"          -> Engages(s, v)
    [] name = "stop"         -> <<Do("stop", s, v)>>
    [] name = "stop_all"     -> Each(Slots, "stop")
    [] name = "apply"        -> <<Do("apply", s, v)>>
    [] name = "idle"         -> <<Do("blank", s, v)>>
    [] name = "idle_all"     -> Each(Slots, "blank")
    [] name = "idle_group"   -> InTurn(Arm, "disengage", "blank")
    [] name = "estop_park"   -> <<Do("park", s, v)>>
    [] name = "recover"      -> <<Do("park", s, v)>>
    [] name = "limit_scout"  -> Each(Arm, IF scout THEN "narrow" ELSE "widen") \o <<Do("specs", s, v)>>

NeedsHub == {"release", "engage_soft_kill", "stop", "stop_all", "apply", "idle",
             "idle_all", "idle_group", "estop_park", "recover", "target", "jog"}
Locked   == {"connect", "disconnect"}

(* Slot and value each request carries. *)
Inputs(name) ==
  CASE name = "target" -> Arm \X {0, Top}
    [] name = "jog"    -> Wheels \X {1}
    [] name = "apply"  -> Wheels \X {1}
    [] name \in {"stop", "idle"} -> Slots \X {0}
    [] OTHER -> {<<SomeSlot, 0>>}

Requests(h, name) ==
  /\ todo[h] = <<>> /\ left[name] > 0
  /\ name \in NeedsHub => session # 0     \* _require_active: 400 otherwise
  /\ name = "connect" => session = 0      \* raises: already connected
  /\ name \in Locked => lock = "none"
  /\ \E in \in Inputs(name) :
       todo' = [todo EXCEPT ![h] = Program(name, in[1], in[2])]
  /\ left' = [left EXCEPT ![name] = @ - 1]
  /\ lock' = IF name \in Locked THEN h ELSE lock
  /\ UNCHANGED <<session, opened, softKill, scout, seed, held, core, ghost>>

At(h, op) == todo[h] # <<>> /\ Head(todo[h]).op = op
Slot(h)   == Head(todo[h]).slot
Value(h)  == Head(todo[h]).value
Next1(h)  == todo' = [todo EXCEPT ![h] = Tail(@)]
Raise(h)  == todo' = [todo EXCEPT ![h] = <<>>]   \* answered with an error

(* connect: every slot anchored before the proxy is published. *)
Opens(h) ==
  /\ At(h, "open") /\ Next1(h)
  /\ session' = opened + 1 /\ opened' = opened + 1
  /\ held' = [s \in Slots |-> Blank] /\ released' = FALSE
  /\ UNCHANGED <<softKill, scout, lock, seed, left, core, stray, stopped>>

(* engage_soft_kill; _enter_active_locked, at the end of connect.  It sets *)
(* the flag of the guard and leaves the engine and the desires alone.      *)
Freezes(h) ==
  /\ At(h, "freeze") /\ Next1(h)
  /\ softKill' = TRUE /\ lock' = IF lock = h THEN "none" ELSE lock
  /\ UNCHANGED <<session, opened, scout, seed, left, held, core, ghost>>

Releases(h) ==
  /\ At(h, "release")
  /\ IF session = 0 THEN Raise(h) /\ UNCHANGED <<softKill, released>>
     ELSE Next1(h) /\ softKill' = FALSE /\ released' = TRUE
  /\ UNCHANGED <<session, opened, scout, lock, seed, left, held, core, stray, stopped>>

(* An entry that leaves _act lives on in the tick that has it in its list. *)
Outlives(S) ==
  tick' = [tick EXCEPT !.items = [s \in Slots |->
             IF s \in S /\ @[s] = Live THEN act[s] ELSE @[s]]]

DisengagesAll(h) ==
  /\ At(h, "disengage_all") /\ Next1(h)
  /\ act' = [s \in Slots |-> None] /\ armQ' = NoFb /\ Outlives(Slots)
  /\ stopped' = [s \in Slots |-> Nowhere]
  /\ UNCHANGED <<app, seed, left, held, engine, released, stray>>

Disengages(h) ==
  /\ At(h, "disengage") /\ Next1(h)
  /\ act' = [act EXCEPT ![Slot(h)] = None] /\ Outlives({Slot(h)})
  /\ stopped' = [stopped EXCEPT ![Slot(h)] = Nowhere]
  /\ UNCHANGED <<app, seed, left, held, armQ, engine, released, stray>>

(* HostProxy.close: blank desires, apply off, 0.25 s of stream, stop.  Only *)
(* then does AppState forget the proxy and raise the guard.                *)
Closes(h) ==
  /\ At(h, "close") /\ Next1(h)
  /\ held' = [s \in Slots |-> IF session = 0 THEN Unset ELSE Blank]
  /\ UNCHANGED <<app, seed, left, core, ghost>>

Leaves(h) ==
  /\ At(h, "leave") /\ Next1(h)
  /\ session' = 0 /\ softKill' = TRUE /\ lock' = "none"
  /\ held' = [s \in Slots |-> Unset]
  /\ UNCHANGED <<opened, scout, seed, left, core, ghost>>

(* _require_motion_allowed, then the seed: the desire held for the slot,   *)
(* or the latest feedback, or no teleop yet.                               *)
MotionAllowed == session # 0 /\ ~softKill

Seeds(h) ==
  /\ At(h, "seed")
  /\ \/ ~MotionAllowed /\ Raise(h) /\ UNCHANGED seed
     \/ /\ MotionAllowed /\ held[Slot(h)].pos # Nowhere
        /\ seed' = [seed EXCEPT ![h] = held[Slot(h)].pos] /\ Next1(h)
     \/ /\ MotionAllowed /\ held[Slot(h)].pos = Nowhere
        /\ \/ \E p \in 0..Top : seed' = [seed EXCEPT ![h] = p] /\ Next1(h)
           \/ Raise(h) /\ UNCHANGED seed
  /\ UNCHANGED <<app, left, held, core, ghost>>

Rails(s) == IF scout THEN [lo |-> 0, hi |-> Top] ELSE [lo |-> 1, hi |-> Top]
Clamp(v, lo, hi) == IF v < lo THEN lo ELSE IF v > hi THEN hi ELSE v

(* engage_actuator keeps the position a slot is walking at; a wheel gets a *)
(* window around its seed.                                                 *)
Entry(s, v, at) ==
  IF s \in Wheels
  THEN [pos |-> at, target |-> at + v * Lead, lo |-> at - Lead, hi |-> at + Lead]
  ELSE [pos |-> IF act[s] = None THEN at ELSE act[s].pos,
        target |-> Clamp(v, Rails(s).lo, Rails(s).hi), lo |-> Rails(s).lo, hi |-> Rails(s).hi]

Engages1(h) ==   \* engage_actuator, engage_actuator_seed_relative
  /\ At(h, "engage") /\ Next1(h)
  /\ act' = [act EXCEPT ![Slot(h)] = Entry(Slot(h), Value(h), seed[h])]
  /\ Outlives({Slot(h)})
  /\ stopped' = [stopped EXCEPT ![Slot(h)] = Nowhere]
  /\ stray' = (stray \/ session # Head(todo[h]).of
                     \/ \E g \in Handlers : At(g, "close") \/ At(g, "leave"))
  /\ UNCHANGED <<app, seed, left, held, armQ, engine, released>>

(* _ensure_thread: a thread that has seen no work is still alive.          *)
Ensures(h) ==
  /\ At(h, "ensure") /\ Next1(h)
  /\ engine' = IF engine = "dead" THEN "top" ELSE engine
  /\ seed' = [seed EXCEPT ![h] = 0]
  /\ UNCHANGED <<app, left, held, act, armQ, tick, ghost>>

StopsMutated(h) ==   \* the target stays
  /\ At(h, "stop") /\ Next1(h)
  /\ stopped' = IF act[Slot(h)] = None THEN stopped
                ELSE [stopped EXCEPT ![Slot(h)] = act[Slot(h)].pos]
  /\ UNCHANGED <<app, seed, left, held, core, released, stray>>

Stops(h) ==   \* stop_actuator: the target becomes where the slot is
  /\ At(h, "stop") /\ Next1(h)
  /\ IF act[Slot(h)] = None THEN UNCHANGED <<act, stopped>>
     ELSE /\ act' = [act EXCEPT ![Slot(h)].target = act[Slot(h)].pos]
          /\ stopped' = [stopped EXCEPT ![Slot(h)] = act[Slot(h)].pos]
  /\ UNCHANGED <<app, seed, left, held, armQ, engine, tick, released, stray>>

Applies(h) ==   \* set_actuator with gains
  /\ At(h, "apply")
  /\ IF MotionAllowed
     THEN Next1(h) /\ held' = [held EXCEPT ![Slot(h)] = [pos |-> Value(h), stiff |-> TRUE]]
     ELSE Raise(h) /\ UNCHANGED held
  /\ UNCHANGED <<app, seed, left, core, ghost>>

Blanks(h) ==   \* idle_actuator; idle_all_actuators and idle_group, per slot
  /\ At(h, "blank")
  /\ IF session # 0 THEN Next1(h) /\ held' = [held EXCEPT ![Slot(h)] = Blank]
     ELSE Raise(h) /\ UNCHANGED held
  /\ UNCHANGED <<app, seed, left, core, ghost>>

Parks(h) ==   \* hard_estop_park, recover: every held desire is cleared
  /\ At(h, "park") /\ Next1(h)
  /\ held' = [s \in Slots |-> Unset]
  /\ UNCHANGED <<app, seed, left, core, ghost>>

(* set_actuator_limits, for an engaged slot. *)
Limits(h) ==
  /\ At(h, "widen") \/ At(h, "narrow")
  /\ LET lo == IF At(h, "widen") THEN 0 ELSE 1
         e  == act[Slot(h)]
     IN  act' = IF e = None THEN act
                ELSE [act EXCEPT ![Slot(h)] =
                        [pos |-> Clamp(e.pos, lo, Top), target |-> Clamp(e.target, lo, Top),
                         lo |-> lo, hi |-> Top]]
  /\ Next1(h)
  /\ UNCHANGED <<app, seed, left, held, armQ, engine, tick, ghost>>

NewSpecs(h) ==   \* _rebuild_actuator_specs publishes the table last
  /\ At(h, "specs") /\ Next1(h) /\ scout' = ~scout
  /\ UNCHANGED <<session, opened, softKill, lock, seed, left, held, core, ghost>>

Handler(h) ==
  \/ \E name \in DOMAIN left : Requests(h, name)
  \/ Opens(h) \/ Freezes(h) \/ Releases(h) \/ DisengagesAll(h) \/ Disengages(h)
  \/ Closes(h) \/ Leaves(h) \/ Seeds(h) \/ Engages1(h) \/ Ensures(h) \/ Stops(h)
  \/ Applies(h) \/ Blanks(h) \/ Parks(h) \/ Limits(h) \/ NewSpecs(h)

-----------------------------------------------------------------------------
(* The engine. *)

Engaged(S) == {s \in S : act[s] # None}

Looks ==   \* _run: nothing to do ends the thread; else the hub of this tick
  /\ engine = "top"
  /\ \/ Engaged(Slots) = {} /\ engine' = "leaving" /\ UNCHANGED tick
     \/ Engaged(Slots) # {} /\ session # 0 /\ engine' = "copy" /\ tick' = [Idle EXCEPT !.hub = session]
  /\ UNCHANGED <<app, http, held, act, armQ, ghost>>

Ends ==
  /\ engine = "leaving" /\ engine' = "dead"
  /\ UNCHANGED <<app, http, held, act, armQ, tick, ghost>>

(* The list of the tick, in any order the slots may have been engaged in,  *)
(* and one feedback sample: none before the first image of the process,    *)
(* then one of every slot; only the arm reads it.                          *)
Copies ==
  /\ engine = "copy" /\ engine' = "read"
  /\ \E fb \in IF Engaged(Arm) = {} THEN {NoFb} ELSE {NoFb} \cup [Arm -> {0, Top}] :
       tick' = [tick EXCEPT !.items = [s \in Slots |-> IF act[s] = None THEN None ELSE Live],
                            !.fb = fb, !.due = Engaged(Slots)]
  /\ UNCHANGED <<app, http, held, act, armQ, ghost>>

St(s) == IF tick.items[s] = Live THEN act[s] ELSE tick.items[s]
Sign(v) == IF v > 0 THEN 1 ELSE -1
Dist(a, b) == IF a > b THEN a - b ELSE b - a

LeadClamp(cmd, at) == Clamp(cmd, at - Lead, at + Lead)

(* One cruise step, except that the last one lands on the target.  An arm  *)
(* slot that is slewing stays within Lead of its feedback.                 *)
Slewed(s, e) ==
  IF Dist(e.target, e.pos) <= 1 THEN e.target
  ELSE LET to == Clamp(e.pos + Sign(e.target - e.pos), e.lo, e.hi)
       IN  IF s \in Arm /\ tick.fb # NoFb
           THEN Clamp(LeadClamp(to, tick.fb[s]), e.lo, e.hi) ELSE to

Slews ==
  /\ engine = "read" /\ engine' = "store"
  /\ \E s \in tick.due :
       tick' = [tick EXCEPT !.cur = s, !.due = @ \ {s}, !.new = Slewed(s, St(s))]
  /\ UNCHANGED <<app, http, held, act, armQ, ghost>>

Brace == \E a \in Arm : tick.items[a] # None

NextSlot == engine' = "read" /\ tick' = [tick EXCEPT !.cur = "none", !.new = 0]

Stores ==   \* the position goes back to whatever entry the slot has now
  /\ engine = "store"
  /\ act' = IF act[tick.cur] = None THEN act ELSE [act EXCEPT ![tick.cur].pos = tick.new]
  /\ IF tick.cur \in Arm THEN NextSlot ELSE engine' = "write" /\ UNCHANGED tick
  /\ UNCHANGED <<app, http, held, armQ, ghost>>

(* hub.set_actuator on the hub of the tick. *)
Commanded(S, q) ==
  held' = IF tick.hub # session THEN held
          ELSE [s \in Slots |-> IF s \in S THEN [pos |-> q[s], stiff |-> TRUE] ELSE held[s]]

WritesMutated ==   \* to the hub there is now
  /\ engine = "write"
  /\ held' = IF session = 0 THEN held ELSE [held EXCEPT ![tick.cur] = [pos |-> tick.new, stiff |-> TRUE]]
  /\ NextSlot
  /\ UNCHANGED <<app, http, act, armQ, ghost>>

Writes ==
  /\ engine = "write"
  /\ Commanded({tick.cur}, [s \in Slots |-> tick.new])
  /\ NextSlot
  /\ UNCHANGED <<app, http, act, armQ, ghost>>

Sleeps ==
  /\ engine = "read" /\ tick.due = {} /\ ~Brace
  /\ engine' = "top" /\ tick' = Idle
  /\ UNCHANGED <<app, http, held, act, armQ, ghost>>

(* _brace_write_left_arm: engaged slots at their command, siblings where   *)
(* the feedback has them, or where they were braced last.                  *)
Pose == [a \in Arm |->
  IF tick.items[a] # None /\ act[a] # None THEN act[a].pos
  ELSE IF tick.fb # NoFb THEN tick.fb[a] ELSE armQ[a]]

GathersMutated ==   \* only the engaged slots
  /\ engine = "read" /\ tick.due = {} /\ Brace
  /\ tick' = [tick EXCEPT !.q = Pose] /\ engine' = "fallback"
  /\ UNCHANGED <<app, http, held, act, armQ, ghost>>

Gathers ==
  /\ engine = "read" /\ tick.due = {} /\ Brace
  /\ tick' = [tick EXCEPT !.q = Pose]
  /\ engine' = IF \E a \in Arm : Pose[a] = Nowhere THEN "fallback" ELSE "brace"
  /\ UNCHANGED <<app, http, held, act, armQ, ghost>>

Braces ==   \* write_left_arm: all of them, in one update
  /\ engine = "brace" /\ engine' = "keep"
  /\ Commanded(Arm, tick.q)
  /\ UNCHANGED <<app, http, act, armQ, tick, ghost>>

Keeps ==
  /\ engine = "keep" /\ engine' = "top"
  /\ armQ' = tick.q /\ tick' = Idle
  /\ UNCHANGED <<app, http, held, act, ghost>>

FallsBack ==   \* the engaged slots alone
  /\ engine = "fallback" /\ engine' = "top"
  /\ Commanded({a \in Arm : tick.items[a] # None}, [a \in Arm |-> St(a).pos])
  /\ tick' = Idle
  /\ UNCHANGED <<app, http, act, armQ, ghost>>

Engine == Looks \/ Ends \/ Copies \/ Slews \/ Stores \/ Writes \/ Sleeps
          \/ Gathers \/ Braces \/ Keeps \/ FallsBack

Next == Engine \/ \E h \in Handlers : Handler(h)
Spec == Init /\ [][Next]_vars /\ WF_vars(Engine)

-----------------------------------------------------------------------------
Ops     == {"open", "freeze", "release", "disengage_all", "disengage", "close", "leave", "seed",
            "engage", "ensure", "stop", "apply", "blank", "park", "widen", "narrow", "specs"}
Section == [op : Ops, slot : Slots, value : Nat, of : Nat]
Place   == Nat \cup {Nowhere}
Desire  == [pos : Place, stiff : BOOLEAN]
Walk    == [pos : Nat, target : Nat, lo : Int, hi : Nat]    \* an entry of _act
Tick    == [hub : Nat, items : [Slots -> Walk \cup {None, Live}], fb : {NoFb} \cup [Arm -> Nat],
            due : SUBSET Slots, cur : Slots \cup {"none"}, new : Nat, q : [Arm -> Place]]
InTick  == {"copy", "read", "store", "write", "brace", "keep", "fallback"}

TypeOK ==
  /\ opened \in Nat /\ session \in 0..opened
  /\ softKill \in BOOLEAN /\ scout \in BOOLEAN /\ released \in BOOLEAN /\ stray \in BOOLEAN
  /\ lock \in Handlers \cup {"none"}
  /\ todo \in [Handlers -> Seq(Section)] /\ seed \in [Handlers -> Nat]
  /\ DOMAIN left \subseteq Names /\ \A name \in DOMAIN left : left[name] \in Nat
  /\ held \in [Slots -> Desire] /\ stopped \in [Slots -> Place]
  /\ act \in [Slots -> Walk \cup {None}] /\ armQ \in [Arm -> Place]
  /\ engine \in InTick \cup {"dead", "leaving", "top"} /\ tick \in Tick

(* A session starts frozen: until the operator releases the soft kill in   *)
(* it, no slot is commanded with torque, whatever was engaged before --    *)
(* unless a request was let in by the guard of the session before and      *)
(* engaged its slot when that session was already being closed (state.py,  *)
(* connect: "must explicitly release_soft_kill").                          *)
FrozenUntilReleased ==
  session # 0 /\ ~released /\ ~stray => \A s \in Slots : ~held[s].stiff

Walking(s) == engine \notin {"dead", "leaving"} /\ act[s] # None

(* After Stop the command of a wheel settles where Stop found it, however  *)
(* the tick in progress and a renewed jog meet the stop, unless it is      *)
(* engaged anew or the session ends (stop_actuator: "Freeze in place").    *)
StopSettles ==
  \A s \in Wheels : (Walking(s) /\ stopped[s] # Nowhere)
    ~> \/ stopped[s] = Nowhere \/ session = 0
       \/ held[s].pos = stopped[s] /\ act[s].pos = stopped[s]

(* When the engine makes an arm slot stiff and it can tell where the       *)
(* others are, it leaves none of them slack (arm_brace.py: "Never leave    *)
(* siblings blank/kp=0").                                                  *)
SiblingsBraced ==
  [][\A a \in Arm : ~held[a].stiff /\ held'[a].stiff /\ tick.fb # NoFb =>
       \A b \in Arm : held'[b].stiff]_vars

-----------------------------------------------------------------------------
(* The inductive invariant behind FrozenUntilReleased and SiblingsBraced.  *)

(* What is left of a request: nothing engages before its guard has been    *)
(* asked, nothing is closed before everything is disengaged.               *)
After(td, i, op) == i > 1 => td[i - 1].op = op

Shape(td) ==
  \A i \in 1..Len(td) :
    /\ td[i].op = "open" => i = 1
    /\ td[i].op \in {"freeze", "leave"} => i = Len(td)
    /\ td[i].op = "engage" => td[i].of # 0 /\ After(td, i, "seed")
    /\ td[i].op = "close" => After(td, i, "disengage_all")
    /\ td[i].op = "leave" => After(td, i, "close")
    /\ td[i].op = "apply" => td[i].slot \in Wheels

(* connect and disconnect have AppState._lock; a session opens when none is. *)
HasLock(h, td) ==
  \A i \in 1..Len(td) :
    /\ td[i].op \in {"open", "disengage_all", "close", "leave"} => lock = h
    /\ td[i].op = "open" => session = 0
    /\ td[i].of <= opened

Nothing == \A s \in Slots : act[s] = None

(* A slot about to be engaged was let in by this session's guard, or by an *)
(* earlier one's; a session being closed has nothing engaged.              *)
Guarded(td) ==
  td # <<>> =>
    /\ td[1].op = "engage" /\ td[1].of = session => released
    /\ td[1].op \in {"close", "leave"} /\ ~stray => Nothing

HandlersOK == \A h \in Handlers : Shape(todo[h]) /\ HasLock(h, todo[h]) /\ Guarded(todo[h])

(* Before the release of a session nothing walks, and no tick writes to it. *)
FrozenInv ==
  /\ ~softKill => session # 0 /\ released
  /\ ~stray /\ (session = 0 \/ ~released) => Nothing
  /\ engine \in InTick => tick.hub \in 1..opened
  /\ session # 0 /\ ~released /\ ~stray =>
       /\ engine \in InTick => tick.hub # session
       /\ \A s \in Slots : ~held[s].stiff

(* The tick in progress: its list shares the entries that are still in _act, *)
(* and the arm is braced from a pose that is known.                         *)
TickInv ==
  /\ \A s \in Slots : tick.items[s] = Live => act[s] # None
  /\ \A s \in tick.due : tick.items[s] # None
  /\ engine \in {"store", "write"} => tick.cur \in Slots /\ tick.items[tick.cur] # None
  /\ engine = "write" => tick.cur \notin Arm
  /\ engine = "brace" => \A a \in Arm : tick.q[a] # Nowhere
  /\ engine = "fallback" => tick.fb = NoFb

IInv == TypeOK /\ HandlersOK /\ FrozenInv /\ TickInv

=============================================================================
