---------------------------- MODULE HostSession -----------------------------
(***************************************************************************)
(* One session of the host SDK on one serial port: Connection with its      *)
(* plant stream and its telemetry thread, ControlsPcbHub, HostProxy and the *)
(* pause around bench calls.  The threads share one queue of received       *)
(* frames (FrameReader), in which feedback and the replies to bench calls   *)
(* arrive mixed.                                                           *)
(*                                                                         *)
(* A call, like a round of the stream, is a script of steps; other threads  *)
(* get in between any two of them.  The thread that opens the session is    *)
(* the only one that pauses the stream, calls the bench and closes.  Of     *)
(* the commands only plant_apply is kept here: SoftKill looks at the stop   *)
(* path, with the hook of the stream that listen_pdu switches on.           *)
(***************************************************************************)
EXTENDS Integers, Sequences, FiniteSets, SequencesExt

CONSTANTS
  Owner,     \* the thread that opens the session
  Others,    \* threads of handlers and of the teleoperation engine
  Plans,     \* the calls of each thread, in order, and the feedback frames
  Cap,       \* maxlen of the queue
  Ticks      \* bound: feedback frames of any plan

ASSUME SessionAssumption ==
  /\ Cap \in Nat \ {0} /\ Ticks \in Nat
  /\ Owner \notin Others /\ "stream" \notin {Owner} \cup Others

VARIABLES
  phase,     \* "new", "open", "closing", "closed"
  apply,     \* Connection._plant_apply
  queue,     \* FrameReader._frames
  stopping,  \* Connection._stream_stop
  latest,    \* _latest_fb_raw: its tick, and whether _hot_fb_gen counts it
  gen, hot,  \* _hot_fb_gen, and the one in _hot_stats
  th,        \* the stream and the callers
  tele,      \* the telemetry thread
  shown,     \* tick of the feedback in the TelemetryCache
  board,     \* plant_apply of the image the board took last
  tick,      \* feedback frames sent by the board
  asked,     \* bench frames written, and how many of them are answered
  plan,      \* calls still to be made
  ghost      \* replies callers took, replies a full queue lost, and whether
             \* another thread commanded the plant while the session closed

vars == <<phase, apply, queue, stopping, latest, gen, hot, th, tele, shown,
          board, tick, asked, plan, ghost>>

Callers == {Owner} \cup Others
Threads == Callers \cup {"stream"}

Fb(n)    == [kind |-> "fb", n |-> n]      \* HBHF
Reply(n) == [kind |-> "reply", n |-> n]   \* DBGF
NoFrame  == Fb(0)

\* The replies among some frames.
RepliesIn(s) == {s[i].n : i \in {j \in DOMAIN s : s[j].kind = "reply"}}

-----------------------------------------------------------------------------
(* Scripts. *)

\* Connection.send_once is "build", "write"; ControlsPcbHub.send_once polls
\* afterwards; start_streaming is "alive" to "spawn", with one warm-up of 3.
HubSend == <<"build", "write", "drain", "publish">>

Loop == <<"drain", "store", "build", "write", "stats">>

CloseMutated ==   \* the stream is stopped at once
  <<"disarm", "build", "write", "drain", "publish", "alive", "build", "write", "spawn",
    "stop", "join", "shut">>

Close ==
  <<"disarm", "build", "write", "drain", "publish", "alive", "build", "write", "spawn",
    "linger", "stop", "join", "shut">>

RpcMutated ==     \* the thread is not joined
  <<"pause", "ask", "poll", "resume", "alive", "build", "write", "spawn">>

\* pause_plant_stream around exchange_raw
Rpc == <<"pause", "join", "ask", "poll", "resume", "alive", "build", "write", "spawn">>

Script(call) ==
  CASE call = "open"       -> <<"disarm", "build", "write", "drain", "publish",
                                "alive", "build", "write", "spawn", "opened">>
    [] call = "open_armed" -> <<"build", "write", "build", "write", "arm", "build", "write",
                                "alive", "build", "write", "spawn", "opened">>
    [] call = "arm"        -> <<"arm", "build", "write", "drain", "publish">>
    [] call = "disarm"     -> <<"disarm", "build", "write", "drain", "publish">>
    [] call = "refresh"    -> HubSend          \* a turn of refresh_feedback
    [] call = "look"       -> <<"drain">>      \* latest_feedback
    [] call = "status"     -> <<"drain", "keep">>
    [] call = "rpc"        -> Rpc
    [] call = "close"      -> Close

Opens  == {"open", "open_armed"}
Shared == {"arm", "disarm", "refresh", "look", "status"}   \* what any thread calls

\* A session is closed once: the next one is another Connection.
ASSUME PlansAssumption ==
  \A p \in Plans :
    /\ p \in [frames : Nat, calls : [Callers -> Seq(Opens \cup Shared \cup {"rpc", "close"})]]
    /\ \A t \in Others : \A i \in 1..Len(p.calls[t]) : p.calls[t][i] \in Shared
    /\ \A i \in 1..(Len(p.calls[Owner]) - 1) : p.calls[Owner][i] # "close"

Idle == [todo |-> <<>>, img |-> FALSE, hold |-> <<>>, got |-> NoFrame, was |-> FALSE]

Init ==
  /\ phase = "new" /\ apply = TRUE /\ queue = <<>> /\ stopping = FALSE
  /\ latest = [n |-> 0, counted |-> FALSE] /\ gen = 0 /\ hot = 0
  /\ th = [t \in Threads |-> Idle]
  /\ tele = [pc |-> "off", last |-> -1, saw |-> 0, raw |-> 0]
  /\ shown = 0 /\ board = FALSE /\ tick = 0 /\ asked = [n |-> 0, answered |-> 0]
  /\ plan \in Plans
  /\ ghost = [taken |-> {}, lost |-> {}, crossed |-> FALSE]

At(t, step) == th[t].todo # <<>> /\ Head(th[t].todo) = step
Done(t)     == th' = [th EXCEPT ![t].todo = Tail(@)]
Skip(t, n)  == th' = [th EXCEPT ![t].todo = SubSeq(@, n + 1, Len(@))]

Streaming == th["stream"].todo # <<>>   \* Connection.is_streaming

-----------------------------------------------------------------------------
(* The queue. *)

\* A full deque drops a frame at its other end, whichever it is.
Feeds(f) ==
  /\ phase # "closed"
  /\ LET all == Append(queue, f)
         keep == SubSeq(all, Len(all) - (IF Len(all) > Cap THEN Cap ELSE Len(all)) + 1, Len(all))
     IN /\ queue' = keep
        /\ ghost' = [ghost EXCEPT !.lost = @ \cup (RepliesIn(all) \ RepliesIn(keep))]
  /\ UNCHANGED <<phase, apply, stopping, latest, gen, hot, th, tele, shown, board, plan>>

FeedsBack ==   \* the board reports
  /\ tick < plan.frames /\ tick' = tick + 1 /\ Feeds(Fb(tick + 1)) /\ UNCHANGED asked

Answers ==     \* the board answers the oldest bench frame
  /\ asked.answered < asked.n
  /\ asked' = [asked EXCEPT !.answered = @ + 1]
  /\ Feeds(Reply(asked.answered + 1)) /\ UNCHANGED tick

PopsMutated(t) ==   \* the drain of a stream that knows feedback only
  /\ At(t, "drain") /\ queue # <<>>
  /\ queue' = Tail(queue)
  /\ th' = [th EXCEPT ![t].got = IF Head(queue).kind = "fb" THEN Head(queue) ELSE @]
  /\ UNCHANGED <<phase, apply, stopping, latest, gen, hot, tele, shown, board, tick, asked, plan, ghost>>

\* _drain_latest_plant_feedback, one pop: the newest feedback is kept, what
\* is not feedback is held until the queue is empty.
Pops(t) ==
  /\ At(t, "drain") /\ queue # <<>>
  /\ queue' = Tail(queue)
  /\ th' = IF Head(queue).kind = "fb" THEN [th EXCEPT ![t].got = Head(queue)]
           ELSE [th EXCEPT ![t].hold = Append(@, Head(queue))]
  /\ UNCHANGED <<phase, apply, stopping, latest, gen, hot, tele, shown, board, tick, asked, plan, ghost>>

\* FrameReader.pop found nothing; push_front, under the lock of the queue.
\* Frames may have arrived since the pop.
PushesBack(t) ==
  LET all == th[t].hold \o queue
      keep == SubSeq(all, 1, IF Len(all) > Cap THEN Cap ELSE Len(all))
  IN /\ queue' = keep
     /\ ghost' = [ghost EXCEPT !.lost = @ \cup (RepliesIn(all) \ RepliesIn(keep))]
     /\ th' = [th EXCEPT ![t].todo = Tail(@), ![t].hold = <<>>]

Drains(t) ==   \* the empty pop
  /\ At(t, "drain") /\ queue = <<>>
  /\ th' = [th EXCEPT ![t].todo = (IF th[t].hold = <<>> THEN <<>> ELSE <<"push">>) \o Tail(@)]
  /\ UNCHANGED <<phase, apply, queue, stopping, latest, gen, hot, tele, shown, board, tick, asked, plan, ghost>>

Pushes(t) ==
  /\ At(t, "push") /\ PushesBack(t)
  /\ UNCHANGED <<phase, apply, stopping, latest, gen, hot, tele, shown, board, tick, asked, plan>>

-----------------------------------------------------------------------------
(* Commands. *)

Sets(t, step, on) ==   \* set_plant_apply
  /\ At(t, step) /\ Done(t) /\ apply' = on
  /\ ghost' = [ghost EXCEPT !.crossed = @ \/ (phase = "closing" /\ t # Owner)]
  /\ UNCHANGED <<phase, queue, stopping, latest, gen, hot, tele, shown, board, tick, asked, plan>>

Builds(t) ==   \* build_command, under _state_lock
  /\ At(t, "build")
  /\ th' = [th EXCEPT ![t].todo = Tail(@), ![t].img = apply]
  /\ UNCHANGED <<phase, apply, queue, stopping, latest, gen, hot, tele, shown, board, tick, asked, plan, ghost>>

\* write_raw, under _write_lock; on a closed port it raises, and so does
\* the call.
Writes(t) ==
  /\ At(t, "write")
  /\ IF phase = "closed"
     THEN th' = [th EXCEPT ![t] = Idle] /\ UNCHANGED <<board, ghost>>
     ELSE /\ Done(t) /\ board' = th[t].img
          /\ ghost' = [ghost EXCEPT !.crossed = @ \/ (phase = "closing" /\ t \in Others)]
  /\ UNCHANGED <<phase, apply, queue, stopping, latest, gen, hot, tele, shown, tick, asked, plan>>

Publishes(c) ==   \* publish_feedback of what was polled, if anything
  /\ At(c, "publish")
  /\ shown' = IF th[c].got = NoFrame THEN shown ELSE th[c].got.n
  /\ th' = [th EXCEPT ![c].todo = Tail(@), ![c].got = NoFrame]
  /\ UNCHANGED <<phase, apply, queue, stopping, latest, gen, hot, tele, board, tick, asked, plan, ghost>>

Keeps(c) ==   \* pdb_status: stored, not counted
  /\ At(c, "keep")
  /\ latest' = IF th[c].got = NoFrame THEN latest ELSE [n |-> th[c].got.n, counted |-> FALSE]
  /\ th' = [th EXCEPT ![c].todo = Tail(@), ![c].got = NoFrame]
  /\ UNCHANGED <<phase, apply, queue, stopping, gen, hot, tele, shown, board, tick, asked, plan, ghost>>

-----------------------------------------------------------------------------
(* Bench calls. *)

\* is_streaming is read before stop_streaming is called.
Pauses(c) ==
  /\ At(c, "pause")
  /\ th' = [th EXCEPT ![c].todo = IF Streaming THEN Tail(@) ELSE Tail(Tail(@)),
                      ![c].was = Streaming]
  /\ stopping' = (stopping \/ Streaming)
  /\ UNCHANGED <<phase, apply, queue, latest, gen, hot, tele, shown, board, tick, asked, plan, ghost>>

BenchWrites(c) ==   \* exchange_raw, the frame
  /\ At(c, "ask") /\ Done(c) /\ asked' = [asked EXCEPT !.n = @ + 1]
  /\ UNCHANGED <<phase, apply, queue, stopping, latest, gen, hot, tele, shown, board, tick, plan, ghost>>

\* exchange_raw, a pop: a frame that does not parse is gone.
Polls(c) ==
  /\ At(c, "poll") /\ queue # <<>>
  /\ queue' = Tail(queue)
  /\ IF Head(queue).kind = "reply"
     THEN Done(c) /\ ghost' = [ghost EXCEPT !.taken = @ \cup {Head(queue).n}]
     ELSE UNCHANGED <<th, ghost>>
  /\ UNCHANGED <<phase, apply, stopping, latest, gen, hot, tele, shown, board, tick, asked, plan>>

TimesOut(c) ==
  /\ At(c, "poll") /\ Done(c)
  /\ UNCHANGED <<phase, apply, queue, stopping, latest, gen, hot, tele, shown, board, tick, asked, plan, ghost>>

Resumes(c) ==
  /\ At(c, "resume")
  /\ IF th[c].was THEN Done(c) ELSE Skip(c, 5)
  /\ UNCHANGED <<phase, apply, queue, stopping, latest, gen, hot, tele, shown, board, tick, asked, plan, ghost>>

-----------------------------------------------------------------------------
(* Starting and stopping the stream. *)

StartsUnlessAlive(c) ==   \* start_streaming
  /\ At(c, "alive")
  /\ IF Streaming
     THEN Skip(c, 4) /\ UNCHANGED <<stopping, latest, gen, hot>>
     ELSE /\ Done(c) /\ stopping' = FALSE
          /\ latest' = [n |-> 0, counted |-> FALSE] /\ gen' = 0 /\ hot' = 0
  /\ UNCHANGED <<phase, apply, queue, tele, shown, board, tick, asked, plan, ghost>>

Spawns(c) ==   \* both threads; the stream begins at its loop condition
  /\ At(c, "spawn")
  /\ th' = [th EXCEPT ![c].todo = Tail(@), !["stream"] = [Idle EXCEPT !.todo = <<"stats">>]]
  /\ tele' = [pc |-> "look", last |-> -1, saw |-> 0, raw |-> 0]
  /\ UNCHANGED <<phase, apply, queue, stopping, latest, gen, hot, shown, board, tick, asked, plan, ghost>>

\* 0.25 s, longer than a round of the stream: the image it may have built
\* before is written, and one built since.
Lingers(c) ==
  /\ At(c, "linger") /\ (Streaming => th["stream"].img = apply) /\ Done(c)
  /\ UNCHANGED <<phase, apply, queue, stopping, latest, gen, hot, tele, shown, board, tick, asked, plan, ghost>>

Stops(c) ==   \* stop_streaming
  /\ At(c, "stop") /\ Done(c) /\ stopping' = TRUE
  /\ UNCHANGED <<phase, apply, queue, latest, gen, hot, tele, shown, board, tick, asked, plan, ghost>>

Joins(c) ==   \* a write to the port takes less than the 2 s of the join
  /\ At(c, "join") /\ ~Streaming /\ tele.pc = "off" /\ Done(c)
  /\ UNCHANGED <<phase, apply, queue, stopping, latest, gen, hot, tele, shown, board, tick, asked, plan, ghost>>

Shuts(c) ==   \* ControlsPcbHub.close, Connection.close
  /\ At(c, "shut") /\ Done(c) /\ phase' = "closed"
  /\ UNCHANGED <<apply, queue, stopping, latest, gen, hot, tele, shown, board, tick, asked, plan, ghost>>

Opened(c) ==   \* HostProxy.connect returns
  /\ At(c, "opened") /\ Done(c) /\ phase' = "open"
  /\ UNCHANGED <<apply, queue, stopping, latest, gen, hot, tele, shown, board, tick, asked, plan, ghost>>

Calls(c) ==
  /\ th[c].todo = <<>> /\ plan.calls[c] # <<>>
  /\ LET call == Head(plan.calls[c]) IN
       /\ call \in Opens <=> phase = "new"
       /\ th' = [th EXCEPT ![c] = [Idle EXCEPT !.todo = Script(call)]]
       /\ phase' = IF call = "close" THEN "closing" ELSE phase
  /\ plan' = [plan EXCEPT !.calls[c] = Tail(@)]
  /\ UNCHANGED <<apply, queue, stopping, latest, gen, hot, tele, shown, board, tick, asked, ghost>>

Caller(c) ==
  \/ Calls(c) \/ Sets(c, "arm", TRUE) \/ Sets(c, "disarm", FALSE)
  \/ Builds(c) \/ Writes(c) \/ Pops(c) \/ Drains(c) \/ Pushes(c) \/ Publishes(c) \/ Keeps(c)
  \/ Pauses(c) \/ BenchWrites(c) \/ Polls(c) \/ TimesOut(c) \/ Resumes(c)
  \/ StartsUnlessAlive(c) \/ Spawns(c) \/ Lingers(c) \/ Stops(c) \/ Joins(c)
  \/ Shuts(c) \/ Opened(c)

-----------------------------------------------------------------------------
(* The stream thread. *)

Stores ==
  /\ At("stream", "store")
  /\ th' = [th EXCEPT !["stream"].todo = Tail(@), !["stream"].got = NoFrame]
  /\ IF th["stream"].got = NoFrame THEN UNCHANGED <<latest, gen>>
     ELSE latest' = [n |-> th["stream"].got.n, counted |-> TRUE] /\ gen' = gen + 1
  /\ UNCHANGED <<phase, apply, queue, stopping, hot, tele, shown, board, tick, asked, plan, ghost>>

EndsRound ==   \* _hot_stats, then the next round or none
  /\ At("stream", "stats")
  /\ hot' = gen
  /\ th' = [th EXCEPT !["stream"].todo = IF stopping THEN <<>> ELSE Loop]
  /\ UNCHANGED <<phase, apply, queue, stopping, latest, gen, tele, shown, board, tick, asked, plan, ghost>>

Stream ==
  \/ Pops("stream") \/ Drains("stream") \/ Pushes("stream") \/ Stores
  \/ Builds("stream") \/ Writes("stream") \/ EndsRound

-----------------------------------------------------------------------------
(* The telemetry thread. *)

Looks ==   \* the loop condition and the read of _hot_stats
  /\ tele.pc = "look"
  /\ tele' = IF stopping THEN [tele EXCEPT !.pc = "off"]
             ELSE [tele EXCEPT !.pc = "raw", !.saw = hot]
  /\ UNCHANGED <<phase, apply, queue, stopping, latest, gen, hot, th, shown, board, tick, asked, plan, ghost>>

Samples ==   \* the read of _latest_fb_raw; nothing new: touch_age
  /\ tele.pc = "raw"
  /\ tele' = IF latest.n # 0 /\ tele.saw # tele.last
             THEN [tele EXCEPT !.pc = "publish", !.raw = latest.n]
             ELSE [tele EXCEPT !.pc = "look"]
  /\ UNCHANGED <<phase, apply, queue, stopping, latest, gen, hot, th, shown, board, tick, asked, plan, ghost>>

TelePublishesMutated ==   \* the count is read anew
  /\ tele.pc = "publish" /\ shown' = tele.raw
  /\ tele' = [tele EXCEPT !.pc = "look", !.last = hot]
  /\ UNCHANGED <<phase, apply, queue, stopping, latest, gen, hot, th, board, tick, asked, plan, ghost>>

TelePublishes ==
  /\ tele.pc = "publish" /\ shown' = tele.raw
  /\ tele' = [tele EXCEPT !.pc = "look", !.last = tele.saw]
  /\ UNCHANGED <<phase, apply, queue, stopping, latest, gen, hot, th, board, tick, asked, plan, ghost>>

Telemetry == Looks \/ Samples \/ TelePublishes

Next ==
  \/ \E c \in Callers : Caller(c)
  \/ Stream \/ Telemetry \/ FeedsBack \/ Answers

\* Every thread runs on; the board may fall silent.
Spec ==
  /\ Init /\ [][Next]_vars
  /\ \A c \in Callers : WF_vars(Caller(c))
  /\ WF_vars(Stream) /\ WF_vars(Telemetry)

-----------------------------------------------------------------------------
Held == UNION {RepliesIn(th[t].hold) : t \in Threads}

(* A reply to a bench call is never dropped by a thread that only wants     *)
(* feedback, however its drain meets the arrivals and the other drains: it  *)
(* is in the queue, put aside, taken, or was lost to a full queue           *)
(* (connection.py, _drain_latest_plant_feedback).                           *)
RepliesKept ==
  1..asked.answered = RepliesIn(queue) \cup Held \cup ghost.taken \cup ghost.lost

(* "Pause plant TX/FB drain around CFG / DEBUG exchange_raw calls": while a *)
(* paused call polls for its reply, the stream has none put aside and       *)
(* writes nothing (stream_pause.py).                                        *)
PausedIsQuiet ==
  \A c \in Callers : At(c, "poll") => ~Streaming

(* The last image before the port closes takes the plant out of control,    *)
(* whatever the stream had built before, unless another thread commanded    *)
(* the plant while the session was closing (host_proxy.py, close).          *)
ClosedIsIdle == phase = "closed" => ~board \/ ghost.crossed

Published(n) == tele.raw >= n /\ tele.pc # "publish"

(* The feedback the stream kept last is published, or a later one, although *)
(* the count and the image are read without a lock (connection.py,          *)
(* _telemetry_loop), unless the stream is stopped first or a status call    *)
(* put another image in its place.  It need not stay: a caller that polled  *)
(* an older one may publish it afterwards.                                  *)
ShownCatchesUp ==
  \A n \in 1..Ticks :
    (latest = [n |-> n, counted |-> TRUE]) ~> (Published(n) \/ latest.n # n \/ stopping)

-----------------------------------------------------------------------------
(* The inductive invariant behind the three above. *)

Frame  == [kind : {"fb", "reply"}, n : Nat]
Common == {"arm", "disarm", "build", "write", "drain", "push", "publish", "keep"}
Steps  == Common \cup {"alive", "spawn", "opened", "pause", "join", "ask", "poll", "resume",
                       "linger", "stop", "shut", "store", "stats"}
Thread == [todo : Seq(Steps), img : BOOLEAN, hold : Seq(Frame), got : Frame, was : BOOLEAN]

TypeOK ==
  /\ phase \in {"new", "open", "closing", "closed"}
  /\ apply \in BOOLEAN /\ board \in BOOLEAN /\ stopping \in BOOLEAN
  /\ queue \in Seq(Frame) /\ tick \in Nat /\ th \in [Threads -> Thread]
  /\ asked \in [n : Nat, answered : Nat]
  /\ plan \in [frames : Nat, calls : [Callers -> Seq(Opens \cup Shared \cup {"rpc", "close"})]]
  /\ ghost \in [taken : SUBSET Nat, lost : SUBSET Nat, crossed : BOOLEAN]

\* Only a drain puts replies aside.
HoldInv == \A t \in Threads : th[t].hold # <<>> => At(t, "drain") \/ At(t, "push")

\* Who takes which steps, and what follows what in a script.
OthersInv ==
  \A t \in Others :
    /\ \A i \in 1..Len(th[t].todo) : th[t].todo[i] \in Common
    /\ \A i \in 1..Len(plan.calls[t]) : plan.calls[t][i] \in Shared

Round(s) ==
  /\ \A i \in 1..Len(s) : s[i] \in {"drain", "push", "store", "build", "write", "stats"}
  /\ s # <<>> => s[Len(s)] = "stats"
  /\ \A i \in 1..Len(s) : s[i] = "build" => i + 1 <= Len(s) /\ s[i + 1] = "write"

StreamInv == Round(th["stream"].todo)

Ordered(s, at) ==   \* at: the phase
  \A i \in 1..Len(s) :
    /\ s[i] \notin {"store", "stats"}
    /\ s[i] = "alive" => i + 3 <= Len(s) /\ s[i + 3] = "spawn"
    /\ s[i] = "spawn" /\ i > 1 => s[i - 1] = "write"
    /\ s[i] = "spawn" => (i > 3 => s[i - 3] = "alive") /\ \A j \in 1..Len(s) : s[j] = "spawn" => j = i
    /\ s[i] \in {"pause", "stop"} => i + 1 <= Len(s) /\ s[i + 1] = "join"
    /\ s[i] = "ask" /\ i > 1 => s[i - 1] = "join"
    /\ s[i] = "poll" /\ i > 1 => s[i - 1] = "ask"
    /\ s[i] = "resume" => i + 1 <= Len(s) /\ s[i + 1] = "alive"
    /\ s[i] \in {"linger", "stop", "shut"} => at = "closing"

\* The opener's thread has found no stream, and starts one.
Starting(s) == \E i \in 1..Len(s) : i <= 3 /\ s[i] = "spawn"

OwnerInv ==
  /\ Ordered(th[Owner].todo, phase)
  /\ \A i \in 1..(Len(plan.calls[Owner]) - 1) : plan.calls[Owner][i] # "close"
  /\ Starting(th[Owner].todo) => ~Streaming /\ ~stopping
  /\ At(Owner, "ask") \/ At(Owner, "poll") => ~Streaming
  /\ Streaming /\ stopping => At(Owner, "join")

\* What closing has reached with n steps left, if nobody else commands.
Reached(n) ==
  /\ n < 13 => ~apply
  /\ n \in {6, 11} => ~th[Owner].img
  /\ n < 11 /\ board => Streaming /\ (th["stream"].img \/ At("stream", "write"))
  /\ n \in {3, 4} => Streaming /\ ~stopping
  /\ n < 4 => ~th["stream"].img

ClosingInv ==
  LET s == th[Owner].todo
      n == Len(s)
  IN /\ phase = "closing" =>
          /\ n \in 1..13 /\ plan.calls[Owner] = <<>>
          /\ \A i \in 1..n : s[i] = Close[13 - n + i] \/ (i = 1 /\ n = 10 /\ s[i] = "push")
          /\ n = 1 => ~Streaming
          /\ ~ghost.crossed => Reached(n)
     /\ phase = "closed" =>
          ~Streaming /\ s = <<>> /\ plan.calls[Owner] = <<>> /\ (board => ghost.crossed)

IInv ==
  TypeOK /\ HoldInv /\ OthersInv /\ StreamInv /\ OwnerInv /\ ClosingInv /\ RepliesKept
=============================================================================
