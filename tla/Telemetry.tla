----------------------------- MODULE Telemetry ------------------------------
(***************************************************************************)
(* What a session leaves on disk: TelemetryCache, FaultRecorder and the    *)
(* one disk thread of SessionDiskWriter.                                   *)
(*                                                                         *)
(* Snapshots of the state are coalesced in one slot that the disk thread   *)
(* empties at its own pace; recordings, fault dumps and flushes go through *)
(* a queue.  Feedback is observed by the thread of                         *)
(* Connection._telemetry_loop and by every request that sends and polls    *)
(* (send_once, refresh_feedback, a park), two at a time if it so happens:  *)
(* the lock of the cache covers the snapshot of an observation but neither *)
(* the fault ring, nor the recorded line, nor the publication.             *)
(***************************************************************************)
EXTENDS Integers, Sequences, FiniteSets, SequencesExt

CONSTANTS
  Callers,   \* handlers and scripts that call the cache
  Mixes,     \* calls and events a behaviour has: how often each
  MaxClock,  \* seconds the names of recordings range over
  Ring,      \* ring_size
  Post,      \* post_fault_ticks
  Grace      \* startup_grace_s

ASSUME TelemetryAssumption ==
  /\ Ring \in Nat \ {0} /\ Post \in Nat \ {0} /\ Grace \in Nat /\ MaxClock \in Nat
  /\ {"none", "stream"} \cap Callers = {}

VARIABLES
  clock,      \* seconds
  lock,       \* TelemetryCache._lock
  conn,       \* SessionState.connected
  streaming,  \* the telemetry thread runs
  flag,       \* FaultRecorder._recording
  feed,       \* frames read so far, and the latest image of the stream
  reader,     \* the observers, and the feedback each carries
  fr,         \* ring, observations, capture, last readings and start of FaultRecorder
  pubs,       \* snapshots published so far
  slot,       \* _pending_state
  q,          \* SessionDiskWriter._q
  disk,       \* the disk thread: where it is, the job it holds, the open file
  files,      \* lines of the recording of each second
  shown,      \* state.json
  dumps,      \* fault dumps written
  todo,       \* steps each caller still has to take
  carry,      \* the snapshot a flush has taken out of the slot
  left,       \* calls that may still be made
  ghost       \* what the properties compare with

cache == <<lock, conn, streaming, flag, fr>>
obs   == <<feed, reader>>
out   == <<files, shown, dumps>>
vars  == <<clock, cache, obs, pubs, slot, q, disk, out, todo, carry, left, ghost>>

Stream    == "stream"                      \* the telemetry thread
Observers == {Stream} \cup Callers

None   == [pub |-> 0, conn |-> FALSE]       \* no snapshot
NoFb   == [n |-> 0, bad |-> FALSE]
NoDump == [lines |-> <<>>, left |-> 0, trig |-> 0, solo |-> FALSE]
Idle   == [pc |-> "idle", fb |-> NoFb, snap |-> None, at |-> 0, mine |-> NoDump]
Nobody == "none"
Closed == -1

Events == {"fb", "poll", "bad", "second", "break"}   \* what is not called
Names  == {"connect", "disconnect", "record_start", "record_stop", "log", "clear", "close"}

ASSUME MixesAssumption == \A m \in Mixes : DOMAIN m \subseteq Names \cup Events

Init ==
  /\ clock = 0 /\ lock = Nobody /\ conn = FALSE /\ streaming = FALSE /\ flag = FALSE
  /\ feed = [n |-> 0, latest |-> NoFb] /\ reader = [o \in Observers |-> Idle]
  /\ fr = [ring |-> <<>>, seq |-> 0, cap |-> NoDump, last |-> FALSE, since |-> Closed]
  /\ pubs = 0 /\ slot = None /\ q = <<>>
  /\ disk = [pc |-> "drain", job |-> None, file |-> Closed]
  /\ files = [s \in 0..MaxClock |-> <<>>] /\ shown = None /\ dumps = {}
  /\ todo = [c \in Callers |-> <<>>] /\ carry = [c \in Callers |-> None] /\ left \in Mixes
  /\ ghost = [top |-> 0, opens |-> [s \in 0..MaxClock |-> 0], took |-> <<>>,
              last |-> Closed, want |-> [c \in Callers |-> [nth |-> 0, pub |-> 0, path |-> Closed, lines |-> <<>>]],
              kept |-> [c \in Callers |-> FALSE]]

-----------------------------------------------------------------------------
May(e) == e \in DOMAIN left /\ left[e] > 0
Spend(S) == left' = [e \in DOMAIN left |-> IF e \in S THEN left[e] - 1 ELSE left[e]]

(* Jobs of the queue, and the slot. *)

Open(p)   == [k |-> "open", path |-> p]
\* of and nth say which line of which recording it is, for the comparison.
Line(n)   == [k |-> "line", n |-> n, of |-> ghost.last, nth |-> Len(ghost.took) + 1]
Close     == [k |-> "close"]
Dump(d)   == [k |-> "dump", lines |-> d.lines, trig |-> d.trig, solo |-> d.solo]
State(s)  == [k |-> "state", snap |-> s]
Token(c)  == [k |-> "token", of |-> c, nth |-> ghost.want[c].nth]

Publish(s) ==   \* publish_state: the latest call wins
  /\ pubs' = pubs + 1 /\ slot' = [s EXCEPT !.pub = pubs + 1]

Publishes == Publish([None EXCEPT !.conn = conn])

-----------------------------------------------------------------------------
(* Calls: the steps of each, the lock held from the first to the publish.  *)

ProgramMutated(name) ==   \* flushed before it is closed
  CASE name = "connect"      -> <<"lock", "enter", "publish", "start">>
    [] name = "disconnect"   -> <<"halt", "lock", "shut", "unmark", "leave", "publish">>
    [] name = "record_start" -> <<"lock", "open", "mark", "publish">>
    [] name = "record_stop"  -> <<"promote", "put", "token", "await", "lock", "shut", "unmark", "publish">>
    [] name = "log"          -> <<"check", "line">>
    [] name = "clear"        -> <<"lock", "ring", "capture", "last", "publish">>
    [] name = "close"        -> <<"lock", "shut", "unmark", "unlock", "shut", "unmark">>

Program(name) ==
  CASE name = "connect"      -> <<"lock", "enter", "publish", "start">>
    [] name = "disconnect"   -> <<"halt", "lock", "shut", "unmark", "leave", "publish">>
    [] name = "record_start" -> <<"lock", "open", "mark", "publish">>
    [] name = "record_stop"  -> <<"lock", "shut", "unmark", "publish", "promote", "put", "token", "await">>
    [] name = "log"          -> <<"check", "line">>
    [] name = "clear"        -> <<"lock", "ring", "capture", "last", "publish">>
    [] name = "close"        -> <<"lock", "shut", "unmark", "unlock", "shut", "unmark">>

AppLocked ==   \* AppState._lock is held through connect and disconnect
  \E c \in Callers : \E i \in DOMAIN todo[c] : todo[c][i] \in {"enter", "start", "halt", "leave"}

Calls(c, name) ==
  /\ todo[c] = <<>> /\ reader[c].pc = "idle" /\ May(name)
  /\ name \in {"connect", "disconnect"} => ~AppLocked /\ (conn <=> name = "disconnect")
  /\ todo' = [todo EXCEPT ![c] = Program(name)] /\ Spend({name})
  /\ ghost' = [ghost EXCEPT !.kept[c] = FALSE, !.want[c].path = Closed, !.want[c].nth = @ + 1]
  /\ UNCHANGED <<clock, cache, obs, pubs, slot, q, disk, out, carry>>

At(c, step) == todo[c] # <<>> /\ Head(todo[c]) = step
Then(c)     == todo' = [todo EXCEPT ![c] = Tail(@)]
Return(c)   == todo' = [todo EXCEPT ![c] = <<>>]

Locks(c) ==
  /\ At(c, "lock") /\ lock = Nobody /\ lock' = c /\ Then(c)
  /\ UNCHANGED <<clock, conn, streaming, flag, fr, obs, pubs, slot, q, disk, out, carry, left, ghost>>

Unlocks(c) ==
  /\ \/ At(c, "publish") /\ Publishes
     \/ At(c, "unlock") /\ UNCHANGED <<pubs, slot>>
  /\ lock' = Nobody /\ Then(c)
  /\ UNCHANGED <<clock, conn, streaming, flag, fr, obs, q, disk, out, carry, left, ghost>>

Connects(c) ==   \* set_connected
  /\ \/ At(c, "enter") /\ conn' = TRUE
     \/ At(c, "leave") /\ conn' = FALSE
  /\ Then(c)
  /\ UNCHANGED <<clock, lock, streaming, flag, fr, obs, pubs, slot, q, disk, out, carry, left, ghost>>

Starts(c) ==   \* start_streaming forgets the image of before
  /\ At(c, "start") /\ streaming' = conn /\ feed' = [feed EXCEPT !.latest = NoFb] /\ Then(c)
  /\ UNCHANGED <<clock, lock, conn, flag, fr, reader, pubs, slot, q, disk, out, carry, left, ghost>>

Halts(c) ==   \* stop_streaming: the thread is joined
  /\ At(c, "halt") /\ reader[Stream].pc = "idle" /\ streaming' = FALSE /\ Then(c)
  /\ UNCHANGED <<clock, lock, conn, flag, fr, obs, pubs, slot, q, disk, out, carry, left, ghost>>

(* start_recording and stop_recording queue first and set the flag then.   *)
(* The file is named by the second it is started in.                       *)
Opens(c) ==
  /\ At(c, "open")
  /\ IF flag THEN todo' = [todo EXCEPT ![c] = Tail(Tail(@))] /\ UNCHANGED <<q, ghost>>
     ELSE /\ q' = Append(q, Open(clock)) /\ Then(c)
          /\ ghost' = [ghost EXCEPT !.opens[clock] = @ + 1, !.took = <<>>, !.last = clock]
  /\ UNCHANGED <<clock, cache, obs, pubs, slot, disk, out, carry, left>>

Shuts(c) ==
  /\ At(c, "shut")
  /\ IF ~flag THEN todo' = [todo EXCEPT ![c] = Tail(Tail(@))] /\ UNCHANGED <<q, ghost>>
     ELSE /\ q' = Append(q, Close) /\ Then(c)
          /\ ghost' = [ghost EXCEPT !.want[c].path = ghost.last, !.want[c].lines = ghost.took,
                                    !.last = Closed, !.took = <<>>]
  /\ UNCHANGED <<clock, cache, obs, pubs, slot, disk, out, carry, left>>

Marks(c) ==
  /\ \/ At(c, "mark") /\ flag' = TRUE
     \/ At(c, "unmark") /\ flag' = FALSE
  /\ Then(c)
  /\ UNCHANGED <<clock, lock, conn, streaming, fr, obs, pubs, slot, q, disk, out, carry, left, ghost>>

(* The line of a feedback, on the way to the queue: the check is not       *)
(* repeated.  A line that finds no recording open is dropped.              *)
Recorded(n) ==
  /\ q' = Append(q, Line(n))
  /\ ghost' = IF ghost.last = Closed THEN ghost ELSE [ghost EXCEPT !.took = Append(@, n)]

Logs(c) ==   \* log_feedback of a script, with the latest image of the stream
  /\ \/ /\ At(c, "check") /\ UNCHANGED <<q, ghost>>
        /\ IF flag /\ feed.latest.n > 0 THEN Then(c) /\ reader' = [reader EXCEPT ![c].fb = feed.latest]
           ELSE Return(c) /\ UNCHANGED reader
     \/ At(c, "line") /\ Recorded(reader[c].fb.n) /\ Then(c) /\ reader' = [reader EXCEPT ![c].fb = NoFb]
  /\ UNCHANGED <<clock, cache, feed, pubs, slot, disk, out, carry, left>>

Clears(c) ==   \* FaultRecorder.clear, while observe runs without the lock
  /\ \/ At(c, "ring") /\ fr' = [fr EXCEPT !.ring = <<>>]
     \/ At(c, "capture") /\ fr' = [fr EXCEPT !.cap = NoDump]
     \/ At(c, "last") /\ fr' = [fr EXCEPT !.last = FALSE]
  /\ Then(c)
  /\ UNCHANGED <<clock, lock, conn, streaming, flag, obs, pubs, slot, q, disk, out, carry, left, ghost>>

Owed == IF \E c \in Callers : carry[c] # None THEN 0 ELSE pubs

PromotesMutated(c) ==   \* the slot is left alone
  /\ At(c, "promote") /\ Then(c)
  /\ ghost' = [ghost EXCEPT !.want[c].pub = Owed]
  /\ UNCHANGED <<clock, cache, obs, pubs, slot, q, disk, out, carry, left>>

(* flush: the snapshot in the slot is moved to the queue, then the token.  *)
Promotes(c) ==
  /\ At(c, "promote") /\ Then(c)
  /\ slot' = None /\ carry' = [carry EXCEPT ![c] = slot]
  /\ ghost' = [ghost EXCEPT !.want[c].pub = Owed]
  /\ UNCHANGED <<clock, cache, obs, pubs, q, disk, out, left>>

Puts(c) ==
  /\ At(c, "put") /\ Then(c)
  /\ q' = IF carry[c] = None THEN q ELSE Append(q, State(carry[c]))
  /\ carry' = [carry EXCEPT ![c] = None]
  /\ UNCHANGED <<clock, cache, obs, pubs, slot, disk, out, left, ghost>>

Tokens(c) ==
  /\ At(c, "token") /\ Then(c)
  /\ q' = Append(q, Token(c))
  /\ UNCHANGED <<clock, cache, obs, pubs, slot, disk, out, carry, left, ghost>>

(* The token was set, or two seconds are over: nobody looks which.         *)
Awaits(c) ==
  /\ At(c, "await") /\ Then(c)
  /\ UNCHANGED <<clock, cache, obs, pubs, slot, q, disk, out, carry, left, ghost>>

Caller(c) ==
  \/ \E name \in DOMAIN left \ Events : Calls(c, name)
  \/ Locks(c) \/ Unlocks(c) \/ Connects(c) \/ Starts(c) \/ Halts(c) \/ Opens(c) \/ Shuts(c) \/ Marks(c)
  \/ Logs(c) \/ Clears(c) \/ Promotes(c) \/ Puts(c) \/ Tokens(c) \/ Awaits(c)

-----------------------------------------------------------------------------
(* The observers: update_from_feedback.  A frame is read by one of them;   *)
(* only the telemetry thread may come upon the same image again.           *)

Goes(o, pc) == reader' = [reader EXCEPT ![o].pc = pc]

Polls(o) ==
  /\ reader[o].pc = "idle" /\ IF o = Stream THEN streaming ELSE conn /\ todo[o] = <<>>
  /\ \/ \E bad \in {FALSE} \cup {b \in {TRUE} : May("bad")} :
          LET fb  == [n |-> feed.n + 1, bad |-> bad]
              new == IF o = Stream THEN "fb" ELSE "poll"
          IN /\ May(new) /\ Spend({new} \cup {e \in {"bad"} : bad})
             /\ feed' = [n |-> feed.n + 1, latest |-> IF o = Stream THEN fb ELSE feed.latest]
             /\ reader' = [reader EXCEPT ![o] = [Idle EXCEPT !.pc = "polled", !.fb = fb]]
     \/ /\ o = Stream /\ feed.latest.n > 0 /\ May("fb") /\ Spend({"fb"}) /\ UNCHANGED feed
        /\ reader' = [reader EXCEPT ![o] = [Idle EXCEPT !.pc = "polled", !.fb = feed.latest]]
  /\ UNCHANGED <<clock, cache, pubs, slot, q, disk, out, todo, carry, ghost>>

Snaps(o) ==   \* the state of before the feedback is observed
  /\ reader[o].pc = "polled" /\ lock = Nobody
  /\ reader' = [reader EXCEPT ![o].pc = "ring", ![o].snap.conn = conn]
  /\ UNCHANGED <<clock, cache, feed, pubs, slot, q, disk, out, todo, carry, left, ghost>>

(* From its append to the ring to its last look at the capture an observer *)
(* is inside observe, and reads _pending again at every step.  The lines   *)
(* of the ring are numbered in the order in which they reach it; a capture *)
(* is known by the line that triggered it.                                 *)

Inside(o) == reader[o].pc \in {"pend", "append", "count", "store", "test", "dump", "drop", "check", "arm"}
Alone(o)  == \A p \in Observers : Inside(p) => p = o

Tail2(s) == IF Len(s) > Ring THEN Tail(s) ELSE s

Rings(o) ==
  /\ reader[o].pc = "ring"
  /\ fr' = [fr EXCEPT !.ring = Tail2(Append(@, fr.seq + 1)), !.seq = @ + 1, !.cap.solo = @ /\ Alone(o),
                      !.since = IF @ = Closed THEN clock ELSE @]
  /\ reader' = [reader EXCEPT ![o].pc = "pend", ![o].at = fr.seq + 1]
  /\ UNCHANGED <<clock, lock, conn, streaming, flag, feed, pubs, slot, q, disk, out, todo, carry, left, ghost>>

Appends(o) ==   \* _pending.lines.append; None raises AttributeError
  /\ \/ /\ reader[o].pc = "pend" /\ UNCHANGED fr
        /\ Goes(o, IF fr.cap = NoDump THEN "check" ELSE "append")
     \/ /\ reader[o].pc = "append"
        /\ IF fr.cap = NoDump THEN Goes(o, "error") /\ UNCHANGED fr
           ELSE Goes(o, "count") /\ fr' = [fr EXCEPT !.cap.lines = Append(@, reader[o].at)]
  /\ UNCHANGED <<clock, lock, conn, streaming, flag, feed, pubs, slot, q, disk, out, todo, carry, left, ghost>>

(* _pending.remaining_ticks -= 1 reads and writes one object, which may    *)
(* have been replaced or counted down by another in between.               *)
Counts(o) ==
  /\ \/ /\ reader[o].pc = "count" /\ UNCHANGED fr
        /\ IF fr.cap = NoDump THEN Goes(o, "error")
           ELSE reader' = [reader EXCEPT ![o].pc = "store", ![o].mine = fr.cap]
     \/ /\ reader[o].pc = "store"
        /\ fr' = [fr EXCEPT !.cap.left = IF fr.cap.trig = reader[o].mine.trig THEN reader[o].mine.left - 1 ELSE @]
        /\ reader' = [reader EXCEPT ![o].pc = "test", ![o].mine = NoDump]
  /\ UNCHANGED <<clock, lock, conn, streaming, flag, feed, pubs, slot, q, disk, out, todo, carry, left, ghost>>

TestsMutated(o) ==   \* one feedback too many
  /\ reader[o].pc = "test"
  /\ Goes(o, IF fr.cap = NoDump THEN "error" ELSE IF fr.cap.left < 0 THEN "dump" ELSE "check")
  /\ UNCHANGED <<clock, cache, feed, pubs, slot, q, disk, out, todo, carry, left, ghost>>

Tests(o) ==   \* remaining_ticks <= 0, of what _pending is now
  /\ reader[o].pc = "test"
  /\ Goes(o, IF fr.cap = NoDump THEN "error" ELSE IF fr.cap.left <= 0 THEN "dump" ELSE "check")
  /\ UNCHANGED <<clock, cache, feed, pubs, slot, q, disk, out, todo, carry, left, ghost>>

Dumps(o) ==   \* _enqueue_pending_fault: read, set to None, queued as it then is
  /\ \/ /\ reader[o].pc = "dump" /\ UNCHANGED <<fr, q>>
        /\ reader' = [reader EXCEPT ![o].pc = "drop", ![o].mine = fr.cap]
     \/ /\ reader[o].pc = "drop" /\ LET d == reader[o].mine IN
             q' = IF d = NoDump THEN q ELSE Append(q, Dump(IF fr.cap.trig = d.trig THEN fr.cap ELSE d))
        /\ fr' = [fr EXCEPT !.cap = NoDump]
        /\ reader' = [reader EXCEPT ![o].pc = "check", ![o].mine = NoDump]
  /\ UNCHANGED <<clock, lock, conn, streaming, flag, feed, pubs, slot, disk, out, todo, carry, left, ghost>>

Faulted(o) == clock - fr.since >= Grace /\ reader[o].fb.bad /\ ~fr.last

(* _check_fault_transition.  solo says that nobody else is inside observe  *)
(* from the trigger of a capture on.                                       *)
Checks(o) ==
  /\ \/ /\ reader[o].pc = "check" /\ fr' = [fr EXCEPT !.last = reader[o].fb.bad]
        /\ Goes(o, IF Faulted(o) /\ fr.cap = NoDump THEN "arm" ELSE "flag")
     \/ /\ reader[o].pc = "arm" /\ Goes(o, "flag")
        /\ fr' = [fr EXCEPT !.cap = [lines |-> fr.ring, left |-> Post, trig |-> reader[o].at,
                                     solo |-> reader[o].at = fr.seq /\ Alone(o)]]
  /\ UNCHANGED <<clock, lock, conn, streaming, flag, feed, pubs, slot, q, disk, out, todo, carry, left, ghost>>

Flags(o) ==
  /\ reader[o].pc = "flag" /\ Goes(o, IF flag THEN "line" ELSE "publish")
  /\ UNCHANGED <<clock, cache, feed, pubs, slot, q, disk, out, todo, carry, left, ghost>>

Lines(o) ==
  /\ reader[o].pc = "line" /\ Goes(o, "publish") /\ Recorded(reader[o].fb.n)
  /\ UNCHANGED <<clock, cache, feed, pubs, slot, disk, out, todo, carry, left>>

Returns(o) == reader' = [reader EXCEPT ![o] = Idle]

Posts(o) ==   \* the recorder's status is taken under the lock, then the snapshot goes out
  /\ reader[o].pc = "publish" /\ lock = Nobody /\ Returns(o) /\ Publish(reader[o].snap)
  /\ UNCHANGED <<clock, cache, feed, q, disk, out, todo, carry, left, ghost>>

Errs(o) ==   \* the loop calls set_error; a request gets the exception
  /\ reader[o].pc = "error" /\ Returns(o)
  /\ IF o = Stream THEN lock = Nobody /\ Publishes ELSE UNCHANGED <<pubs, slot>>
  /\ UNCHANGED <<clock, cache, feed, q, disk, out, todo, carry, left, ghost>>

Observer(o) ==
  \/ Polls(o) \/ Snaps(o) \/ Rings(o) \/ Appends(o) \/ Counts(o) \/ Tests(o) \/ Dumps(o) \/ Checks(o)
  \/ Flags(o) \/ Lines(o) \/ Posts(o) \/ Errs(o)

-----------------------------------------------------------------------------
(* The disk thread. *)

Written(s) ==
  /\ shown' = s
  /\ ghost' = [ghost EXCEPT !.top = IF s.pub > @ THEN s.pub ELSE @]

Handles(j) ==
  /\ IF j.k = "state" THEN Written(j.snap) ELSE UNCHANGED shown
  /\ files' = CASE j.k = "open" -> [files EXCEPT ![j.path] = <<>>]
              [] j.k = "line" /\ disk.file # Closed -> [files EXCEPT ![disk.file] = Append(@, j.n)]
              [] OTHER -> files
  /\ dumps' = IF j.k = "dump" THEN dumps \cup {[lines |-> j.lines, trig |-> j.trig, solo |-> j.solo]} ELSE dumps
  /\ j.k = "token" => ghost' = [ghost EXCEPT !.kept[j.of] = @ \/ j.nth = ghost.want[j.of].nth]
  /\ j.k \notin {"state", "token"} => UNCHANGED ghost
  /\ disk' = [disk EXCEPT !.file = CASE j.k = "open" -> j.path [] j.k = "close" -> Closed [] OTHER -> @]

Drains ==
  /\ disk.pc = "drain" /\ q # <<>> /\ q' = Tail(q)
  /\ Handles(Head(q))
  /\ UNCHANGED <<clock, cache, obs, pubs, slot, todo, carry, left>>

Takes ==   \* _maybe_write_coalesced_state, once the period is over
  /\ disk.pc = "drain" /\ q = <<>> /\ slot # None
  /\ slot' = None /\ disk' = [disk EXCEPT !.pc = "write", !.job = slot]
  /\ UNCHANGED <<clock, cache, obs, pubs, q, out, todo, carry, left, ghost>>

Writes ==
  /\ disk.pc = "write" /\ Written(disk.job) /\ disk' = [disk EXCEPT !.pc = "wait", !.job = None]
  /\ UNCHANGED <<clock, cache, obs, pubs, slot, q, files, dumps, todo, carry, left>>

Waits ==
  /\ disk.pc = "drain" /\ q = <<>> /\ disk' = [disk EXCEPT !.pc = "wait"]
  /\ UNCHANGED <<clock, cache, obs, pubs, slot, q, out, todo, carry, left, ghost>>

Wakes ==
  /\ disk.pc = "wait" /\ disk' = [disk EXCEPT !.pc = "drain"]
  /\ UNCHANGED <<clock, cache, obs, pubs, slot, q, out, todo, carry, left, ghost>>

(* A write raises OSError: nothing catches it and the thread ends.         *)
Breaks ==
  /\ May("break") /\ Spend({"break"})
  /\ \/ disk.pc = "write" /\ UNCHANGED q
     \/ /\ disk.pc = "drain" /\ q # <<>> /\ Head(q).k \in {"open", "line", "dump", "state"}
        /\ q' = Tail(q)
  /\ disk' = [pc |-> "dead", job |-> None, file |-> disk.file]
  /\ UNCHANGED <<clock, cache, obs, pubs, slot, out, todo, carry, ghost>>

Disk == Drains \/ Takes \/ Writes \/ Waits \/ Wakes

Second ==
  /\ May("second") /\ Spend({"second"}) /\ clock < MaxClock /\ clock' = clock + 1
  /\ UNCHANGED <<cache, obs, pubs, slot, q, disk, out, todo, carry, ghost>>

Next ==
  \/ Second \/ Disk \/ Breaks
  \/ \E o \in Observers : Observer(o)
  \/ \E c \in Callers : Caller(c)

Spec == Init /\ [][Next]_vars

-----------------------------------------------------------------------------
(* When the token of a flush is set, the snapshot that was the latest when *)
(* flush was called, or a later one, has been on disk, unless another      *)
(* flush held it at that moment (persist.py, flush: "including any         *)
(* coalesced state snapshot pending right now").                           *)
FlushCovers == \A c \in Callers : ghost.kept[c] => ghost.top >= ghost.want[c].pub

(* When stop_recording has flushed, the file of the recording holds every  *)
(* line queued between its opening and its close, in order and no other,   *)
(* unless another recording was started in the same second (persist.py:    *)
(* "ordered, never dropped").                                              *)
RecordingComplete ==
  \A c \in Callers : LET w == ghost.want[c] IN
    ghost.kept[c] /\ w.path # Closed /\ ghost.opens[w.path] = 1 => files[w.path] = w.lines

Gapless(s) == \A i \in 1..(Len(s) - 1) : s[i + 1] = s[i] + 1

Full(d) ==
  /\ Gapless(d.lines) /\ d.lines[Len(d.lines)] = d.trig + Post
  /\ Len(d.lines) \in Post..(Ring + Post)

(* A fault dump is the observations up to its trigger, without a gap, and  *)
(* exactly the next Post, although clear runs between any two steps of the *)
(* observer and the observers take turns; only the part before the trigger *)
(* can be cleared away.  Nothing is said of a dump in whose window two     *)
(* observers were inside observe at once.                                  *)
DumpsWhole == \A d \in dumps : d.solo => Full(d)

-----------------------------------------------------------------------------
(* The inductive invariant behind DumpsWhole and FlushCovers. *)

Steps   == {"lock", "unlock", "publish", "enter", "leave", "start", "halt", "open", "shut", "mark",
            "unmark", "check", "line", "ring", "capture", "last", "promote", "put", "token",
            "await"}
Seconds == 0..MaxClock
Snap    == [pub : Nat, conn : BOOLEAN]
Job     == [k : {"open"}, path : Seconds] \cup [k : {"line"}, n : Nat, of : Seconds \cup {Closed}, nth : Nat] \cup [k : {"close"}]
           \cup [k : {"dump"}, lines : Seq(Nat), trig : Nat, solo : BOOLEAN] \cup [k : {"state"}, snap : Snap]
           \cup [k : {"token"}, of : Callers, nth : Nat]
Want    == [nth : Nat, pub : Nat, path : Seconds \cup {Closed}, lines : Seq(Nat)]
Fb      == [n : Nat, bad : BOOLEAN]
Capture == [lines : Seq(Nat), left : Int, trig : Nat, solo : BOOLEAN]
Reading == [pc : {"idle", "polled", "ring", "pend", "append", "count", "store", "test", "dump", "drop",
                  "check", "arm", "flag", "line", "publish", "error"},
            fb : Fb, snap : Snap, at : Nat, mine : Capture]
Faults  == [ring : Seq(Nat), seq : Nat, cap : Capture, last : BOOLEAN, since : Seconds \cup {Closed}]
Thread  == [pc : {"drain", "write", "wait", "dead"}, job : Snap,
            file : Seconds \cup {Closed}]
Ghosts  == [top : Nat, opens : [Seconds -> Nat], took : Seq(Nat), last : Seconds \cup {Closed},
            want : [Callers -> Want], kept : [Callers -> BOOLEAN]]

TypeOK ==
  /\ clock \in Seconds /\ lock \in Callers \cup {Nobody}
  /\ conn \in BOOLEAN /\ streaming \in BOOLEAN /\ flag \in BOOLEAN
  /\ feed \in [n : Nat, latest : Fb] /\ reader \in [Observers -> Reading]
  /\ fr \in Faults /\ disk \in Thread /\ ghost \in Ghosts
  /\ pubs \in Nat /\ slot \in Snap /\ q \in Seq(Job)
  /\ files \in [Seconds -> Seq(Nat)] /\ shown \in Snap /\ dumps \subseteq [lines : Seq(Nat), trig : Nat, solo : BOOLEAN]
  /\ todo \in [Callers -> Seq(Steps)] /\ carry \in [Callers -> Snap]
  /\ DOMAIN left \subseteq Names \cup Events

\* The ring has no gap and ends with the observation that came last.
RingOK(ring, n) == /\ Gapless(ring) /\ Len(ring) <= Ring
                   /\ ring # <<>> => ring[Len(ring)] = n

\* Of n observations a capture has one line of each since its trigger, the
\* one in progress, at pc, included from its append on and counted from its
\* count on.
CaptureOK(d, pc, n) ==
  LET seen == Post - d.left
  IN /\ d.left \in CASE pc \in {"dump", "drop"} -> {0} [] pc = "test" -> 0..Post [] OTHER -> 1..Post
     /\ n = d.trig + seen + (IF pc \in {"pend", "append", "count", "store"} THEN 1 ELSE 0)
     /\ Gapless(d.lines)
     /\ d.lines # <<>> => d.lines[Len(d.lines)] = IF pc \in {"pend", "append"} THEN n - 1 ELSE n
     /\ Len(d.lines) - seen \in IF pc \in {"count", "store"} THEN 1..(Ring + 1) ELSE 0..Ring

\* While observer o is inside, a capture that nobody else has touched is as
\* far as o is, and o carries what it is now.
CarriedOK(o) ==
  LET r == reader[o] IN
  /\ Alone(o) /\ r.at = fr.seq /\ CaptureOK(fr.cap, r.pc, fr.seq)
  /\ r.pc = "store" => r.mine.trig = fr.cap.trig /\ r.mine.left = fr.cap.left

SoloOK ==
  fr.cap.solo => /\ \A o \in Observers : Inside(o) => CarriedOK(o)
                 /\ (\A o \in Observers : ~Inside(o)) => CaptureOK(fr.cap, "idle", fr.seq)

Whole(d)    == d.solo => Full(d)
HeldOK      == \A o \in Observers : reader[o].pc = "drop" => Whole(reader[o].mine)
JobsFull(s) == \A i \in 1..Len(s) : s[i].k = "dump" => Whole(s[i])

DumpInv == RingOK(fr.ring, fr.seq) /\ SoloOK /\ HeldOK /\ DumpsWhole /\ JobsFull(q)

\* Where a flush stands in its script.
FlushOrdered(s) ==
  \A i \in 1..Len(s) :
    /\ s[i] = "promote" => i + 2 <= Len(s) /\ s[i + 1] = "put" /\ s[i + 2] = "token"
    /\ s[i] = "put" => i + 1 <= Len(s) /\ s[i + 1] = "token" /\ (i > 1 => s[i - 1] = "promote")
    /\ s[i] = "token" /\ i > 1 => s[i - 1] = "put"
    /\ s[i] = "open" => i + 1 <= Len(s) /\ s[i + 1] = "mark"
    /\ s[i] = "shut" => i + 1 <= Len(s) /\ s[i + 1] = "unmark"
    /\ \A j \in 1..Len(s) : s[i] = "token" /\ s[j] = "token" => i = j

Flushing(c) == \E i \in 1..Len(todo[c]) : todo[c][i] = "token"

\* Snapshot p, or a later one, has been on disk or is written before what
\* follows the first m jobs is handled, if that ever is.
Covered(p, m) ==
  \/ p <= ghost.top \/ p <= disk.job.pub \/ disk.pc = "dead"
  \/ \E i \in 1..m : q[i].k = "state" /\ p <= q[i].snap.pub

\* The snapshot published last is not lost.
LatestKept ==
  Covered(pubs, Len(q)) \/ slot.pub = pubs \/ \E c \in Callers : carry[c].pub = pubs

\* What was owed when c called flush is covered before its token is handled.
FlushOK(c) ==
  LET w == ghost.want[c] IN
  /\ FlushOrdered(todo[c])
  /\ carry[c] # None => At(c, "put")
  /\ At(c, "put") => Covered(w.pub, Len(q)) \/ carry[c].pub = w.pub
  /\ At(c, "token") => Covered(w.pub, Len(q))
  /\ \A i \in 1..Len(q) : q[i].k = "token" /\ q[i].of = c =>
       q[i].nth <= w.nth /\ (q[i].nth = w.nth => Covered(w.pub, i - 1) /\ ~Flushing(c))
  /\ ghost.kept[c] => ~Flushing(c) /\ ghost.top >= w.pub

FlushInv ==
  /\ disk.pc # "write" => disk.job.pub = 0
  /\ LatestKept /\ \A c \in Callers : FlushOK(c)

IInv == TypeOK /\ DumpInv /\ FlushInv

-----------------------------------------------------------------------------
(* What RecordingComplete needs besides: who is owed which lines by the    *)
(* queue, and that the queue opens and closes around them.                 *)

Switches(j)  == j.k \in {"open", "close"}   \* jobs that change the open file
Leaves(j)    == IF j.k = "open" THEN j.path ELSE Closed
IsLine(j, p) == j.k = "line" /\ j.of = p
IsOpen(j, p) == j.k = "open" /\ j.path = p
IsToken(j, c, n) == j.k = "token" /\ j.of = c /\ j.nth = n

\* With this queue and this open file, p is open in front of the i-th job.
InFront(s, file, p, i) ==
  /\ (\A j \in 1..(i - 1) : ~Switches(s[j])) => file = p
  /\ \A j \in 1..(i - 1) :
       Switches(s[j]) /\ (\A m \in (j + 1)..(i - 1) : ~Switches(s[m])) => Leaves(s[j]) = p

\* Each line finds the file open that it was queued for; the queue leaves last open.
Placed(s, file, last) ==
  /\ InFront(s, file, last, Len(s) + 1)
  /\ \A i \in 1..Len(s) : s[i].k = "line" => InFront(s, file, s[i].of, i)

\* Of the lines for p the file has the first, f, and the queue the others, in order.
Owes(s, f, p, lines) ==
  /\ Len(f) <= Len(lines) /\ \A k \in 1..Len(f) : f[k] = lines[k]
  /\ \A i \in 1..Len(s) : IsLine(s[i], p) => s[i].nth > Len(f) /\ s[i].nth <= Len(lines)
                                               /\ s[i].n = lines[s[i].nth]
  /\ \A i, j \in 1..Len(s) : i < j /\ IsLine(s[i], p) /\ IsLine(s[j], p) => s[i].nth < s[j].nth
  /\ \A k \in 1..Len(lines) : k > Len(f) => \E i \in 1..Len(s) : IsLine(s[i], p) /\ s[i].nth = k

\* A file that is opened once is empty until then.
OpensOnce(s, f, file, p) ==
  \A i \in 1..Len(s) : IsOpen(s[i], p) =>
    f = <<>> /\ file # p /\ \A j \in 1..Len(s) : IsOpen(s[j], p) => i = j

Without(s, p)     == \A i \in 1..Len(s) : ~IsLine(s[i], p) /\ ~IsOpen(s[i], p)
Behind(s, p, c, n) == \A i, j \in 1..Len(s) : i < j /\ IsToken(s[i], c, n) => ~IsLine(s[j], p)

Handling == disk.pc # "dead"
Once(p)  == p # Closed /\ ghost.opens[p] = 1

Untouched(p) ==   \* no recording of that second was started
  /\ files[p] = <<>> /\ disk.file # p /\ ghost.last # p /\ Without(q, p)
  /\ \A c \in Callers : ghost.want[c].path # p

FilesOK ==
  \A p \in Seconds : /\ ghost.opens[p] = 0 => Untouched(p)
                     /\ Handling /\ ghost.opens[p] = 1 => OpensOnce(q, files[p], disk.file, p)

\* What was recorded before c stopped it is owed in front of c's token.
StoppedOK(c) ==
  LET w == ghost.want[c] IN
  Once(w.path) => /\ ghost.last # w.path /\ Behind(q, w.path, c, w.nth)
                  /\ Handling => Owes(q, files[w.path], w.path, w.lines)
                  /\ ghost.kept[c] => files[w.path] = w.lines

\* A call closes the file before it has its token.
ClosesFirst(td) == \A i, j \in 1..Len(td) : td[i] = "shut" /\ td[j] = "token" => i < j
Closing(c)      == \E i \in 1..Len(todo[c]) : todo[c][i] = "shut"

ScriptOK(c) ==
  /\ ClosesFirst(todo[c])
  /\ Closing(c) => ~ghost.kept[c] /\ \A i \in 1..Len(q) : ~IsToken(q[i], c, ghost.want[c].nth)

RecordInv ==
  /\ Handling => Placed(q, disk.file, ghost.last)
  /\ FilesOK
  /\ Handling /\ Once(ghost.last) => Owes(q, files[ghost.last], ghost.last, ghost.took)
  /\ \A c \in Callers : StoppedOK(c) /\ ScriptOK(c)
=============================================================================
