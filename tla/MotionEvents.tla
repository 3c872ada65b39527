---------------------------- MODULE MotionEvents ----------------------------
(***************************************************************************)
(* What becomes of the frames of one camera: the decode thread hands them  *)
(* to the encode workers, which write them to the RollingBuffer in the     *)
(* order in which they finish; the EventRecorder polls the buffer for      *)
(* motion, keeps an event open while motion goes on and closes it in a     *)
(* task of its own, which persists the frames of the window and then       *)
(* enriches the event.                                                     *)
(*                                                                         *)
(* Time is counted in half seconds: frames are decoded at odd instants, at *)
(* most one a second (target_interval), and the recorder polls at even     *)
(* ones.  The shedding of frames is in FrameQueue; here the queue is never *)
(* full.                                                                   *)
(***************************************************************************)
EXTENDS Integers, FiniteSets, SequencesExt

CONSTANTS
  Workers,       \* encode_workers
  Horizon,       \* horizon_seconds of the RollingBuffer
  MaxEntries,    \* max_entries_per_camera
  PreRoll, PostRoll, MaxDuration,   \* EventRecorderConfig
  PollInterval,  \* poll_interval_s
  MaxPollGap,    \* bound: the longest time between two polls
  MaxLag,        \* bound: the longest time from decode to buffer
  MaxTime        \* bound on the clock

ASSUME MotionEventsAssumption ==
  /\ {Workers, Horizon, MaxEntries, MaxDuration, PollInterval} \subseteq Nat \ {0}
  /\ {PreRoll, PostRoll, MaxLag, MaxTime} \subseteq Nat
  /\ MaxPollGap \in Nat /\ MaxPollGap >= PollInterval

VARIABLES
  clock,
  queued,      \* the FrameQueue: decoded frames no worker has taken
  encoding,    \* frames the workers are encoding
  buf,         \* RollingBuffer._cams[cam]
  lastPoll,    \* _CamState.last_poll_ts, 0 before the first poll
  trigger,     \* _CamState.trigger_ts, 0 when not recording
  lastMotion,  \* _CamState.last_motion_ts
  closing,     \* _pending: the _close_event tasks
  disk,        \* store_dir: event id (the trigger) -> files and manifest
  mode,        \* "running", "stopping" (the stop event is set), then "drained"
               \*   or, when the shutdown does not wait that long, "cut"
  written,     \* history: frames written to the buffer since the last start
  seen,        \* history: motion frames a poll has returned since then
  abandoned    \* history: those whose close task the shutdown has cancelled

recorderVars == <<lastPoll, trigger, lastMotion, closing, disk, mode, seen, abandoned>>
captureVars == <<queued, encoding, buf, written>>
eventVars == <<clock, captureVars, recorderVars>>

Times == 0..MaxTime
BufferedFrame == [ts : Times, motion : BOOLEAN]
CloseTask == [trigger : Times, from : Int, to : Int,
          stage : {"new", "writing", "listing", "enriching"}, frames : SUBSET BufferedFrame]

EventsTypeOK ==
  /\ clock \in Times
  /\ queued \in Seq(BufferedFrame) /\ encoding \subseteq BufferedFrame
  /\ Cardinality(encoding) <= Workers
  /\ buf \in Seq(BufferedFrame) /\ Len(buf) <= MaxEntries
  /\ lastPoll \in Times /\ trigger \in Times /\ lastMotion \in Times
  /\ closing \subseteq CloseTask
  /\ \A t \in DOMAIN disk :
       disk[t].files \subseteq BufferedFrame /\ disk[t].index \subseteq BufferedFrame
  /\ mode \in {"running", "stopping", "drained", "cut"}
  /\ written \subseteq BufferedFrame /\ seen \subseteq BufferedFrame
  /\ abandoned \subseteq seen

Started ==
  /\ queued = <<>> /\ encoding = {} /\ buf = <<>>
  /\ lastPoll = 0 /\ trigger = 0 /\ lastMotion = 0 /\ closing = {}
  /\ mode = "running"
  /\ written = {} /\ seen = {} /\ abandoned = {}

EventsInit == clock = 0 /\ disk = <<>> /\ Started

-----------------------------------------------------------------------------
(* Capture.                                                                *)

InFlight == ToSet(queued) \cup encoding

\* Half a second passes; the decoder may yield a frame, and the queue stores it.
\* The bounds on the lag, on the poll gap and on the start of a task hold time
\* back.
Tick ==
  /\ clock < MaxTime
  /\ \A f \in InFlight : clock + 1 - f.ts <= MaxLag
  /\ mode = "running" => clock + 1 - lastPoll <= MaxPollGap
  /\ \A c \in closing : c.stage # "new"
  /\ clock' = clock + 1
  /\ \/ UNCHANGED queued
     \/ /\ clock' % 2 = 1
        /\ \E m \in BOOLEAN : queued' = Append(queued, [ts |-> clock', motion |-> m])
  /\ UNCHANGED <<encoding, buf, written, recorderVars>>

\* An encode worker takes the oldest frame.
TakeFrame ==
  /\ queued # <<>> /\ Cardinality(encoding) < Workers
  /\ encoding' = encoding \cup {Head(queued)}
  /\ queued' = Tail(queued)
  /\ UNCHANGED <<clock, buf, written, recorderVars>>

\* The buffer without its head up to the first frame that is recent enough.
Evict(s, cutoff) ==
  LET recent == {i \in DOMAIN s : s[i].ts >= cutoff} IN
  IF recent = {} THEN <<>> ELSE SubSeq(s, Min(recent), Len(s))

\* RollingBuffer.write: a deque with maxlen loses its head when it is full.
Written(s, f) ==
  LET kept == Evict(s, f.ts - Horizon) IN
  Append(IF Len(kept) = MaxEntries THEN Tail(kept) ELSE kept, f)

WriteFrame(f) ==
  /\ f \in encoding
  /\ encoding' = encoding \ {f}
  /\ buf' = Written(buf, f)
  /\ written' = written \cup {f}
  /\ UNCHANGED <<clock, queued, recorderVars>>

\* RollingBuffer.get_window: the positions of what it returns.
Window(from, to) ==
  IF to <= from THEN {} ELSE {i \in DOMAIN buf : from <= buf[i].ts /\ buf[i].ts <= to}
FramesAt(positions) == {buf[i] : i \in positions}
Within(f, from, to) == from <= f.ts /\ f.ts <= to

-----------------------------------------------------------------------------
(* The poll loop.                                                          *)

\* Mutant: an event is closed by quiet only.
DueWhenQuiet(since, last) == clock - last >= PostRoll

Due(since, last) ==
  \/ clock - last >= PostRoll
  \/ clock - since >= MaxDuration

\* last_motion_ts after a poll that returned the motion frames at `motion`.
LatestMotion(motion) ==
  IF motion # {} /\ buf[Max(motion)].ts > lastMotion THEN buf[Max(motion)].ts ELSE lastMotion

\* Mutant: motion that follows does not extend the window.
FixedEnd(first, last) == first + PostRoll

\* window_end of an event with these first and last motion frames.
WindowEnd(first, last) == last + PostRoll

Poll ==
  LET since  == IF lastPoll = 0 THEN clock - PollInterval ELSE lastPoll
      motion == {i \in Window(since, clock) : buf[i].motion}
      opened == IF trigger = 0 /\ motion # {} THEN buf[Min(motion)].ts ELSE trigger
      last   == LatestMotion(motion)
  IN
  /\ mode = "running"
  /\ clock > 0 /\ clock % 2 = 0 /\ clock - lastPoll >= PollInterval
  /\ lastPoll' = clock
  /\ seen' = seen \cup FramesAt(motion)
  /\ IF opened # 0 /\ Due(opened, last)
     THEN /\ closing' = closing \cup
               {[trigger |-> opened, from |-> opened - PreRoll,
                 to |-> WindowEnd(opened, last), stage |-> "new", frames |-> {}]}
          /\ trigger' = 0 /\ lastMotion' = 0
     ELSE /\ trigger' = opened /\ lastMotion' = last
          /\ UNCHANGED closing
  /\ UNCHANGED <<clock, captureVars, disk, mode, abandoned>>

-----------------------------------------------------------------------------
(* _close_event.                                                           *)

Advance(c, stage) == closing' = (closing \ {c}) \cup {[c EXCEPT !.stage = stage]}

\* The task starts: copy the window out of the buffer.
Snapshot(c) ==
  LET frames == FramesAt(Window(c.from, c.to)) IN
  /\ c \in closing /\ c.stage = "new"
  /\ closing' = (closing \ {c}) \cup
       (IF frames = {} THEN {}
        ELSE {[c EXCEPT !.stage = "writing", !.frames = frames]})
  /\ UNCHANGED <<clock, captureVars, lastPoll, trigger, lastMotion, disk, mode, seen, abandoned>>

Stored(id, files, index) ==
  disk' = [t \in DOMAIN disk \cup {id} |->
             IF t = id THEN [files |-> files, index |-> index] ELSE disk[t]]

\* Mutant: the manifest goes first.
WriteIndex(c) ==
  /\ c \in closing /\ c.stage = "writing"
  /\ Stored(c.trigger, {}, c.frames)
  /\ Advance(c, "listing")
  /\ UNCHANGED <<clock, captureVars, lastPoll, trigger, lastMotion, mode, seen, abandoned>>

\* _write_event, in a thread: first the JPEG files ...
WriteFiles(c) ==
  /\ c \in closing /\ c.stage = "writing"
  /\ Stored(c.trigger, c.frames, {})
  /\ Advance(c, "listing")
  /\ UNCHANGED <<clock, captureVars, lastPoll, trigger, lastMotion, mode, seen, abandoned>>

\* ... then event.json with its frame_index.
WriteManifest(c) ==
  /\ c \in closing /\ c.stage = "listing"
  /\ Stored(c.trigger, c.frames, c.frames)
  /\ Advance(c, "enriching")
  /\ UNCHANGED <<clock, captureVars, lastPoll, trigger, lastMotion, mode, seen, abandoned>>

\* Enrichment is off, done or failed: it leaves the frames alone.
Enriched(c) ==
  /\ c \in closing /\ c.stage = "enriching"
  /\ closing' = closing \ {c}
  /\ UNCHANGED <<clock, captureVars, lastPoll, trigger, lastMotion, disk, mode, seen, abandoned>>

-----------------------------------------------------------------------------
(* Shutdown and crash.                                                     *)

Stop ==
  /\ mode = "running"
  /\ mode' = "stopping"
  /\ UNCHANGED <<clock, captureVars, lastPoll, trigger, lastMotion, closing, disk, seen, abandoned>>

\* run() wakes up, leaves its loop and awaits the close tasks.
Drain ==
  /\ mode = "stopping" /\ closing = {}
  /\ mode' = "drained"
  /\ UNCHANGED <<clock, captureVars, lastPoll, trigger, lastMotion, closing, disk, seen, abandoned>>

\* The caller waits for run() for five seconds only and then cancels it, and
\* with it the tasks it awaits, however long these take (the bound is left open
\* here).  A thread that is inside _write_event finishes; a task that has not
\* started, or whose thread has not, is gone, and so is the enrichment.
CutShort ==
  /\ mode = "stopping" /\ closing # {}
  /\ mode' = "cut"
  /\ \E started \in SUBSET {c \in closing : c.stage = "writing"} :
       closing' = started \cup {c \in closing : c.stage = "listing"}
  /\ abandoned' = abandoned \cup
       {f \in seen : \E c \in closing \ closing' :
          IF c.stage = "new" THEN Within(f, c.from, c.to)
                             ELSE c.stage = "writing" /\ f \in c.frames}
  /\ UNCHANGED <<clock, captureVars, lastPoll, trigger, lastMotion, disk, seen>>

\* The process dies (or has been stopped) and starts again: only the disk remains.
Restart ==
  /\ clock > 0
  /\ queued' = <<>> /\ encoding' = {} /\ buf' = <<>>
  /\ lastPoll' = 0 /\ trigger' = 0 /\ lastMotion' = 0 /\ closing' = {}
  /\ mode' = "running"
  /\ written' = {} /\ seen' = {} /\ abandoned' = {}
  /\ UNCHANGED <<clock, disk>>

-----------------------------------------------------------------------------

EventsNext ==
  \/ Tick \/ TakeFrame \/ \E f \in encoding : WriteFrame(f)
  \/ Poll
  \/ \E c \in closing : Snapshot(c) \/ WriteFiles(c) \/ WriteManifest(c) \/ Enriched(c)
  \/ Stop \/ Drain \/ CutShort \/ Restart

EventsSpec == EventsInit /\ [][EventsNext]_eventVars

-----------------------------------------------------------------------------
(* Properties.                                                             *)

\* f will be, or is, part of a durable event.
Covered(f) ==
  \/ trigger # 0 /\ Within(f, trigger - PreRoll, lastMotion + PostRoll)
  \/ \E c \in closing : IF c.stage = "new" THEN Within(f, c.from, c.to)
                                          ELSE f \in c.frames
  \/ \E t \in DOMAIN disk : f \in disk[t].files /\ f \in disk[t].index

\* The durable sink keeps what it was given: a motion frame that a poll has
\* returned stays covered by the open event, by a close under way or by an
\* event on disk, although frames arrive out of order and the buffer evicts.
\* Only the five seconds of the shutdown take one away, with its close task.
SeenMotionIsKept == \A f \in seen \ abandoned : Covered(f)

\* The cap on the duration does what its docstring says: when an event is
\* closed the buffer still has every frame of its window.
BufferServesTheWindow ==
  [][\A c \in closing' \ closing :
       c.stage = "writing" =>
         c.frames = {f \in written : Within(f, c.from, c.to)}]_eventVars

\* A crash may leave a directory without event.json, but never an event.json
\* that lists a frame which is not there.
ManifestIsTrue == \A t \in DOMAIN disk : disk[t].index \subseteq disk[t].files

-----------------------------------------------------------------------------
(* Claims of the code's documentation that the model refutes.              *)

\* "This component closes that gap": once a poll has gone past the time of a
\* motion frame that reached the buffer, the frame is covered.
NoMotionIsMissed ==
  \A f \in written : f.motion /\ f.ts < lastPoll /\ mode = "running" => Covered(f)

\* "let in-flight closes finish persisting on shutdown": when the shutdown is
\* over, what was seen and is not on disk belongs to the event that was open.
ShutdownIsDurable ==
  mode \in {"drained", "cut"} /\ closing = {} =>
    \A f \in seen :
      \/ \E t \in DOMAIN disk : f \in disk[t].index
      \/ trigger # 0 /\ Within(f, trigger - PreRoll, lastMotion + PostRoll)

\* get_window returns the frames "in chronological order".
WindowIsChronological ==
  \A i, j \in Window(0, MaxTime) : i < j => buf[i].ts <= buf[j].ts

=============================================================================
