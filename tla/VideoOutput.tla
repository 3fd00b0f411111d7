---------------------------- MODULE VideoOutput ----------------------------
(***************************************************************************)
(* libobs/media-io/video-io.c: the frame cache between the graphics thread *)
(* (obs-video.c), which locks a slot, copies a rendered frame into it and  *)
(* unlocks it, and the video thread, which shows the oldest frame to every *)
(* connected input as many times as the frame has frame intervals.  When   *)
(* the cache is full the newest queued frame is made to last longer.       *)
(*                                                                         *)
(* Timestamps are counted in frame intervals (frame_time = 1).  Pixels and *)
(* scaling buffers are left out.  data_mutex makes the body of             *)
(* video_output_lock_frame, of video_output_unlock_frame and of each half  *)
(* of video_output_cur_frame one step; input_mutex is held by the video    *)
(* thread throughout phase "deliver".                                      *)
(***************************************************************************)
EXTENDS Integers, Sequences, SequencesExt

CONSTANTS CacheSize,        \* info.cache_size, at most MAX_CACHE_SIZE
          MaxCount,         \* bound: intervals one rendered frame stands for
          MaxTime,          \* bound: frame intervals of a behaviour
          Inputs            \* the (callback, param) pairs that may connect

ASSUME CacheAssumption == CacheSize \in Nat \ {0}
ASSUME CountAssumption == MaxCount \in Nat \ {0}
ASSUME TimeAssumption  == MaxTime \in Nat

VARIABLES
  cache,                    \* the slots: timestamp, count and skipped of each
  first_added,              \* slot of the oldest queued frame
  last_added,               \* slot of the newest frame
  available_frames,         \* slots not queued
  update_semaphore,
  stop,
  inputs,                   \* the connected inputs, in array order
  skipped_frames,
  total_frames,
  graphics,                 \* phase of the graphics thread
  video_time,               \* timestamp of its next frame
  video,                    \* phase of the video thread
  frame_info,               \* the slot it works on
  idx,                      \* its position in inputs
  seen,                     \* history: last timestamp shown to each input
  failed                    \* history: some input failed inside its callback

stats == <<skipped_frames, total_frames>>
ring  == <<cache, first_added, last_added, available_frames>>
vars  == <<ring, update_semaphore, stop, inputs, stats, graphics, video_time,
           video, frame_info, idx, seen, failed>>

Slots == 0 .. CacheSize - 1
Frame == [timestamp : Nat, count : Nat, skipped : Nat]

\* The index after slot s in the ring.
NextSlot(s) == IF s + 1 = CacheSize THEN 0 ELSE s + 1

\* No frame has been shown to an input since it connected.
Nothing == -1

Init ==
  /\ cache = [s \in Slots |-> [timestamp |-> 0, count |-> 0, skipped |-> 0]]
  /\ first_added = 0 /\ last_added = 0
  /\ available_frames = CacheSize
  /\ update_semaphore = 0
  /\ stop = FALSE
  /\ inputs = <<>>
  /\ skipped_frames = 0 /\ total_frames = 0
  /\ graphics = "check" /\ video_time = 0
  /\ video = "wait" /\ frame_info = 0 /\ idx = 1
  /\ seen = [in \in Inputs |-> Nothing]
  /\ failed = FALSE

----------------------------------------------------------------------------
(* The graphics thread (obs_video_thread, output_video_data).              *)

\* while (!video_output_stopped(...)): decided before the frame is rendered.
CheckStopped ==
  /\ graphics = "check"
  /\ graphics' = IF stop THEN "exited" ELSE "render"
  /\ UNCHANGED <<ring, update_semaphore, stop, inputs, stats, video_time,
                 video, frame_info, idx, seen, failed>>

\* video_output_lock_frame with no slot left: the newest queued frame is
\* prolonged, and the rendered one is never shown.
LockFrameFull(count) ==
  /\ graphics = "render"
  /\ available_frames = 0
  /\ cache' = [cache EXCEPT ![last_added] = [timestamp |-> @.timestamp,
                                             count     |-> @.count + count,
                                             skipped   |-> @.skipped + count]]
  /\ graphics' = "check"
  /\ video_time' = video_time + count
  /\ UNCHANGED <<first_added, last_added, available_frames, update_semaphore,
                 stop, inputs, stats, video, frame_info, idx, seen, failed>>

\* Mutant: a full cache is not noticed.
LockFrameUnchecked(count) ==
  /\ graphics = "render"
  /\ last_added' = IF available_frames # CacheSize THEN NextSlot(last_added)
                                                   ELSE last_added
  /\ cache' = [cache EXCEPT ![last_added'] = [timestamp |-> video_time,
                                              count     |-> count,
                                              skipped   |-> 0]]
  /\ graphics' = "copy"
  /\ video_time' = video_time + count
  /\ UNCHANGED <<first_added, available_frames, update_semaphore, stop, inputs,
                 stats, video, frame_info, idx, seen, failed>>

\* video_output_lock_frame with a slot: it is filled outside data_mutex, until
\* video_output_unlock_frame.
LockFrame(count) ==
  /\ graphics = "render"
  /\ available_frames # 0
  /\ last_added' = IF available_frames # CacheSize THEN NextSlot(last_added)
                                                   ELSE last_added
  /\ cache' = [cache EXCEPT ![last_added'] = [timestamp |-> video_time,
                                              count     |-> count,
                                              skipped   |-> 0]]
  /\ graphics' = "copy"
  /\ video_time' = video_time + count
  /\ UNCHANGED <<first_added, available_frames, update_semaphore, stop, inputs,
                 stats, video, frame_info, idx, seen, failed>>

\* Mutant: the video thread is not woken.
UnlockFrameSilent ==
  /\ graphics = "copy"
  /\ available_frames' = available_frames - 1
  /\ graphics' = "check"
  /\ UNCHANGED <<cache, first_added, last_added, update_semaphore, stop, inputs,
                 stats, video_time, video, frame_info, idx, seen, failed>>

UnlockFrame ==
  /\ graphics = "copy"
  /\ available_frames' = available_frames - 1
  /\ update_semaphore' = update_semaphore + 1
  /\ graphics' = "check"
  /\ UNCHANGED <<cache, first_added, last_added, stop, inputs, stats,
                 video_time, video, frame_info, idx, seen, failed>>

\* The counts of video_sleep: the intervals up to the next frame.
Counts == {c \in 1 .. MaxCount : video_time + c <= MaxTime}

Graphics == \/ CheckStopped
            \/ \E c \in Counts : LockFrameFull(c)
            \/ \E c \in Counts : LockFrame(c)
            \/ UnlockFrame

----------------------------------------------------------------------------
(* The video thread (video_thread, video_output_cur_frame).                *)

WaitSemaphore ==
  /\ video = "wait"
  /\ update_semaphore > 0
  /\ update_semaphore' = update_semaphore - 1
  /\ video' = IF stop THEN "exited" ELSE "pick"
  /\ UNCHANGED <<ring, stop, inputs, stats, graphics, video_time, frame_info,
                 idx, seen, failed>>

\* The head of the inner loop and the first half of video_output_cur_frame.
\* When stop is set the loop ends and total_frames is incremented once.
PickFrame ==
  /\ video = "pick"
  /\ IF stop
     THEN video' = "count" /\ UNCHANGED <<frame_info, idx>>
     ELSE video' = "deliver" /\ frame_info' = first_added /\ idx' = 1
  /\ UNCHANGED <<ring, update_semaphore, stop, inputs, stats, graphics,
                 video_time, seen, failed>>

\* The input's callback gets the frame as it is in the cache now.
CallInput ==
  /\ video = "deliver" /\ idx <= Len(inputs)
  /\ seen' = [seen EXCEPT ![inputs[idx]] = cache[frame_info].timestamp]
  /\ idx' = idx + 1
  /\ UNCHANGED <<ring, update_semaphore, stop, inputs, stats, graphics,
                 video_time, video, frame_info, failed>>

\* The callback fails to encode and disconnects itself (full_stop in
\* obs-encoder.c): input_mutex is recursive, and the array shrinks under the
\* loop, whose next index passes over the input that moved down.
CallInputFails ==
  /\ video = "deliver" /\ idx <= Len(inputs)
  /\ inputs' = RemoveAt(inputs, idx)
  /\ seen' = [seen EXCEPT ![inputs[idx]] = Nothing]
  /\ idx' = idx + 1
  /\ failed' = TRUE
  /\ UNCHANGED <<ring, update_semaphore, stop, stats, graphics, video_time,
                 video, frame_info>>

\* scale_video_output fails: this input does not see the frame.
ScaleFails ==
  /\ video = "deliver" /\ idx <= Len(inputs)
  /\ idx' = idx + 1
  /\ failed' = TRUE
  /\ UNCHANGED <<ring, update_semaphore, stop, inputs, stats, graphics,
                 video_time, video, frame_info, seen>>

EndInputs ==
  /\ video = "deliver" /\ idx > Len(inputs)
  /\ video' = "finish"
  /\ UNCHANGED <<ring, update_semaphore, stop, inputs, stats, graphics,
                 video_time, frame_info, idx, seen, failed>>

\* Mutant: last_added is left behind when the cache is emptied.
FinishFrameBehind ==
  /\ video = "finish"
  /\ LET complete == cache[frame_info].count = 1
         late     == cache[frame_info].skipped > 0
     IN /\ cache' = [cache EXCEPT ![frame_info] =
                       [timestamp |-> @.timestamp + 1,
                        count     |-> @.count - 1,
                        skipped   |-> IF ~complete /\ late THEN @.skipped - 1
                                                           ELSE @.skipped]]
        /\ IF complete
           THEN /\ first_added' = NextSlot(first_added)
                /\ available_frames' = available_frames + 1
           ELSE UNCHANGED <<first_added, available_frames>>
        /\ skipped_frames' = IF ~complete /\ late THEN skipped_frames + 1
                                                  ELSE skipped_frames
        /\ video' = IF complete THEN "count" ELSE "again"
  /\ UNCHANGED <<last_added, update_semaphore, stop, inputs, total_frames,
                 graphics, video_time, frame_info, idx, seen, failed>>

\* The second half of video_output_cur_frame: the frame has another interval
\* to be shown for, or its slot is free again.
FinishFrame ==
  /\ video = "finish"
  /\ LET complete == cache[frame_info].count = 1
         late     == cache[frame_info].skipped > 0
         emptied  == available_frames + 1 = CacheSize
     IN /\ cache' = [cache EXCEPT ![frame_info] =
                       [timestamp |-> @.timestamp + 1,
                        count     |-> @.count - 1,
                        skipped   |-> IF ~complete /\ late THEN @.skipped - 1
                                                           ELSE @.skipped]]
        /\ IF complete
           THEN /\ first_added' = NextSlot(first_added)
                /\ available_frames' = available_frames + 1
                /\ last_added' = IF emptied THEN first_added' ELSE last_added
           ELSE UNCHANGED <<first_added, available_frames, last_added>>
        /\ skipped_frames' = IF ~complete /\ late THEN skipped_frames + 1
                                                  ELSE skipped_frames
        /\ video' = IF complete THEN "count" ELSE "again"
  /\ UNCHANGED <<update_semaphore, stop, inputs, total_frames, graphics,
                 video_time, frame_info, idx, seen, failed>>

\* Mutant: one semaphore unit shows one interval, however many the frame has.
CountFrameOnce ==
  /\ video \in {"count", "again"}
  /\ total_frames' = total_frames + 1
  /\ video' = "wait"
  /\ UNCHANGED <<ring, update_semaphore, stop, inputs, skipped_frames,
                 graphics, video_time, frame_info, idx, seen, failed>>

\* video->total_frames++, in the inner loop or after it; no lock is held.
CountFrame ==
  /\ video \in {"count", "again"}
  /\ total_frames' = total_frames + 1
  /\ video' = IF video = "again" THEN "pick" ELSE "wait"
  /\ UNCHANGED <<ring, update_semaphore, stop, inputs, skipped_frames,
                 graphics, video_time, frame_info, idx, seen, failed>>

Video == \/ WaitSemaphore \/ PickFrame  \/ CallInput  \/ CallInputFails
         \/ ScaleFails    \/ EndInputs  \/ FinishFrame \/ CountFrame

----------------------------------------------------------------------------
(* Other threads: encoders and outputs come and go; obs_shutdown stops.    *)

\* video_output_connect.  The first input resets the counters; the video
\* thread increments them under another lock or none, so the reset is lost
\* when it falls between the load and the store of an increment.
\* video_input_init may fail: the input is not connected.
Connect(in) ==
  /\ video # "deliver"
  /\ in \notin ToSet(inputs)
  /\ inputs' \in {Append(inputs, in), inputs}
  /\ IF inputs = <<>>
     THEN /\ skipped_frames' \in {0} \cup
               (IF video = "finish" THEN {skipped_frames} ELSE {})
          /\ total_frames' \in {0} \cup
               (IF video \in {"count", "again"} THEN {total_frames} ELSE {})
     ELSE UNCHANGED stats
  /\ UNCHANGED <<ring, update_semaphore, stop, graphics, video_time, video,
                 frame_info, idx, seen, failed>>

\* Mutant: input_mutex is not taken.
DisconnectUnlocked(in) ==
  /\ \E i \in DOMAIN inputs : inputs[i] = in /\ inputs' = RemoveAt(inputs, i)
  /\ seen' = [seen EXCEPT ![in] = Nothing]
  /\ UNCHANGED <<ring, update_semaphore, stop, stats, graphics, video_time,
                 video, frame_info, idx, failed>>

\* video_output_disconnect, by a thread that is not the video thread.
Disconnect(in) ==
  /\ video # "deliver"
  /\ \E i \in DOMAIN inputs : inputs[i] = in /\ inputs' = RemoveAt(inputs, i)
  /\ seen' = [seen EXCEPT ![in] = Nothing]
  /\ UNCHANGED <<ring, update_semaphore, stop, stats, graphics, video_time,
                 video, frame_info, idx, failed>>

\* Mutant: the semaphore is not posted.
VideoOutputStopSilent ==
  /\ ~stop
  /\ stop' = TRUE
  /\ UNCHANGED <<ring, update_semaphore, inputs, stats, graphics, video_time,
                 video, frame_info, idx, seen, failed>>

\* video_output_stop, up to its pthread_join.
VideoOutputStop ==
  /\ ~stop
  /\ stop' = TRUE
  /\ update_semaphore' = update_semaphore + 1
  /\ UNCHANGED <<ring, inputs, stats, graphics, video_time, video, frame_info,
                 idx, seen, failed>>

Next == \/ Graphics
        \/ Video
        \/ \E in \in Inputs : Connect(in) \/ Disconnect(in)
        \/ VideoOutputStop

\* The video thread runs, and the callbacks it makes return.
Fairness == WF_vars(Video)

Safety == Init /\ [][Next]_vars
Spec   == Safety /\ Fairness

----------------------------------------------------------------------------
(* Properties.                                                             *)

TypeOK ==
  /\ cache \in [Slots -> Frame]
  /\ first_added \in Slots /\ last_added \in Slots /\ frame_info \in Slots
  /\ available_frames \in 0 .. CacheSize
  /\ update_semaphore \in Nat
  /\ stop \in BOOLEAN /\ failed \in BOOLEAN
  /\ inputs \in Seq(Inputs) /\ idx \in Nat \ {0}
  /\ skipped_frames \in Nat /\ total_frames \in Nat
  /\ graphics \in {"check", "render", "copy", "exited"}
  /\ video_time \in 0 .. MaxTime
  /\ video \in {"wait", "pick", "deliver", "finish", "again", "count", "exited"}
  /\ seen \in [Inputs -> Nat \cup {Nothing}]

Queued == CacheSize - available_frames

\* The slot i places after the oldest queued one.
At(i) == IF first_added + i >= CacheSize THEN first_added + i - CacheSize
                                         ELSE first_added + i

\* The interval after the last one that is queued.
Accepted == IF graphics = "copy" THEN cache[last_added].timestamp ELSE video_time

\* The video thread took a semaphore unit for a frame it has not finished.
Showing == video \in {"pick", "deliver", "finish", "again"}

\* The pixels the inputs are shown are never those being copied: the graphics
\* thread fills a slot outside data_mutex, the callbacks read theirs without it.
NoTornFrame ==
  ~ (graphics = "copy" /\ video \in {"deliver", "finish"}
                       /\ frame_info = last_added)

\* From the oldest slot to the newest the cache holds every frame interval up
\* to the newest accepted one, once, whatever was prolonged, shown or locked.
QueueContiguous ==
  \A i \in 0 .. Queued - 1 :
    LET f == cache[At(i)]
    IN f.timestamp + f.count = IF i + 1 < Queued THEN cache[At(i + 1)].timestamp
                                                 ELSE Accepted

\* A prolonged frame is shown long enough to count all it stands in for as
\* skipped: its slot is not given back with skips that were never counted.
SkipsAreCounted ==
  \A i \in 0 .. Queued - 1 : cache[At(i)].skipped < cache[At(i)].count

\* One unit of update_semaphore for each queued frame the video thread has not
\* taken; no wakeup is lost, and none finds the cache empty.
SemaphoreAccounts ==
  ~stop => update_semaphore + (IF Showing THEN 1 ELSE 0) = Queued

\* pthread_join in video_output_stop: the thread it waits for has a unit to
\* wake up with, however often it was already awake when stop was set.
StopIsNotLost == stop /\ video # "exited" => update_semaphore > 0

\* An input is shown the intervals in order; it misses none unless it, or an
\* input before it in the array, failed while the frame was delivered.
InputsInOrder ==
  [][\A in \in Inputs :
       (seen[in] # Nothing /\ seen'[in] # Nothing /\ seen'[in] # seen[in]) =>
         /\ seen'[in] > seen[in]
         /\ failed \/ seen'[in] = seen[in] + 1]_vars

\* After video_output_stop the video thread exits, so that the join returns.
VideoExits == stop ~> (video = "exited")

\* The frame cache implements the constant frame rate of FrameStream.
Stream == INSTANCE FrameStream WITH
            accepted <- Accepted,
            next     <- IF Queued > 0 THEN cache[first_added].timestamp
                                      ELSE Accepted,
            stopped  <- stop
StreamSafety == Stream!Safety
StreamSpec   == Stream!Spec
=============================================================================
