---------------------------- MODULE AsyncFrames ----------------------------
(***************************************************************************)
(* The frames of an asynchronous source (obs-source.c,                     *)
(* obs-source-deinterlace.c, async-delay-filter.c).  A thread of the       *)
(* source hands frames in: each is copied into one of a cache, outside     *)
(* async_mutex, and queued.  The graphics thread takes the one that is due *)
(* in its tick, and renders it after the filters, which may keep it.  The  *)
(* cache frees itself when the size of frames changes or too many wait.    *)
(* Which frame is due, a matter of timestamps, is left open.               *)
(***************************************************************************)
EXTENDS Integers, Sequences, FiniteSetsExt

CONSTANTS
  MAX_ASYNC_FRAMES,         \* 30: as many may wait
  MAX_UNUSED_FRAME_DURATION,
  MaxAllocated, MaxHeld     \* bounds: frames allocated, frames the filter keeps

VARIABLES
  frame,                    \* each struct obs_source_frame, and its async_frame
  alive,                    \* history: the frames allocated and not destroyed
  source,                   \* the fields of struct obs_source
  video_frames,             \* those the delay filter keeps
  producer,                 \* the thread of the source, and the frame it fills
  graphics,                 \* the graphics thread, and the frame it works on
  ui,                       \* obs_source_set_deinterlace_mode
  misread                   \* history: a frame taken from an empty queue

vars == <<frame, alive, source, video_frames, producer, graphics, ui, misread>>

None == 0
Ids == 1..MaxAllocated
Fresh == [refs |-> 0, used |-> FALSE, unused_count |-> 0, prev_frame |-> FALSE]

Init ==
  /\ frame = [f \in Ids |-> Fresh] /\ alive = {}
  /\ source = [async_cache |-> {}, async_frames |-> <<>>, cur |-> None, prev |-> None,
               deinterlace |-> FALSE, allocated |-> 0]
  /\ video_frames = <<>>
  /\ producer = [at |-> "idle", f |-> None]
  /\ graphics = [at |-> "tick", f |-> None]
  /\ ui = "idle" /\ misread = FALSE

----------------------------------------------------------------------------
(* obs_source_output_video                                                 *)

Unref(fs)   == [f \in Ids |-> IF f \notin fs THEN frame[f]
                             ELSE IF frame[f].refs = 1 THEN Fresh
                             ELSE [frame[f] EXCEPT !.refs = @ - 1]]
Dead(fs)    == {f \in fs : frame[f].refs = 1}

\* Mutant: the current frame is forgotten.
EmptiedQueue == [source EXCEPT !.async_cache = {}, !.async_frames = <<>>, !.prev = None]

Emptied     == [source EXCEPT !.async_cache = {}, !.async_frames = <<>>, !.cur = None, !.prev = None]
Filling(f)  == producer' = [at |-> "copy", f |-> f]

\* cache_video with 30 frames in the queue: all go, and this one is not taken.
\* free_async_cache
TooMany ==
  /\ producer.at = "idle" /\ Len(source.async_frames) >= MAX_ASYNC_FRAMES
  /\ frame' = Unref(source.async_cache)
  /\ alive' = alive \ Dead(source.async_cache)
  /\ source' = Emptied
  /\ UNCHANGED <<video_frames, producer, graphics, ui, misread>>

\* clean_cache: frees what has not been used for some time, whatever its refs.
Ageing(cached) == {f \in cached : ~frame[f].used}
Old(cached)    == {f \in Ageing(cached) : frame[f].unused_count + 1 = MAX_UNUSED_FRAME_DURATION}

\* cache_video: the first of the cache that is not used, or a new one.
Reuse ==
  /\ producer.at = "idle" /\ Len(source.async_frames) < MAX_ASYNC_FRAMES
  /\ LET cached == source.async_cache
         f      == Min(Ageing(cached))
         rest   == cached \ {f}
     IN /\ Ageing(cached) # {}
        /\ frame' = [g \in Ids |->
             IF g = f THEN [frame[g] EXCEPT !.used = TRUE, !.unused_count = 0, !.refs = @ + 1]
             ELSE IF g \in Old(rest) THEN Fresh
             ELSE IF g \in Ageing(rest) THEN [frame[g] EXCEPT !.unused_count = @ + 1]
             ELSE frame[g]]
        /\ source' = [source EXCEPT !.async_cache = @ \ Old(rest)]
        /\ alive' = alive \ Old(rest)
        /\ Filling(f)
  /\ UNCHANGED <<video_frames, graphics, ui, misread>>

\* The cache keeps one reference and the copy another.
Allocated(f, frames) ==
  [frames EXCEPT ![f] = [Fresh EXCEPT !.refs = 2, !.used = TRUE]]

\* Every frame is used, or the size has changed (async_texture_changed).
Allocate ==
  /\ producer.at = "idle" /\ Len(source.async_frames) < MAX_ASYNC_FRAMES
  /\ source.allocated < MaxAllocated
  /\ \E changed \in BOOLEAN :
       LET f    == source.allocated + 1
           base == IF changed THEN Emptied ELSE source
           gone == IF changed THEN source.async_cache ELSE {}
       IN /\ changed \/ Ageing(source.async_cache) = {}
          /\ frame' = Allocated(f, Unref(gone))
          /\ alive' = (alive \ Dead(gone)) \cup {f}
          /\ source' = [base EXCEPT !.async_cache = @ \cup {f}, !.allocated = f]
          /\ Filling(f)
  /\ UNCHANGED <<video_frames, graphics, ui, misread>>

\* After copy_frame_data; a frame whose cache is gone is given up.
Copied ==
  /\ producer.at = "copy"
  /\ frame' = Unref({producer.f})
  /\ alive' = alive \ Dead({producer.f})
  /\ producer' = IF frame[producer.f].refs = 1 THEN [at |-> "idle", f |-> None]
                 ELSE [producer EXCEPT !.at = "push"]
  /\ UNCHANGED <<source, video_frames, graphics, ui, misread>>

Push ==
  /\ producer.at = "push" /\ producer' = [at |-> "idle", f |-> None]
  /\ source' = [source EXCEPT !.async_frames = Append(@, producer.f)]
  /\ UNCHANGED <<frame, alive, video_frames, graphics, ui, misread>>

----------------------------------------------------------------------------
(* async_tick, on the graphics thread.                                     *)

Elements(s) == {s[i] : i \in DOMAIN s}

\* remove_async_frame
Removed(fs) ==
  [f \in Ids |-> IF f \in fs
                 THEN [frame[f] EXCEPT !.prev_frame = FALSE,
                                       !.used = @ /\ f \notin source.async_cache]
                 ELSE frame[f]]

Last == {source.cur, source.prev} \ {None}

\* get_closest_frame: no frame is due, or those before the one that is are
\* dropped (ready_async_frame).
TickPlain ==
  /\ graphics.at = "tick" /\ ~source.deinterlace
  /\ LET queue == source.async_frames
     IN \/ /\ frame' = Removed({source.cur} \ {None})
           /\ source' = [source EXCEPT !.cur = None]
        \/ \E i \in DOMAIN queue :
             /\ frame' = Removed(({source.cur} \ {None}) \cup Elements(SubSeq(queue, 1, i - 1)))
             /\ source' = [source EXCEPT !.cur = queue[i],
                                         !.async_frames = SubSeq(queue, i + 1, Len(queue))]
  /\ graphics' = [graphics EXCEPT !.at = "size"]
  /\ UNCHANGED <<alive, video_frames, producer, ui, misread>>

\* What ready_deinterlace_frames leaves of a queue: how many frames are dropped,
\* and which is marked as the previous one.  Stopping because two frames are
\* left, it marks the last it has dropped.
DropAndMark(n) ==
  {[drop |-> 0, mark |-> None]}
    \cup {[drop |-> i, mark |-> i + 1] : i \in 0..(n - 2)}
    \cup (IF n > 2 THEN {[drop |-> n - 2, mark |-> n - 2]} ELSE {})

\* deinterlace_process_last_frame, deinterlace_get_closest_frames.  With one
\* frame left that has the mark the second is read from an empty array, which
\* still holds the first.
TickDeinterlace ==
  /\ graphics.at = "tick" /\ source.deinterlace
  /\ LET queue == source.async_frames
     IN \/ /\ frame' = Removed(Last)
           /\ source' = [source EXCEPT !.cur = None, !.prev = None]
           /\ UNCHANGED misread
        \/ /\ queue # <<>>
           /\ \E c \in DropAndMark(Len(queue)) :
                LET left   == SubSeq(queue, c.drop + 1, Len(queue))
                    gone   == Removed(Last \cup Elements(SubSeq(queue, 1, c.drop)))
                    marked == IF c.mark = None THEN gone
                              ELSE [gone EXCEPT ![queue[c.mark]].prev_frame = TRUE]
                    two    == marked[left[1]].prev_frame
                    short  == two /\ Len(left) = 1
                IN /\ frame' = marked
                   /\ source' = [source EXCEPT
                        !.prev = IF two THEN left[1] ELSE None,
                        !.cur = IF two /\ ~short THEN left[2] ELSE left[1],
                        !.async_frames = SubSeq(left, IF two THEN 3 ELSE 2, Len(left))]
                   /\ misread' = (misread \/ short)
  /\ graphics' = [graphics EXCEPT !.at = "size"]
  /\ UNCHANGED <<alive, video_frames, producer, ui>>

\* set_async_texture_size reads the current frame without async_mutex, while the
\* producer may free it: README, section 7.
Size ==
  /\ graphics.at = "size" /\ graphics' = [graphics EXCEPT !.at = "prev"]
  /\ UNCHANGED <<frame, alive, source, video_frames, producer, ui, misread>>

----------------------------------------------------------------------------
(* render_video, in the same thread: the previous frame, then the current. *)

Take(f, at) ==
  /\ frame' = IF f = None THEN frame ELSE [frame EXCEPT ![f].refs = @ + 1]
  /\ graphics' = [at |-> at, f |-> f]
  /\ UNCHANGED <<alive, video_frames, producer, ui, misread>>

\* get_prev_frame, or a source that is not shown.
RenderPrev ==
  /\ graphics.at = "prev" /\ ui = "idle"
  /\ \/ source.deinterlace /\ Take(source.prev, "show prev")
        /\ source' = [source EXCEPT !.prev = None]
     \/ ~source.deinterlace /\ Take(None, "cur") /\ UNCHANGED source
     \/ Take(None, "tick") /\ UNCHANGED source

\* obs_source_get_frame
RenderCur ==
  /\ graphics.at = "cur" /\ ui = "idle"
  /\ Take(source.cur, "show cur") /\ source' = [source EXCEPT !.cur = None]

\* obs_source_release_frame, of each in turn.
Release(fs) ==
  /\ alive' = alive \ Dead(fs)
  /\ frame' = [f \in Ids |-> IF f \in fs \ Dead(fs) THEN [Removed(fs)[f] EXCEPT !.refs = @ - 1]
                             ELSE Unref(fs)[f]]

\* filter_async_video with the delay filter or without one, and the release of
\* what comes out.  The filter lets go of all it has when time jumps.
Shown ==
  LET f    == graphics.f
      then == IF graphics.at = "show prev" THEN "cur" ELSE "tick"
  IN /\ graphics.at \in {"show prev", "show cur"}
     /\ graphics' = [at |-> then, f |-> None]
     /\ \/ /\ f = None
           /\ UNCHANGED <<frame, alive, video_frames>>
        \/ /\ f # None
           /\ \E jump, reached \in BOOLEAN :
                LET kept  == IF jump THEN <<f>> ELSE Append(video_frames, f)
                    freed == IF jump THEN Elements(video_frames) ELSE {}
                IN /\ reached \/ Len(kept) <= MaxHeld
                   /\ IF reached
                      THEN video_frames' = Tail(kept) /\ Release(freed \cup {Head(kept)})
                      ELSE video_frames' = kept /\ Release(freed)
     /\ UNCHANGED <<source, producer, ui, misread>>

\* async_delay_filter_remove, or an update with a shorter delay.
FilterRemove ==
  /\ graphics.at \in {"tick", "size"} /\ video_frames # <<>>
  /\ Release(Elements(video_frames)) /\ video_frames' = <<>>
  /\ UNCHANGED <<source, producer, graphics, ui, misread>>

----------------------------------------------------------------------------
(* obs_source_set_deinterlace_mode, by the user interface, with the        *)
(* graphics context entered: never while the graphics thread renders.      *)

SetMode ==
  /\ ui = "idle" /\ graphics.at \in {"tick", "size"}
  /\ source' = [source EXCEPT !.deinterlace = ~@]
  /\ ui' = IF source.deinterlace THEN "idle" ELSE "enable"
  /\ UNCHANGED <<frame, alive, video_frames, producer, graphics, misread>>

\* enable_deinterlacing: what was the previous frame before is let go.
ClearPrev ==
  /\ ui = "enable" /\ ui' = "idle"
  /\ frame' = Removed({source.prev} \ {None})
  /\ source' = [source EXCEPT !.prev = None]
  /\ UNCHANGED <<alive, video_frames, producer, graphics, misread>>

\* After a misread nothing is known any more.
Next ==
  ~misread /\
  \/ TooMany \/ Reuse \/ Allocate \/ Copied \/ Push
  \/ TickPlain \/ TickDeinterlace \/ Size \/ RenderPrev \/ RenderCur \/ Shown
  \/ FilterRemove \/ SetMode \/ ClearPrev

Spec == Init /\ [][Next]_vars

----------------------------------------------------------------------------
Shared == Elements(source.async_frames) \cup Elements(video_frames)
            \cup ({source.cur, source.prev, graphics.f} \ {None})
Being  == {producer.f} \ {None}

Count == Len(source.async_frames) + Len(video_frames)
           + Cardinality(({source.cur} \ {None})) + Cardinality({source.prev} \ {None})
           + Cardinality({graphics.f} \ {None})

\* No frame is freed while somebody has it, nor filled with the next picture
\* while it waits, is rendered or is kept by a filter, nor in two of these places;
\* and a frame of the cache counts as used exactly while it is in one of them.
\* (cache_video, get_closest_frame, obs_source_release_frame and the filters.)
\* Deinterlacing that has read past the end of the queue is excused.
FramesInPlace ==
  misread \/ /\ Shared \cup Being \subseteq alive
             /\ Shared \cap Being = {}
             /\ Cardinality(Shared) = Count
             /\ \A f \in source.async_cache : frame[f].used <=> f \in Shared \cup Being

----------------------------------------------------------------------------
(* Why: the inductive invariant.                                           *)

Frame == [refs : Nat, used : BOOLEAN, unused_count : Nat, prev_frame : BOOLEAN]

TypeOK ==
  /\ frame \in [Ids -> Frame]
  /\ source \in [async_cache : SUBSET Ids, async_frames : Seq(Ids), cur : Ids \cup {None},
                 prev : Ids \cup {None}, deinterlace : BOOLEAN, allocated : 0..MaxAllocated]
  /\ video_frames \in Seq(Ids)
  /\ producer \in [at : {"idle", "copy", "push"}, f : Ids \cup {None}]
  /\ graphics \in [at : {"tick", "size", "prev", "show prev", "cur", "show cur"},
                   f : Ids \cup {None}]
  /\ misread \in BOOLEAN

\* Those that have a reference of their own, besides that of the cache: the copy,
\* the renderer and the filter.
Taken == Elements(video_frames) \cup ({graphics.f} \ {None})
           \cup (IF producer.at = "copy" THEN {producer.f} ELSE {})

\* The others live by the reference of the cache.
Lent == Elements(source.async_frames) \cup ({source.cur, source.prev} \ {None})
          \cup (IF producer.at = "push" THEN {producer.f} ELSE {})

Counted ==
  /\ \A f \in Ids : frame[f].refs = (IF f \in source.async_cache THEN 1 ELSE 0)
                                      + (IF f \in Taken THEN 1 ELSE 0)
  /\ alive = source.async_cache \cup Taken
  /\ alive \subseteq 1..source.allocated
  /\ Lent \subseteq source.async_cache

\* Who is idle works on no frame.
Working ==
  /\ producer.at = "idle" <=> producer.f = None
  /\ graphics.at \in {"tick", "size", "prev", "cur"} => graphics.f = None

Distinct(s) == \A i, j \in DOMAIN s : s[i] = s[j] => i = j

\* A frame is in one place only.
Separate ==
  /\ Distinct(source.async_frames) /\ Distinct(video_frames)
  /\ Elements(source.async_frames) \cap Elements(video_frames) = {}
  /\ (Elements(source.async_frames) \cup Elements(video_frames))
       \cap {source.cur, source.prev, graphics.f, producer.f} = {}
  /\ source.cur # None => source.cur \notin {source.prev, graphics.f, producer.f}
  /\ source.prev # None => source.prev \notin {graphics.f, producer.f}
  /\ graphics.f # None => graphics.f # producer.f

InUse == \A f \in source.async_cache : frame[f].used <=> f \in Shared \cup Being

InPlace == TypeOK /\ Counted /\ Working /\ Separate /\ InUse

IInv == misread \/ InPlace
=============================================================================
