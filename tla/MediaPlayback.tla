---------------------------- MODULE MediaPlayback ---------------------------
(***************************************************************************)
(* A media source (plugins/obs-ffmpeg/obs-ffmpeg-source.c) and the thread  *)
(* that plays it (deps/media-playback/media.c, decode.c).  The thread is   *)
(* told by flags to begin again, to stop and to end, and a semaphore wakes *)
(* it; it tells the source when it has stopped, which then may ask for the *)
(* media to be closed.  The graphics thread updates, activates,            *)
(* deactivates and closes, a hotkey plays from the start.                  *)
(*                                                                         *)
(* todo[t] is what is left of the call that t is in.  One stream; a frame  *)
(* lasts one unit of time.  play_sys_ts is left out of timestamps: the     *)
(* clock does not go back, so it could only add to them.                   *)
(***************************************************************************)
EXTENDS Integers, Sequences

CONSTANTS
  Frames,                   \* how many frames there are to read
  MediaFaults,              \* of "open", "read", "seek": what may fail by itself
  MaxMediaCalls, MaxPlayed  \* bounds: requests of the user, timestamps

VARIABLES
  settings,                 \* struct ffmpeg_source: the settings
  source,                   \* activate_refs > 0, active, defer_update, destroy_media, media_valid
  media,                    \* struct mp_media: flags and semaphore
  decoder,                  \* struct mp_decode, with base_ts, start_ts and the place in the file
  at,                       \* where the media thread is
  local,                    \* its locals
  todo, requests,
  wanted, lost,             \* history: play was the last request; it could not be met
  last                      \* history: the last timestamp given to the source

vars == <<settings, source, media, decoder, at, local, todo, requests, wanted, lost, last>>

Callers == {"graphics", "hotkey"}

Closed == [active |-> FALSE, stopping |-> FALSE, looping |-> FALSE,
           reset |-> FALSE, kill |-> FALSE, sem |-> 0]
Unread == [pos |-> 0, found |-> TRUE, eof |-> FALSE, ready |-> FALSE, pts |-> 0,
           next_pts |-> 0, base_ts |-> 0, start_ts |-> 0]
Fresh  == [active |-> FALSE, stopping |-> FALSE, then |-> "exited"]

\* A source whose restart_on_activate is set; one that is no file does not loop
\* and is closed when inactive.  A file that is not closed behaves the same with
\* or without is_clear_on_media_end, as far as it plays;
\* it is open as soon as the source has been created.
Init ==
  /\ settings \in [seekable : BOOLEAN, is_looping : BOOLEAN,
                   is_clear_on_media_end : BOOLEAN, close_when_inactive : BOOLEAN]
  /\ ~settings.seekable => ~settings.is_looping /\ settings.close_when_inactive
  /\ settings.is_clear_on_media_end \/ settings.close_when_inactive
  /\ source = [shown |-> FALSE, active |-> FALSE, defer_update |-> FALSE,
               destroy_media |-> FALSE, media_valid |-> ~settings.close_when_inactive]
  /\ at = IF source.media_valid THEN "open" ELSE "none"
  /\ media = Closed /\ decoder = Unread /\ local = Fresh
  /\ todo = [c \in Callers |-> <<>>] /\ requests = 0
  /\ wanted = FALSE /\ lost = FALSE /\ last = -1

----------------------------------------------------------------------------
(* mp_media_thread                                                         *)

\* interrupt_callback: reading is given up.
Interrupted == media.kill \/ media.stopping
MayFail(what) == Interrupted \/ what \in MediaFaults

\* mp_media_thread_start: whoever fails says that it has stopped.
Fail == at' = "stopped" /\ local' = [local EXCEPT !.then = "exited"] /\ lost' = TRUE

\* init_avformat
Open ==
  /\ at = "open"
  /\ \/ at' = "reset" /\ UNCHANGED <<local, lost>>
     \/ MayFail("open") /\ Fail
  /\ UNCHANGED <<settings, source, media, decoder, todo, requests, wanted, last>>

\* mp_media_reset up to mp_media_prepare_frames
Reset ==
  /\ at = "reset" /\ at' = "prepare"
  /\ \E sought \in BOOLEAN :
       /\ ~sought => MayFail("seek")
       /\ decoder' = [decoder EXCEPT
            !.base_ts = @ + decoder.next_pts,
            !.pos     = IF settings.seekable /\ sought THEN 0 ELSE @,
            !.found   = sought,
            !.eof     = @ /\ ~settings.seekable,
            !.ready   = @ /\ ~settings.seekable]
  /\ local' = [local EXCEPT !.stopping = media.stopping, !.active = media.active]
  /\ media' = [media EXCEPT !.stopping = FALSE]
  /\ UNCHANGED <<settings, source, todo, requests, wanted, lost, last>>

\* mp_media_prepare_frames, mp_decode_next: a frame, or none is left.
Prepared ==
  IF decoder.ready \/ decoder.eof THEN decoder
  ELSE IF decoder.pos = Frames THEN [decoder EXCEPT !.eof = TRUE]
  ELSE [decoder EXCEPT !.ready = TRUE, !.pos = @ + 1,
                       !.pts = decoder.pos, !.next_pts = decoder.pos + 1]
Unprepared == ~decoder.ready /\ ~decoder.eof /\ MayFail("read")

\* The rest of mp_media_reset; only the first one's failure is looked at.
PrepareReset ==
  /\ at = "prepare"
  /\ \/ /\ decoder' = [Prepared EXCEPT !.start_ts = Prepared.pts]
        /\ at' = IF local.stopping THEN "stopped" ELSE "top"
        /\ local' = [local EXCEPT !.then = "top"]
        /\ UNCHANGED lost
     \/ /\ Unprepared /\ decoder' = [decoder EXCEPT !.found = FALSE]
        /\ IF local.then = "exited" THEN Fail
           ELSE at' = "top" /\ UNCHANGED <<local, lost>>
  /\ UNCHANGED <<settings, source, media, todo, requests, wanted, last>>

\* stop_cb is media_stopped: clearing the picture aside, the file is closed
\* at the next tick.
Stopped ==
  /\ at = "stopped" /\ at' = local.then
  /\ source' = [source EXCEPT !.destroy_media = @ \/
       (settings.is_clear_on_media_end /\ settings.close_when_inactive /\ source.media_valid)]
  /\ UNCHANGED <<settings, media, decoder, local, todo, requests, wanted, lost, last>>

Top ==
  /\ at = "top"
  /\ local' = [local EXCEPT !.active = media.active]
  /\ at' = IF media.active THEN "sleep" ELSE "wait"
  /\ UNCHANGED <<settings, source, media, decoder, todo, requests, wanted, lost, last>>

\* os_sem_wait
Wait ==
  /\ at = "wait" /\ media.sem > 0
  /\ media' = [media EXCEPT !.sem = @ - 1]
  /\ at' = "wake"
  /\ UNCHANGED <<settings, source, decoder, local, todo, requests, wanted, lost, last>>

\* mp_media_sleepto
Sleep ==
  /\ at = "sleep" /\ at' = "wake"
  /\ UNCHANGED <<settings, source, media, decoder, local, todo, requests, wanted, lost, last>>

\* Awake because it is time for the next frame, or (timeout) not yet.
Wake ==
  /\ at = "wake"
  /\ \/ media.kill /\ at' = "exited"
     \/ ~media.kill /\ media.reset /\ at' = "reset"
     \/ ~media.kill /\ ~media.reset /\ at' \in (IF local.active THEN {"play", "top"} ELSE {"top"})
  /\ media' = [media EXCEPT !.reset = FALSE, !.kill = FALSE]
  /\ UNCHANGED <<settings, source, decoder, local, todo, requests, wanted, lost, last>>

timestamp == decoder.base_ts + decoder.pts - decoder.start_ts

\* mp_media_next_video
Play ==
  /\ at = "play" /\ at' = "next"
  /\ timestamp <= MaxPlayed
  /\ decoder' = [decoder EXCEPT !.ready = FALSE]
  /\ last' = IF decoder.ready THEN timestamp ELSE last
  /\ UNCHANGED <<settings, source, media, local, todo, requests, wanted, lost>>

PrepareNext ==
  /\ at = "next"
  /\ \/ decoder' = Prepared /\ at' = "eof" /\ UNCHANGED <<local, lost>>
     \/ Unprepared /\ Fail /\ UNCHANGED decoder
  /\ UNCHANGED <<settings, source, media, todo, requests, wanted, last>>

\* mp_media_eof: a file that does not loop stops, even when it has just been
\* asked to begin again.
Eof ==
  /\ at = "eof"
  /\ LET ends == ~decoder.ready /\ ~media.looping
     IN /\ at' = IF decoder.ready THEN "top" ELSE "reset"
        /\ media' = [media EXCEPT !.active = @ /\ ~ends, !.stopping = @ \/ ends]
        /\ wanted' = (wanted /\ (ends => media.reset))
        /\ lost' = (lost \/ (ends /\ wanted /\ media.reset))
  /\ UNCHANGED <<settings, source, decoder, local, todo, requests, last>>

MediaThread == Open \/ Reset \/ PrepareReset \/ Stopped \/ Top \/ Wait \/ Sleep
               \/ Wake \/ Play \/ PrepareNext \/ Eof

----------------------------------------------------------------------------
(* The calls                                                               *)

Idle(c)    == todo[c] = <<>>
At(c, op)  == ~Idle(c) /\ Head(todo[c]) = op
Then(c, s) == todo' = [todo EXCEPT ![c] = s \o Tail(@)]
If(p, s)   == IF p THEN s ELSE <<>>

\* Mutant: the thread is not woken.
PlayingUnposted == [media EXCEPT !.reset = @ \/ media.active, !.active = TRUE,
                                 !.looping = settings.is_looping]

\* mp_media_play
Playing == [media EXCEPT !.reset = @ \/ media.active, !.active = TRUE,
                         !.looping = settings.is_looping, !.sem = @ + 1]

MediaPlay(c) ==
  /\ At(c, "play") /\ Then(c, <<>>)
  /\ IF source.media_valid
     THEN /\ media' = Playing
          /\ wanted' = TRUE
          /\ lost' = (lost /\ (at = "exited" \/ (at = "stopped" /\ local.then = "exited")))
     ELSE UNCHANGED <<media, wanted, lost>>
  /\ UNCHANGED <<settings, source, decoder, at, local, requests, last>>

\* mp_media_stop
StopPlaying ==
  media' = IF media.active
           THEN [media EXCEPT !.reset = TRUE, !.active = FALSE, !.stopping = TRUE, !.sem = @ + 1]
           ELSE media

MediaStop(c) ==
  /\ At(c, "stop") /\ Then(c, <<>>)
  /\ StopPlaying
  /\ wanted' = FALSE
  /\ UNCHANGED <<settings, source, decoder, at, local, requests, lost, last>>

\* mp_media_free: mp_media_stop, mp_kill_thread
MediaFree(c) ==
  /\ At(c, "free")
  /\ IF source.media_valid THEN StopPlaying /\ Then(c, <<"kill", "join">>)
                           ELSE UNCHANGED media /\ Then(c, <<>>)
  /\ UNCHANGED <<settings, source, decoder, at, local, requests, wanted, lost, last>>

Kill(c) ==
  /\ At(c, "kill") /\ Then(c, <<>>)
  /\ media' = [media EXCEPT !.kill = TRUE, !.sem = @ + 1]
  /\ UNCHANGED <<settings, source, decoder, at, local, requests, wanted, lost, last>>

Join(c) ==
  /\ At(c, "join") /\ Then(c, <<>>)
  /\ at = "exited" /\ at' = "none"
  /\ media' = Closed /\ decoder' = Unread /\ local' = Fresh /\ last' = -1
  /\ source' = [source EXCEPT !.media_valid = FALSE]
  /\ lost' = (lost \/ wanted)
  /\ UNCHANGED <<settings, requests, wanted>>

\* ffmpeg_source_open: media_valid is set when mp_media_init has returned.
SourceOpen(c) ==
  /\ At(c, "open")
  /\ IF source.media_valid THEN Then(c, <<>>) /\ UNCHANGED <<at, lost>>
                           ELSE Then(c, <<"valid">>) /\ at' = "open" /\ lost' = FALSE
  /\ UNCHANGED <<settings, source, media, decoder, local, requests, wanted, last>>

Valid(c) ==
  /\ At(c, "valid") /\ Then(c, <<>>)
  /\ source' = [source EXCEPT !.media_valid = TRUE]
  /\ UNCHANGED <<settings, media, decoder, at, local, requests, wanted, lost, last>>

SourceStart == <<"open", "play">>

Call(c) == \/ MediaPlay(c) \/ MediaStop(c) \/ MediaFree(c) \/ Kill(c) \/ Join(c)
           \/ SourceOpen(c) \/ Valid(c)

----------------------------------------------------------------------------
(* The graphics thread: obs_source_video_tick                              *)

VideoTick ==
  /\ Idle("graphics")
  /\ source.defer_update \/ source.destroy_media \/ source.active # source.shown
  /\ todo' = [todo EXCEPT !["graphics"] =
       If(source.defer_update, <<"update", "updated">>) \o <<"refs", "tick">>]
  /\ UNCHANGED <<settings, source, media, decoder, at, local, requests, wanted, lost, last>>

\* obs_source_deferred_update, ffmpeg_source_update
SourceUpdate ==
  /\ At("graphics", "update") /\ Then("graphics", <<"free", "reopen">>)
  /\ UNCHANGED <<settings, source, media, decoder, at, local, requests, wanted, lost, last>>

Reopen ==
  /\ At("graphics", "reopen")
  /\ Then("graphics", If(~settings.close_when_inactive \/ source.shown, <<"open">>)
                      \o If(source.shown, SourceStart))
  /\ wanted' = FALSE
  /\ UNCHANGED <<settings, source, media, decoder, at, local, requests, lost, last>>

\* What was asked for while the source was updated is forgotten.
SourceUpdated ==
  /\ At("graphics", "updated") /\ Then("graphics", <<>>)
  /\ source' = [source EXCEPT !.defer_update = FALSE]
  /\ UNCHANGED <<settings, media, decoder, at, local, requests, wanted, lost, last>>

\* ffmpeg_source_activate, ffmpeg_source_deactivate
Refs ==
  /\ At("graphics", "refs")
  /\ LET begins == source.shown /\ ~source.active
         ends   == source.active /\ ~source.shown
     IN /\ Then("graphics", If(begins, SourceStart)
                            \o If(ends /\ source.media_valid, <<"stop">>))
  /\ source' = [source EXCEPT !.active = source.shown]
  /\ UNCHANGED <<settings, media, decoder, at, local, requests, wanted, lost, last>>

\* ffmpeg_source_tick
SourceTick ==
  /\ At("graphics", "tick")
  /\ Then("graphics", If(source.destroy_media, <<"free", "closed">>))
  /\ UNCHANGED <<settings, source, media, decoder, at, local, requests, wanted, lost, last>>

SourceClosed ==
  /\ At("graphics", "closed") /\ Then("graphics", <<>>)
  /\ source' = [source EXCEPT !.destroy_media = FALSE]
  /\ UNCHANGED <<settings, media, decoder, at, local, requests, wanted, lost, last>>

Graphics == VideoTick \/ SourceUpdate \/ Reopen \/ SourceUpdated \/ Refs \/ SourceTick \/ SourceClosed

----------------------------------------------------------------------------
\* The source is shown, hidden or given settings, or restart_hotkey is pressed.
Request ==
  /\ requests < MaxMediaCalls /\ requests' = requests + 1
  /\ \/ source' = [source EXCEPT !.shown = ~@] /\ UNCHANGED todo
     \/ ~source.defer_update /\ source' = [source EXCEPT !.defer_update = TRUE] /\ UNCHANGED todo
     \/ /\ source.shown /\ Idle("hotkey")
        /\ todo' = [todo EXCEPT !["hotkey"] = SourceStart]
        /\ UNCHANGED source
  /\ UNCHANGED <<settings, media, decoder, at, local, wanted, lost, last>>

\* The hotkey is in its call while the graphics thread opens or closes the same
\* media, without a lock: what happens then is undefined.
Raced == /\ \A c \in Callers : ~Idle(c)
         /\ \E c \in Callers, op \in {"valid", "kill", "join"} : At(c, op)

Next == /\ ~Raced
        /\ \/ MediaThread \/ Graphics \/ Request
           \/ \E c \in Callers : Call(c)

Spec == Init /\ [][Next]_vars

----------------------------------------------------------------------------
Settled ==
  /\ \A c \in Callers : Idle(c)
  /\ source.active = source.shown /\ ~source.defer_update /\ ~source.destroy_media
  /\ \/ at \in {"none", "exited"}
     \/ at = "wait" /\ media.sem = 0
     \/ at = "sleep" /\ ~media.reset

\* Whoever asked last is obeyed, however play, stop, the end of the file and
\* settings met: what was asked to play does, unless the end of the thread or
\* of the file swallowed it (lost); what was stopped does not, and stands at
\* its first frame to play again.  The thread never sleeps through its end,
\* and no frame is given to the source with a time before the last one.
PlaysAsAsked ==
  /\ Settled /\ wanted /\ ~lost => source.media_valid /\ media.active /\ at = "sleep"
  /\ Settled /\ ~wanted => ~media.active
  /\ Settled /\ at = "wait" /\ settings.seekable /\ decoder.found =>
       decoder.ready /\ decoder.pts = 0
  /\ At("graphics", "join") => ~(at = "wait" /\ media.sem = 0)
  /\ at = "play" /\ decoder.ready => timestamp > last

----------------------------------------------------------------------------
(* Why it does: what holds between the steps of the thread and the calls.  *)

\* What can come next in a call.
After == [update |-> {"updated"}, free |-> {"reopen", "closed"}, kill |-> {"join"},
          join |-> {"reopen", "closed"}, reopen |-> {"updated"},
          open |-> {"open", "play", "updated"}, valid |-> {"open", "play", "updated"},
          play |-> {"updated", "tick"}, updated |-> {"refs"}, refs |-> {"tick"},
          stop |-> {"tick"}, tick |-> {}, closed |-> {}]
Ops == DOMAIN After

Places == {"none", "open", "reset", "prepare", "stopped", "top", "wait", "sleep", "wake",
           "play", "next", "eof", "exited"}
Loop   == {"top", "wait", "sleep", "wake", "play", "next", "eof"}

TypeOK ==
  /\ settings \in [seekable : BOOLEAN, is_looping : BOOLEAN,
                   is_clear_on_media_end : BOOLEAN, close_when_inactive : BOOLEAN]
  /\ source \in [shown : BOOLEAN, active : BOOLEAN, defer_update : BOOLEAN,
                 destroy_media : BOOLEAN, media_valid : BOOLEAN]
  /\ media \in [active : BOOLEAN, stopping : BOOLEAN, looping : BOOLEAN,
                reset : BOOLEAN, kill : BOOLEAN, sem : Nat]
  /\ decoder \in [pos : Nat, found : BOOLEAN, eof : BOOLEAN, ready : BOOLEAN, pts : Nat,
                  next_pts : Nat, base_ts : Nat, start_ts : Nat]
  /\ local \in [active : BOOLEAN, stopping : BOOLEAN, then : {"exited", "top"}]
  /\ at \in Places /\ todo \in [Callers -> Seq(Ops)] /\ requests \in Nat
  /\ wanted \in BOOLEAN /\ lost \in BOOLEAN /\ last \in Int

InCall(op) == At("graphics", op)

\* The calls are made of their steps in order, to the end.
Calling ==
  /\ \A c \in Callers :
       /\ \A i \in 1..(Len(todo[c]) - 1) : todo[c][i + 1] \in After[todo[c][i]]
       /\ ~Idle(c) => todo[c][Len(todo[c])] \in {"play", "tick", "closed"}
  /\ \A i \in DOMAIN todo["hotkey"] : todo["hotkey"][i] \in {"open", "valid", "play"}

\* c will play when it has opened the media.
WillPlay(c) == Len(todo[c]) > 1 /\ todo[c][2] = "play"

\* There is a thread for the media, or nothing is set in it.
Opened ==
  /\ \A c \in Callers : /\ At(c, "valid") => ~source.media_valid /\ at # "none"
                        /\ At(c, "play") => source.media_valid
  /\ InCall("kill") \/ InCall("join") => source.media_valid
  /\ InCall("reopen") => ~source.media_valid
  /\ source.media_valid => at # "none"
  /\ ~source.media_valid =>
       /\ media = Closed
       /\ at = "none" \/ \E c \in Callers : At(c, "valid")
       /\ at \notin {"sleep", "wake", "play", "next", "eof"}

\* Nobody asks the thread for anything without waking it.
Woken ==
  /\ media.reset \/ media.kill => media.sem > 0 \/ at = "wake"
  /\ media.active /\ at = "wait" => media.sem > 0
  /\ media.kill => InCall("join")
  /\ InCall("join") => media.kill \/ at = "exited"

\* What the thread has read of active is true unless it will be reset.
Running ==
  /\ at \in Loop => local.then = "top"
  /\ at = "wait" => ~local.active
  /\ at \in {"sleep", "play", "next", "eof"} => local.active
  /\ at \in Loop \ {"top"} /\ local.active => media.active \/ media.reset

\* What was asked for is set, or the call that asks is still on its way.
Obeyed ==
  /\ at = "exited" \/ (at = "stopped" /\ local.then = "exited") => lost \/ InCall("join")
  /\ media.active => wanted
  /\ wanted /\ ~lost /\ ~media.active =>
       \/ InCall("kill") \/ InCall("join")
       \/ \E c \in Callers : At(c, "play") \/ (At(c, "valid") /\ WillPlay(c))
  /\ wanted /\ ~source.media_valid /\ InCall("open") => WillPlay("graphics")
  /\ At("hotkey", "open") \/ At("hotkey", "valid") => WillPlay("hotkey")

\* A thread that is not told to go on has found the first frame.
AtFirst ==
  settings.seekable /\ decoder.found =>
    /\ at = "prepare" => decoder.pos = 0 /\ ~decoder.eof /\ ~decoder.ready
    /\ at \in Loop \/ (at = "stopped" /\ local.then = "top") =>
         media.active \/ media.reset \/ (decoder.ready /\ decoder.pts = 0)

\* The next frame comes after the last one.
InTime ==
  /\ decoder.ready => decoder.pts < decoder.next_pts /\ decoder.pts < decoder.pos
  /\ decoder.pts <= decoder.next_pts
  /\ \/ decoder.pts <= decoder.pos
     \/ ~decoder.ready /\ ~decoder.eof /\ decoder.pos # Frames
  /\ last < decoder.base_ts + decoder.next_pts - decoder.start_ts
  /\ last < decoder.base_ts + (IF decoder.ready THEN decoder.pts ELSE decoder.pos)
              - decoder.start_ts
  /\ at = "prepare" => last < decoder.base_ts

IInv == TypeOK /\ Calling /\ Opened /\ Woken /\ Running /\ Obeyed /\ AtFirst /\ InTime
=============================================================================
