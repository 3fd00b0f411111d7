--------------------------- MODULE VideoPipeline ---------------------------
(***************************************************************************)
(* obs-video.c between the main loop and the frame cache (VideoOutput): a  *)
(* picture takes several ticks through the textures of the GPU, its time   *)
(* waits in vframe_info_buffer, and the two meet in output_frame.  Only    *)
(* the graphics thread runs here; obs_reset_video comes between two of its *)
(* lives.  A picture is the number of the tick that rendered it.           *)
(***************************************************************************)
EXTENDS Integers, Sequences

CONSTANTS
  NUM_TEXTURES,
  MaxTick, MaxCount         \* bounds: ticks, frame intervals in one tick

VARIABLES
  at,                       \* the graphics thread: "render" or "sleep"
  gpu_conversion,           \* of struct obs_core_video, as are the next four
  cur_texture,
  textures,                 \* what each texture holds, None while its flag is not set
  video_time,
  vframe_info_buffer,
  tick, failed, shown       \* history: ticks, failed downloads, the last frame output

vars == <<at, gpu_conversion, cur_texture, textures, video_time,
          vframe_info_buffer, tick, failed, shown>>

None  == 0
Empty == [s \in {"rendered", "output", "converted", "copied"} |->
            [i \in 0..(NUM_TEXTURES - 1) |-> None]]
Nothing(time) == [pic |-> None, tick |-> None, timestamp |-> None, due |-> None,
                  next |-> time, failed |-> 0]

Init == /\ at = "render" /\ gpu_conversion \in BOOLEAN
        /\ cur_texture = 0 /\ textures = Empty
        /\ video_time = 1 /\ vframe_info_buffer = <<>>
        /\ tick = 1 /\ failed = 0 /\ shown = Nothing(1)

prev_texture == (cur_texture + NUM_TEXTURES - 1) % NUM_TEXTURES

\* render_output_texture, render_convert_texture and stage_output_texture: from
\* the texture of the tick before, when there is one.
Pass(from, to) == IF from[prev_texture] = None THEN to
                  ELSE [to EXCEPT ![cur_texture] = from[prev_texture]]

render_video ==
  [rendered  |-> [textures.rendered EXCEPT ![cur_texture] = tick],
   output    |-> Pass(textures.rendered, textures.output),
   converted |-> IF gpu_conversion THEN Pass(textures.output, textures.converted)
                 ELSE textures.converted,
   copied    |-> Pass(IF gpu_conversion THEN textures.converted ELSE textures.output,
                      textures.copied)]

\* output_video_data: a frame with the time that has waited longest.
Show(pic) ==
  LET info == Head(vframe_info_buffer)
  IN /\ shown' = [pic |-> pic, tick |-> info.tick, timestamp |-> info.timestamp,
                  due |-> shown.next, next |-> info.timestamp + info.count,
                  failed |-> failed]
     /\ vframe_info_buffer' = Tail(vframe_info_buffer)

\* download_frame: gs_stagesurface_map may fail; the rest of output_frame.
Download(pic) ==
  \/ pic # None /\ Show(pic) /\ UNCHANGED failed
  \/ pic # None /\ failed' = failed + 1 /\ UNCHANGED <<vframe_info_buffer, shown>>
  \/ pic = None /\ UNCHANGED <<vframe_info_buffer, shown, failed>>

OutputFrame ==
  /\ at = "render" /\ at' = "sleep"
  /\ textures' = render_video
  /\ Download(textures'.copied[prev_texture])
  /\ cur_texture' = (cur_texture + 1) % NUM_TEXTURES
  /\ UNCHANGED <<gpu_conversion, video_time, tick>>

\* video_sleep: one interval, or as many as have gone by.
VideoSleep ==
  /\ at = "sleep" /\ tick < MaxTick /\ at' = "render"
  /\ \E count \in 1..MaxCount :
       /\ vframe_info_buffer' = Append(vframe_info_buffer,
            [timestamp |-> video_time, count |-> count, tick |-> tick])
       /\ video_time' = video_time + count
  /\ tick' = tick + 1
  /\ UNCHANGED <<gpu_conversion, cur_texture, textures, failed, shown>>

\* Mutant: the times of the old session stay.
ResetVideoKeep ==
  /\ at = "render"
  /\ gpu_conversion' \in BOOLEAN
  /\ cur_texture' = 0 /\ textures' = Empty
  /\ failed' = 0 /\ shown' = Nothing(video_time)
  /\ UNCHANGED <<at, video_time, vframe_info_buffer, tick>>

\* obs_reset_video, which stops the thread where it looks whether to go on:
\* stop_video, obs_free_video, obs_init_video.
ResetVideo ==
  /\ at = "render"
  /\ gpu_conversion' \in BOOLEAN
  /\ cur_texture' = 0 /\ textures' = Empty
  /\ vframe_info_buffer' = <<>>
  /\ failed' = 0 /\ shown' = Nothing(video_time)
  /\ UNCHANGED <<at, video_time, tick>>

Next == OutputFrame \/ VideoSleep \/ ResetVideo

Spec == Init /\ [][Next]_vars

----------------------------------------------------------------------------
\* Pictures and times stay in step: the frames put out since a reset follow each
\* other without a gap or an overlap, whatever was late or could not be mapped,
\* and each has the time of the tick that rendered its picture, but for one tick
\* for each frame that could not be mapped (output_frame pops the time only of a
\* frame that is ready: a lost frame leaves the picture late for good).
FramesInStep == shown.pic # None => /\ shown.timestamp = shown.due
                                    /\ shown.pic = shown.tick + shown.failed

----------------------------------------------------------------------------
(* Why: the inductive invariant, given s, the first tick since the reset.  *)

\* The tick whose picture is rendered next, and how many ticks later the picture
\* is downloaded.
Coming == IF at = "render" THEN tick ELSE tick + 1
Lag    == IF gpu_conversion THEN 4 ELSE 3

\* Each step has, in the texture before the current one, the picture rendered k
\* ticks ago; and nothing at all when there were not as many ticks.
Holds(texture, k, s) ==
  /\ texture \in [0..(NUM_TEXTURES - 1) -> Nat]
  /\ Coming - k >= s => texture[prev_texture] = Coming - k
  /\ Coming - k < s => \A i \in 0..(NUM_TEXTURES - 1) : texture[i] = None

Pipeline(s) ==
  /\ Holds(textures.rendered, 1, s) /\ Holds(textures.output, 2, s)
  /\ gpu_conversion => Holds(textures.converted, 3, s)
  /\ Holds(textures.copied, Lag, s)

\* The times that wait are those of the last ticks and follow each other, from
\* the one the next frame is due at to now.
Info == [timestamp : Nat, count : Nat, tick : Nat]
StartOf(i) == IF i > Len(vframe_info_buffer) THEN video_time ELSE vframe_info_buffer[i].timestamp
Times ==
  /\ \A i \in 1..Len(vframe_info_buffer) :
       /\ vframe_info_buffer[i].tick = tick + i - Len(vframe_info_buffer) - 1
       /\ vframe_info_buffer[i].timestamp + vframe_info_buffer[i].count = StartOf(i + 1)
  /\ shown.next = StartOf(1)

\* One waits for each tick since the reset, less one for each frame put out; a
\* picture that could not be mapped leaves its time behind.
Waiting(s) ==
  Len(vframe_info_buffer) = tick - s + failed - (IF Coming - Lag >= s THEN Coming - Lag - s ELSE 0)

TypeOK ==
  /\ at \in {"render", "sleep"} /\ gpu_conversion \in BOOLEAN
  /\ cur_texture \in 0..(NUM_TEXTURES - 1)
  /\ DOMAIN textures = {"rendered", "output", "converted", "copied"}
  /\ video_time \in Nat /\ vframe_info_buffer \in Seq(Info)
  /\ tick \in Nat \ {0} /\ failed \in Nat
  /\ shown \in [pic : Nat, tick : Nat, timestamp : Nat, due : Nat, next : Nat, failed : Nat]

Session(s) == Pipeline(s) /\ Waiting(s)

IInv == TypeOK /\ Times /\ FramesInStep /\ \E s \in 1..tick : Session(s)
=============================================================================
