--------------------------- MODULE EncoderPairing ---------------------------
(***************************************************************************)
(* obs-encoder.c, how a video and an audio encoder that were paired (by    *)
(* pair_encoders of obs-output.c) begin at the same time although audio    *)
(* and video reach them on threads of their own, any distance apart.  The  *)
(* outputs share the audio encoder and each have a video encoder of their  *)
(* own (of the same name here), as a stream and a recording do.  Time is   *)
(* counted in audio samples.  SharedEncoder has the mutexes and callbacks. *)
(***************************************************************************)
EXTENDS Integers, Sequences

CONSTANTS
  Outputs, Audio,           \* the outputs with their video encoders; the audio encoder
  BlockSize, framesize,     \* samples in a block of raw audio, in a packet
  FrameTime,                \* samples from one video frame to the next
  Apart,                    \* how far apart audio and video may come
  MaxTime, MaxStarts        \* bounds

VARIABLES
  encoder,                  \* struct obs_encoder of each encoder
  buffer,                   \* audio_input_buffer: the time of each sample
  receiving,                \* the time of the block in receive_audio, or None
  a_time, v_time,           \* the time of the next block and of the next frame
  output,                   \* how far each output has come
  starts, drift, left       \* history: starts; has a packet had a wrong time; is one left alone

vars == <<encoder, buffer, receiving, a_time, v_time, output, starts, drift, left>>

None == 0
Closed == [data |-> FALSE, callbacks |-> {}, paired |-> None, first_received |-> FALSE,
           first_raw_ts |-> None, start_ts |-> None, cur_pts |-> 0]

Init ==
  /\ encoder = [e \in Outputs \cup {Audio} |-> Closed]
  /\ buffer = <<>> /\ receiving = None
  /\ a_time = 1 /\ v_time \in 1..FrameTime
  /\ output = [o \in Outputs |-> "idle"]
  /\ starts = 0 /\ drift = FALSE /\ left = FALSE

Active(e) == encoder[e].callbacks # {}

----------------------------------------------------------------------------
(* Starting and stopping an output.                                        *)

Step(o, from, to) == output[o] = from /\ output' = [output EXCEPT ![o] = to]
Media == <<receiving, a_time, v_time, drift>>

\* obs_output_initialize_encoders
Initialize(o) ==
  /\ Step(o, "idle", "pair") /\ starts < MaxStarts
  /\ \A p \in Outputs : output[p] \in {"idle", "on", "stop"}  \* one thread starts outputs
  /\ encoder' = [e \in DOMAIN encoder |->
                   IF e \in {o, Audio} THEN [encoder[e] EXCEPT !.data = TRUE] ELSE encoder[e]]
  /\ starts' = starts + 1
  /\ UNCHANGED <<buffer, left, Media>>

\* pair_encoders, with find_inactive_audio_encoder
Pair(o) ==
  /\ Step(o, "pair", "audio")
  /\ encoder' = IF \E e \in {o, Audio} : Active(e) \/ encoder[e].paired # None
                THEN encoder
                ELSE [encoder EXCEPT ![o].paired = Audio, ![Audio].paired = o]
  /\ UNCHANGED <<buffer, starts, left, Media>>

\* obs_encoder_start
StartEncoder(e, o) ==
  encoder' = IF ~encoder[e].data THEN encoder
             ELSE [encoder EXCEPT ![e].callbacks = @ \cup {o},
                                  ![e].cur_pts = IF Active(e) THEN @ ELSE 0]

\* hook_data_capture
\* History: left also when an output starts without audio, as the one that
\* stopped meanwhile was its last user and has destroyed it.
StartAudio(o) ==
  /\ Step(o, "audio", "video") /\ StartEncoder(Audio, o)
  /\ left' = (left \/ ~encoder[Audio].data)
  /\ UNCHANGED <<buffer, starts, Media>>
StartVideo(o) ==
  /\ Step(o, "video", "on") /\ StartEncoder(o, o)
  /\ UNCHANGED <<buffer, starts, left, Media>>

\* obs_encoder_shutdown
Shutdown(e) == [Closed EXCEPT !.first_raw_ts = encoder[e].first_raw_ts]

\* obs_encoder_stop: the last callback closes the encoder.
StopEncoder(e, o) ==
  LET rest == encoder[e].callbacks \ {o}
  IN encoder' = [encoder EXCEPT ![e] = IF o \in encoder[e].callbacks /\ rest = {}
                                       THEN Shutdown(e)
                                       ELSE [encoder[e] EXCEPT !.callbacks = rest]]

\* end_data_capture_thread; disconnecting the audio waits for its callback.
\* History: left when audio is left behind that waits for this video.
StopVideo(o) ==
  /\ Step(o, "on", "stop") /\ StopEncoder(o, o)
  /\ left' = (left \/ (encoder[Audio].paired = o /\ encoder[Audio].start_ts = None))
  /\ UNCHANGED <<buffer, starts, Media>>
StopAudio(o) ==
  /\ Step(o, "stop", "idle") /\ receiving = None /\ StopEncoder(Audio, o)
  /\ UNCHANGED <<buffer, starts, left, Media>>

----------------------------------------------------------------------------
(* The audio thread: receive_audio, in two steps, as the video thread may  *)
(* see the first and the user interface may come in between.               *)

Block(time) == [i \in 1..BlockSize |-> time + i - 1]

ReceiveAudio ==
  /\ receiving = None /\ a_time < MaxTime /\ a_time - v_time <= Apart
  /\ a_time' = a_time + BlockSize
  /\ IF ~Active(Audio) THEN UNCHANGED <<receiving, encoder, buffer>>
     ELSE /\ receiving' = a_time
          /\ IF encoder[Audio].first_received THEN UNCHANGED <<encoder, buffer>>
             ELSE /\ encoder' = [encoder EXCEPT ![Audio].first_received = TRUE,
                                                ![Audio].first_raw_ts = a_time]
                  /\ buffer' = <<>>
  /\ UNCHANGED <<v_time, output, starts, drift, left>>

\* start_from_buffer
start_from_buffer(v_start) ==
  LET first == encoder[Audio].first_raw_ts
  IN SubSeq(buffer, 1 + (IF first < v_start THEN v_start - first ELSE 0), Len(buffer))

\* buffer_audio: the start time and the samples, from which packets are made
\* when there is a start time.
buffer_audio ==
  LET pair    == encoder[Audio].paired
      v_start == IF pair = None THEN receiving ELSE encoder[pair].start_ts
      cut     == IF receiving < v_start THEN v_start - receiving ELSE 0
      block   == Block(receiving)
  IN IF encoder[Audio].start_ts # None THEN
       [start |-> encoder[Audio].start_ts, samples |-> buffer \o block]
     ELSE IF pair = None THEN
       [start |-> receiving, samples |-> buffer \o block]
     ELSE IF v_start = None \/ receiving + BlockSize <= v_start THEN
       [start |-> None, samples |-> buffer \o block]
     ELSE IF receiving <= v_start THEN
       [start |-> v_start, samples |-> SubSeq(block, 1 + cut, BlockSize)]
     ELSE
       [start |-> v_start, samples |-> start_from_buffer(v_start) \o block]

\* send_audio_data and do_encode: whole packets, with their time.
BufferAudio ==
  LET r    == buffer_audio
      n    == IF r.start = None THEN 0 ELSE (Len(r.samples) \div framesize) * framesize
      from == encoder[Audio].cur_pts
  IN /\ receiving # None /\ receiving' = None
     /\ buffer' = SubSeq(r.samples, n + 1, Len(r.samples))
     /\ encoder' = [encoder EXCEPT ![Audio].start_ts = r.start, ![Audio].cur_pts = from + n]
     /\ drift' = (drift \/ \E i \in 1..n : r.samples[i] # r.start + from + i - 1)
     /\ UNCHANGED <<a_time, v_time, output, starts, left>>

----------------------------------------------------------------------------
(* The video thread: receive_video of every encoder that is connected.     *)

\* Mutant: the video does not wait for audio that is early enough.
WaitsForAny(o) ==
  LET pair == encoder[o].paired
  IN /\ ~encoder[o].first_received /\ pair # None
     /\ ~encoder[pair].first_received

WaitsForAudio(o) ==
  LET pair == encoder[o].paired
  IN /\ ~encoder[o].first_received /\ pair # None
     /\ ~encoder[pair].first_received \/ encoder[pair].first_raw_ts > v_time

ReceiveVideo ==
  /\ v_time < MaxTime /\ v_time - a_time <= Apart
  /\ v_time' = v_time + FrameTime
  /\ LET encodes == {o \in Outputs : Active(o) /\ ~WaitsForAudio(o)}
         start(o) == IF encoder[o].start_ts = None THEN v_time ELSE encoder[o].start_ts
     IN \E received \in SUBSET encodes :         \* whose encoder returns a packet
          /\ encoder' = [e \in DOMAIN encoder |->
               IF e \notin encodes THEN encoder[e]
               ELSE [encoder[e] EXCEPT !.start_ts = start(e), !.cur_pts = @ + FrameTime,
                                       !.first_received = @ \/ e \in received]]
          /\ drift' = (drift \/ \E o \in encodes : v_time # start(o) + encoder[o].cur_pts)
  /\ UNCHANGED <<buffer, receiving, a_time, output, starts, left>>

----------------------------------------------------------------------------
Next ==
  \/ \E o \in Outputs :
       \/ Initialize(o) \/ Pair(o) \/ StartAudio(o) \/ StartVideo(o)
       \/ StopVideo(o) \/ StopAudio(o)
  \/ ReceiveAudio \/ BufferAudio \/ ReceiveVideo

Spec == Init /\ [][Next]_vars

----------------------------------------------------------------------------
\* Every packet, of audio and of video, has the time at which its first sample
\* or its frame was captured, whoever came first and by how much: start_ts and
\* the count of what was encoded (dts_usec of do_encode) are the capture time.
\* Not so when the video audio waits for is stopped while another output keeps
\* the audio: it goes on waiting, for the next start of that video; nor when an
\* output starts without audio, its video waits for what others make of it.
TrueTime == drift => left

----------------------------------------------------------------------------
(* Why: the inductive invariant.                                           *)

Encoder ==
  [data : BOOLEAN, callbacks : SUBSET Outputs, paired : Outputs \cup {Audio, None},
   first_received : BOOLEAN, first_raw_ts : Nat, start_ts : Nat, cur_pts : Nat]

TypeOK ==
  /\ encoder \in [Outputs \cup {Audio} -> Encoder]
  /\ buffer \in Seq(Nat) /\ receiving \in Nat
  /\ a_time \in Nat \ {0} /\ v_time \in Nat \ {0}
  /\ output \in [Outputs -> {"idle", "pair", "audio", "video", "on", "stop"}]
  /\ drift \in BOOLEAN /\ left \in BOOLEAN

\* Outputs start one by one, and are called back from the start of an encoder to
\* its stop.
Connected ==
  /\ \A o, p \in Outputs :
       output[o] \in {"pair", "audio", "video"} /\ output[p] \in {"pair", "audio", "video"} => o = p
  /\ \A o \in Outputs :
       /\ encoder[o].callbacks = IF output[o] = "on" THEN {o} ELSE {}
       /\ output[o] \in {"pair", "audio", "video", "on"} => encoder[o].data
       /\ o \in encoder[Audio].callbacks <=> output[o] \in {"video", "on", "stop"}

\* An encoder that nobody uses, or that has not begun, is as new.
AsNew ==
  /\ \A e \in Outputs \cup {Audio} :
       /\ encoder[e].start_ts = None => encoder[e].cur_pts = 0
       /\ ~Active(e) => ~encoder[e].first_received /\ encoder[e].start_ts = None
  /\ \A o \in Outputs : encoder[o].start_ts = None => ~encoder[o].first_received
  /\ encoder[Audio].start_ts # None => encoder[Audio].first_received

\* A video has audio that waits for it, until the audio has begun.
Mutual ==
  /\ \A o \in Outputs : encoder[o].paired # None =>
       /\ encoder[o].paired = Audio /\ encoder[Audio].paired = o
       /\ output[o] \in {"audio", "video", "on"}
       /\ output[o] = "audio" => ~Active(Audio)
  /\ LET o == encoder[Audio].paired
     IN o # None => o \in Outputs /\ (encoder[Audio].start_ts = None => encoder[o].paired = Audio)

\* A video that has begun goes on, and began no earlier than its audio came.
VideoGoesOn ==
  \A o \in Outputs : encoder[o].start_ts # None =>
    /\ v_time = encoder[o].start_ts + encoder[o].cur_pts
    /\ encoder[o].paired # None =>
         encoder[Audio].first_received /\ encoder[Audio].first_raw_ts <= encoder[o].start_ts

\* The audio buffer ends where the next block begins, and begins with the next
\* packet or, until there is a start time, with the first block.
NextBlock == IF receiving = None THEN a_time ELSE receiving
BufferStart == IF encoder[Audio].start_ts = None THEN encoder[Audio].first_raw_ts
               ELSE encoder[Audio].start_ts + encoder[Audio].cur_pts
RunsFrom(samples, time) == \A i \in 1..Len(samples) : samples[i] = time + i - 1
AudioGoesOn ==
  /\ receiving # None => encoder[Audio].first_received /\ a_time = receiving + BlockSize
  /\ encoder[Audio].first_received =>
       /\ encoder[Audio].first_raw_ts # None
       /\ NextBlock = BufferStart + Len(buffer)
       /\ RunsFrom(buffer, BufferStart)
       /\ encoder[Audio].start_ts = None /\ encoder[Audio].paired = None =>
            receiving = encoder[Audio].first_raw_ts

IInv ==
  /\ TypeOK
  /\ ~left => Connected /\ AsNew /\ Mutual /\ VideoGoesOn /\ AudioGoesOn /\ ~drift
=============================================================================
