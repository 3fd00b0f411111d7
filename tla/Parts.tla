-------------------------------- MODULE Parts -------------------------------
(***************************************************************************)
(* The smaller machines of libobs, for TLC: those behind every object      *)
(* (ObjectRefs, SignalHandler), those that make raw video and audio        *)
(* (SceneTree, MediaPlayback, AsyncFrames, VideoPipeline, AudioBuffering), *)
(* and those that packets pass on their way to an output (EncoderPairing,  *)
(* Interleave, OutputDelay, RtmpQueue).  No two share state, so a          *)
(* behaviour is one of a single machine, in focus, while the others stay   *)
(* as they began.                                                          *)
(***************************************************************************)
EXTENDS Integers, Sequences

CONSTANTS
  Holders, Creator,                             \* ObjectRefs
  Signallers, Callbacks, MaxDepth,              \* SignalHandler
  Transitions, Scenes, Input, MaxCalls, MaxActions, \* SceneTree
  Frames, MediaFaults, MaxMediaCalls, MaxPlayed, \* MediaPlayback
  MAX_ASYNC_FRAMES, MAX_UNUSED_FRAME_DURATION,
  MaxAllocated, MaxHeld,                        \* AsyncFrames
  NUM_TEXTURES, MaxTick, MaxCount,              \* VideoPipeline
  Sources, AUDIO_OUTPUT_FRAMES, MAX_BUFFERING_TICKS, AudioBlock, Jump, FirstTick,
  MaxAudioTime, MaxLate, MaxJumps,              \* AudioBuffering
  Outputs, AudioEncoder, BlockSize, framesize, FrameTime, Apart,
  MaxPairTime, MaxPairStarts,                   \* EncoderPairing
  MaxMixes, VideoPeriod, AudioPeriod, KeyInterval, Starts,
  MaxVideo, MaxAudio,                           \* Interleave
  Encoders, Delay, Preserve, RetryMax, Restart,
  MaxDelayTime, MaxDelayStarts, MaxStops,       \* OutputDelay
  drop_threshold, pframe_drop_threshold, CheckFrom, MaxFrames, MaxLosses \* RtmpQueue

VARIABLES
  focus,
  ref, strong, weak, object, control, listed, mutex, pc, owners,
  callbacks, signalling, owner, loops, wanted,
  refs, channel, preview, transition, item, rendering, todo, tree_calls, torn,
  settings, media_source, media, decoder, media_at, local, media_todo,
  requests, media_wanted, lost, last,
  frame, alive, async, video_frames, producer, graphics, mode, misread,
  render_at, gpu_conversion, cur_texture, textures, video_time,
  vframe_info_buffer, tick, failed, shown,
  audio_at, audio_now, buffered_timestamps, ts, buffering_wait_ticks,
  total_buffering_ticks, buffered_ts, source, jumps, due, wrong,
  paired, buffer, receiving, a_time, v_time, pair_output, starts, drift, left,
  mixed, mixed_sent, first, videos, audios,
  now, queue, delay, output, encoder, ui, plugin, retry, end, calls,
  packets, min_priority, last_dts, send_sem, connected, frames, losses, sent

Refs      == INSTANCE ObjectRefs
Signals   == INSTANCE SignalHandler WITH Threads <- Signallers
Showing   == INSTANCE SceneTree WITH calls <- tree_calls
Playing   == INSTANCE MediaPlayback WITH source <- media_source, at <- media_at,
                                         todo <- media_todo, wanted <- media_wanted
Async     == INSTANCE AsyncFrames WITH source <- async, ui <- mode
Rendering == INSTANCE VideoPipeline WITH at <- render_at
Mixing    == INSTANCE AudioBuffering WITH at <- audio_at, now <- audio_now, Block <- AudioBlock,
                                          Start <- FirstTick, MaxTime <- MaxAudioTime
Pairing   == INSTANCE EncoderPairing WITH Audio <- AudioEncoder, encoder <- paired, output <- pair_output,
                                          MaxTime <- MaxPairTime, MaxStarts <- MaxPairStarts
Ordering  == INSTANCE Interleave WITH output <- mixed, sent <- mixed_sent
Delaying  == INSTANCE OutputDelay WITH MaxTime <- MaxDelayTime, MaxStarts <- MaxDelayStarts
Sending   == INSTANCE RtmpQueue WITH encoder <- frames

\* The object has a creator, and nobody is called like the mutex that is free.
ASSUME HoldersAssumption == Creator \in Holders /\ Refs!None \notin Holders

\* No thread is called like the owner of a mutex that is free.
ASSUME SignallersAssumption == Signals!None \notin Signallers

\* A media file has a frame.
ASSUME MediaAssumption == Frames \in Nat \ {0}

\* Where a drop is not considered yet, few enough frames wait.
ASSUME DropAssumption ==
  /\ pframe_drop_threshold \in Nat /\ drop_threshold \in Nat /\ CheckFrom \in Nat
  /\ CheckFrom <= pframe_drop_threshold + 4

\* A texture is filled while the one before it is read.
ASSUME TexturesAssumption == NUM_TEXTURES \in Nat \ {0, 1} /\ MaxCount \in Nat

\* As many frames as are ever allocated have a number.
ASSUME FramesAssumption == MaxAllocated \in Nat

\* Outputs and encoders have names of their own, and blocks, packets and frames
\* take time.
ASSUME PairingAssumption ==
  /\ BlockSize \in Nat \ {0} /\ framesize \in Nat \ {0} /\ FrameTime \in Nat \ {0}
  /\ AudioEncoder \notin Outputs /\ Pairing!None \notin Outputs \cup {AudioEncoder}

\* A tick has samples, and ticks wait within a limit.
ASSUME MixingAssumption ==
  /\ AUDIO_OUTPUT_FRAMES \in Nat \ {0} /\ AudioBlock \in Nat /\ MAX_BUFFERING_TICKS \in Nat
  /\ FirstTick \in Nat /\ MaxLate \in Nat /\ Jump \in Nat

refVars    == <<ref, strong, weak, object, control, listed, mutex, pc, owners>>
signalVars == <<callbacks, signalling, owner, loops, wanted>>
treeVars   == <<refs, channel, preview, transition, item, rendering, todo, tree_calls, torn>>
mediaVars  == <<settings, media_source, media, decoder, media_at, local, media_todo,
                requests, media_wanted, lost, last>>
asyncVars  == <<frame, alive, async, video_frames, producer, graphics, mode, misread>>
renderVars == <<render_at, gpu_conversion, cur_texture, textures, video_time,
                vframe_info_buffer, tick, failed, shown>>
mixVars    == <<audio_at, audio_now, buffered_timestamps, ts, buffering_wait_ticks,
                total_buffering_ticks, buffered_ts, source, jumps, due, wrong>>
pairVars   == <<paired, buffer, receiving, a_time, v_time, pair_output, starts, drift, left>>
orderVars  == <<mixed, mixed_sent, first, videos, audios>>
delayVars  == <<now, queue, delay, output, encoder, ui, plugin, retry, end, calls>>
sendVars   == <<packets, min_priority, last_dts, send_sem, connected, frames, losses, sent>>

objectVars == <<refVars, signalVars>>
rawVars    == <<treeVars, mediaVars, asyncVars, renderVars, mixVars>>
packetVars == <<pairVars, orderVars, delayVars, sendVars>>
vars       == <<focus, objectVars, rawVars, packetVars>>

Init == /\ focus \in {"refs", "signals", "tree", "media", "frames", "render",
                      "mix", "pair", "order", "delay", "send"}
        /\ Refs!Init /\ Signals!Init
        /\ Showing!Init /\ Playing!Init /\ Async!Init /\ Rendering!Init /\ Mixing!Init
        /\ Pairing!Init /\ Delaying!Init /\ Sending!Init
        /\ Ordering!Init
        \* what is out of focus begins in one way only
        /\ focus # "media" =>
             settings = [seekable |-> TRUE, is_looping |-> TRUE,
                         is_clear_on_media_end |-> TRUE, close_when_inactive |-> TRUE]
        /\ focus # "render" => gpu_conversion
        /\ focus # "pair" => v_time = 1
        /\ focus # "order" => first = CHOOSE f \in [video : Starts, audio : Ordering!MixStarts] : TRUE

Objects ==
  /\ UNCHANGED <<focus, rawVars, packetVars>>
  /\ \/ focus = "refs" /\ Refs!Next /\ UNCHANGED signalVars
     \/ focus = "signals" /\ Signals!Next /\ UNCHANGED refVars

Raw ==
  /\ UNCHANGED <<focus, objectVars, packetVars>>
  /\ \/ focus = "tree" /\ Showing!Next /\ UNCHANGED <<mediaVars, asyncVars, renderVars, mixVars>>
     \/ focus = "media" /\ Playing!Next /\ UNCHANGED <<treeVars, asyncVars, renderVars, mixVars>>
     \/ focus = "frames" /\ Async!Next /\ UNCHANGED <<treeVars, mediaVars, renderVars, mixVars>>
     \/ focus = "render" /\ Rendering!Next /\ UNCHANGED <<treeVars, mediaVars, asyncVars, mixVars>>
     \/ focus = "mix" /\ Mixing!Next /\ UNCHANGED <<treeVars, mediaVars, asyncVars, renderVars>>

Encoded ==
  /\ UNCHANGED <<focus, objectVars, rawVars>>
  /\ \/ focus = "pair" /\ Pairing!Next /\ UNCHANGED <<orderVars, delayVars, sendVars>>
     \/ focus = "order" /\ Ordering!Next /\ UNCHANGED <<pairVars, delayVars, sendVars>>
     \/ focus = "delay" /\ Delaying!Next /\ UNCHANGED <<pairVars, orderVars, sendVars>>
     \/ focus = "send" /\ Sending!Next /\ UNCHANGED <<pairVars, orderVars, delayVars>>

Next == Objects \/ Raw \/ Encoded

Spec == Init /\ [][Next]_vars

----------------------------------------------------------------------------
(* The properties of the modules.  A machine out of focus stays in the     *)
(* state it begins in, of which they hold.                                 *)

\* See ObjectRefs: a reference once gone is never given out again.
NeverRevived == focus = "refs" => Refs!NeverRevived

\* See ObjectRefs: object and counters go with the last who may touch them.
FreedInTime == focus = "refs" => Refs!FreedInTime

\* See SignalHandler: nobody calls a callback that was disconnected.
NeverCalledAfter == Signals!NeverCalledAfter

\* See SignalHandler: a signal reaches everyone who stays connected.
EveryoneIsCalled == focus = "signals" => Signals!EveryoneIsCalled

\* See SceneTree: a source counts as often as it is displayed.
CountedAsShown == focus = "tree" => Showing!CountedAsShown

\* See MediaPlayback: a media source plays when it was last asked to, and only then.
PlaysAsAsked == focus = "media" => Playing!PlaysAsAsked

\* See AsyncFrames: no frame is freed or filled while somebody has it.
FramesInPlace == focus = "frames" => Async!FramesInPlace

\* See VideoPipeline: a frame is output with the time it was rendered for.
FramesInStep == focus = "render" => Rendering!FramesInStep

\* See AudioBuffering: audio is heard at its own time, however late it came.
AudioInPlace == focus = "mix" => Mixing!AudioInPlace

\* See EncoderPairing: packets of both encoders carry times that agree.
TrueTime == focus = "pair" => Pairing!TrueTime

\* See Interleave: packets are sent in the order of their times.
SentOrdered == focus = "order" => Ordering!SentOrdered

\* See Interleave: the streams begin together and have no hole.
StreamsWhole == focus = "order" => Ordering!StreamsWhole

\* See OutputDelay: a session leaves nothing in the delay behind.
EndIsClean == focus = "delay" => Delaying!EndIsClean

\* See RtmpQueue: what is sent after dropping can be decoded and goes on.
StreamUsable == focus = "send" => Sending!StreamUsable
=============================================================================
