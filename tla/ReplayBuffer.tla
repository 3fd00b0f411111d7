---------------------------- MODULE ReplayBuffer ----------------------------
(***************************************************************************)
(* plugins/obs-ffmpeg/obs-ffmpeg-mux.c, the replay buffer: an output that  *)
(* keeps the last packets in memory, drops the oldest by whole groups of   *)
(* pictures, and on request has a thread of its own write them to a file.  *)
(* Four threads meet here: the user interface starts and stops it, an      *)
(* encoder thread brings packets, the hotkey thread asks for a save, and   *)
(* the mux thread writes, and ends the output when writing fails.          *)
(*                                                                         *)
(* Output control is abstract: OutputControl has its steps.  Packets come  *)
(* a unit of time apart, in order (Interleave), and only their kind, size  *)
(* and time are kept; there is one audio mix.                              *)
(***************************************************************************)
EXTENDS Integers, FiniteSets, Sequences, SequencesExt

CONSTANTS KeySize,          \* size of a keyframe; other packets have size 1
          MaxSize,          \* max_size_mb, 0 for no limit
          MaxTime,          \* max_time_sec
          Faults,           \* what may fail: "pipe", "write"
          Lags,             \* from the last packet's time to a request's
          MaxPackets,       \* bound: packets
          MaxStarts,        \* bound: starts
          MaxStops,         \* bound: calls to stop
          MaxSaves          \* bound: requests to save

\* A keyframe and any packet after it fit in: purging finds a place to stop.
ASSUME LimitsAssumption ==
  /\ KeySize \in Nat \ {0} /\ MaxSize \in Nat /\ MaxTime \in Nat \ {0}
  /\ MaxSize = 0 \/ MaxSize >= 2 * KeySize
ASSUME EnvironmentAssumption ==
  /\ Faults \subseteq {"pipe", "write"} /\ Lags \subseteq Nat \ {0}
  /\ {MaxPackets, MaxStarts, MaxStops, MaxSaves} \subseteq Nat

VARIABLES
  stream,                   \* struct ffmpeg_muxer, but for what mux has of it
  mux,                      \* the mux thread and its packets; history: the time
                            \* asked for, and whether a session's rest is in it
  enc,                      \* where the encoder thread is in replay_buffer_data
  hotkey,                   \* where the hotkey thread is in replay_buffer_hotkey
  output,                   \* the output, for its listeners
  clock,                    \* now, and the packets of this session
  calls,                    \* how often the bounded calls were made
  seen                      \* history: what the properties excuse

vars == <<stream, mux, enc, hotkey, output, clock, calls, seen>>

Never == -1

Init ==
  /\ stream = [packets |-> <<>>, cur_size |-> 0, cur_time |-> 0, keyframes |-> 0,
               max_size |-> 0, max_time |-> 0, save_ts |-> 0, stop_ts |-> 0,
               active |-> FALSE, stopping |-> FALSE, capturing |-> FALSE]
  /\ mux = [pc |-> "none", packets |-> <<>>, asked |-> 0, mixed |-> FALSE]
  /\ enc = "idle" /\ hotkey = "idle" /\ output = "off"
  /\ clock = [now |-> 0, begin |-> Never, keyed |-> FALSE]
  /\ calls = [starts |-> 0, stops |-> 0, saves |-> 0]
  /\ seen = [leftover |-> FALSE, crossed |-> FALSE]

----------------------------------------------------------------------------
(* The queue of packets.                                                   *)

IsKey(p) == p.type = "video" /\ p.key

SizeOf(s) == FoldLeft(LAMBDA sum, p : sum + p.size, 0, s)
KeysIn(s) == Len(SelectSeq(s, IsKey))

\* n times purge_front.
PurgeFront(st, n) ==
  LET gone == SubSeq(st.packets, 1, n)
      rest == SubSeq(st.packets, n + 1, Len(st.packets))
  IN [st EXCEPT !.packets = rest,
                !.keyframes = @ - KeysIn(gone),
                !.cur_size = IF rest = <<>> THEN 0 ELSE @ - SizeOf(gone),
                !.cur_time = IF n = 0 THEN @ ELSE IF rest = <<>> THEN 0 ELSE rest[1].dts]

\* How many packets have gone after so many calls of purge: it takes what goes
\* before the first keyframe one by one, then up to the next keyframe.
Cuts(s) == {n \in 0 .. Len(s) - 1 :
              IsKey(s[n + 1]) \/ \A i \in 1 .. n : ~IsKey(s[i])}

\* while (...) purge: to the first cut that fits.
PurgeWhile(st, fits) ==
  PurgeFront(st, CHOOSE n \in fits : \A m \in fits : n <= m)

\* Where the queue has room for p, in size and in time.
Smaller(st, p) == {n \in Cuts(st.packets) :
                     PurgeFront(st, n).cur_size + p.size <= st.max_size}
Shorter(st, p) == {n \in Cuts(st.packets) :
                     p.dts - PurgeFront(st, n).cur_time <= st.max_time}

Purgeable(st) == st.packets # <<>> /\ st.keyframes > 2

replay_buffer_purge(st, p) ==
  LET sized == IF st.max_size # 0 /\ Purgeable(st)
               THEN PurgeWhile(st, Smaller(st, p))
               ELSE st
  IN IF Purgeable(sized)
     THEN PurgeWhile(sized, Shorter(sized, p))
     ELSE sized

\* Mutant: the first packet's size is not counted.
PushUnsized(st, p) ==
  [st EXCEPT !.packets = Append(@, p),
             !.cur_time = IF st.packets = <<>> THEN p.dts ELSE @,
             !.cur_size = IF st.packets = <<>> THEN @ ELSE @ + p.size,
             !.keyframes = IF IsKey(p) THEN @ + 1 ELSE @]

\* A packet that is kept.
Push(st, p) ==
  [st EXCEPT !.packets = Append(@, p),
             !.cur_time = IF st.packets = <<>> THEN p.dts ELSE @,
             !.cur_size = @ + p.size,
             !.keyframes = IF IsKey(p) THEN @ + 1 ELSE @]

\* insert_packet, its time counted from the first packet of its stream in s.
InsertPacket(s, saved, p) ==
  LET first  == SelectSeq(s, LAMBDA q : q.type = p.type)[1]
      pkt    == [p EXCEPT !.dts = @ - first.dts]
      before == {i \in 1 .. Len(saved) : saved[i].dts < pkt.dts}
      idx    == IF before = {} THEN 0 ELSE CHOOSE i \in before : \A j \in before : j <= i
  IN InsertAt(saved, idx + 1, pkt)

\* The packets replay_buffer_save hands to the mux thread.
Reordered(s) == FoldLeft(LAMBDA saved, p : InsertPacket(s, saved, p), <<>>, s)

\* Mutant: the packets are left.
ClearCounters(st) == [st EXCEPT !.cur_size = SizeOf(st.packets), !.save_ts = 0,
                                !.max_size = 0, !.max_time = 0]

\* replay_buffer_clear
Clear(st) == [st EXCEPT !.packets = <<>>, !.cur_size = 0, !.cur_time = 0,
                        !.max_size = 0, !.max_time = 0, !.save_ts = 0, !.keyframes = 0]

----------------------------------------------------------------------------
(* The user interface, and the end of the output.                          *)

\* replay_buffer_start; obs_output_can_begin_data_capture has waited for the
\* thread that ended the session before.
Start ==
  /\ output = "off" /\ calls.starts < MaxStarts
  /\ stream' = [stream EXCEPT !.max_time = MaxTime, !.max_size = MaxSize,
                              !.active = TRUE, !.capturing = TRUE]
  /\ output' = "starting"
  /\ calls' = [calls EXCEPT !.starts = @ + 1]
  /\ UNCHANGED <<mux, enc, hotkey, clock, seen>>

BeginCapture ==
  /\ output = "starting"
  /\ output' = "on"
  /\ UNCHANGED <<stream, mux, enc, hotkey, clock, calls, seen>>

\* ffmpeg_mux_stop, for obs_output_stop and obs_output_force_stop (time 0).
Stop ==
  /\ output \in {"on", "ending"} /\ calls.stops < MaxStops
  /\ \E ts \in {0} \cup {clock.now + d : d \in Lags} :
       stream' = IF stream.capturing \/ ts = 0
                 THEN [stream EXCEPT !.stop_ts = ts, !.stopping = TRUE, !.capturing = FALSE]
                 ELSE stream
  /\ calls' = [calls EXCEPT !.stops = @ + 1]
  /\ UNCHANGED <<mux, enc, hotkey, output, clock, seen>>

\* obs_output_end_data_capture: a second call finds nothing to end.
Ended == IF output = "on" THEN "ending" ELSE output

\* Mutant: it does not wait for the encoder.
EndThreadAtOnce ==
  /\ output = "ending"
  /\ output' = "off"
  /\ clock' = [clock EXCEPT !.begin = Never, !.keyed = FALSE]
  /\ UNCHANGED <<stream, mux, enc, hotkey, calls, seen>>

\* end_data_capture_thread: obs_encoder_stop takes the mutex an encoder holds
\* while it is in the callback.
EndThread ==
  /\ output = "ending" /\ enc = "idle"
  /\ output' = "off"
  /\ clock' = [clock EXCEPT !.begin = Never, !.keyed = FALSE]
  /\ UNCHANGED <<stream, mux, enc, hotkey, calls, seen>>

----------------------------------------------------------------------------
(* The hotkey thread: active is read, then save_ts set.                    *)

Press ==
  /\ hotkey = "idle" /\ stream.active /\ calls.saves < MaxSaves
  /\ hotkey' = "pressed"
  /\ calls' = [calls EXCEPT !.saves = @ + 1]
  /\ UNCHANGED <<stream, mux, enc, output, clock, seen>>

SetSaveTs ==
  /\ hotkey = "pressed"
  /\ \E d \in Lags : stream' = [stream EXCEPT !.save_ts = clock.now + d]
  /\ hotkey' = "idle"
  /\ UNCHANGED <<mux, enc, output, clock, calls, seen>>

Hotkey == Press \/ SetSaveTs

----------------------------------------------------------------------------
(* The encoder thread, in replay_buffer_data.  interleave_packets drops    *)
(* the packets of an output that is off, and waits for a keyframe: a       *)
(* session's first video packet is one (pruning that discards it is left   *)
(* to Interleave).                                                         *)

Muxing == mux.pc # "none"

Packets ==
  LET begin == IF clock.begin = Never THEN clock.now + 1 ELSE clock.begin
  IN {p \in [type : {"video", "audio"}, key : BOOLEAN, size : {1, KeySize},
             dts : {clock.now + 1 - begin}, sys : {clock.now + 1}] :
        /\ p.type = "audio" => ~p.key
        /\ p.type = "video" => p.key \/ clock.keyed
        /\ p.size = IF IsKey(p) THEN KeySize ELSE 1}

Tick(p) == clock' = [now |-> p.sys, begin |-> p.sys - p.dts,
                     keyed |-> clock.keyed \/ IsKey(p)]

\* The packet that is past the time to stop at.
LastPacket ==
  /\ enc = "idle" /\ output \in {"on", "ending"} /\ clock.now < MaxPackets
  /\ stream.active /\ stream.stopping
  /\ \E p \in Packets : p.sys >= stream.stop_ts /\ Tick(p)
  /\ output' = Ended
  /\ enc' = "deactivate"
  /\ UNCHANGED <<stream, mux, hotkey, calls, seen>>

Deactivate ==
  /\ enc = "deactivate"
  /\ stream' = Clear([stream EXCEPT !.active = FALSE, !.stopping = FALSE])
  /\ enc' = "idle"
  /\ seen' = [seen EXCEPT !.leftover = FALSE]
  /\ UNCHANGED <<mux, hotkey, output, clock, calls>>

Data ==
  /\ enc = "idle" /\ output \in {"on", "ending"} /\ clock.now < MaxPackets
  /\ stream.active
  /\ \E p \in Packets :
       /\ stream.stopping => p.sys < stream.stop_ts
       /\ stream' = Push(replay_buffer_purge(stream, p), p)
       /\ Tick(p)
       /\ IF stream.save_ts # 0 /\ p.sys >= stream.save_ts /\ ~Muxing
          THEN enc' = "save" /\ mux' = [mux EXCEPT !.asked = stream.save_ts]
          ELSE UNCHANGED <<enc, mux>>
  /\ UNCHANGED <<hotkey, output, calls, seen>>

\* The thread of the save before has gone: it is joined, then made anew.
Save ==
  /\ enc = "save" /\ ~Muxing
  /\ stream' = [stream EXCEPT !.save_ts = 0]
  /\ mux' = [pc |-> "pipe", packets |-> Reordered(stream.packets),
             asked |-> mux.asked, mixed |-> seen.leftover]
  /\ enc' = "idle"
  /\ UNCHANGED <<hotkey, output, clock, calls, seen>>

Encoder == LastPacket \/ Deactivate \/ Data \/ Save

----------------------------------------------------------------------------
(* replay_buffer_mux_thread.                                               *)

MuxExit == mux' = [pc |-> "none", packets |-> <<>>, asked |-> 0, mixed |-> FALSE]

StartPipe ==
  /\ mux.pc = "pipe"
  /\ \/ mux' = [mux EXCEPT !.pc = "write"]
     \/ "pipe" \in Faults /\ MuxExit
  /\ UNCHANGED <<stream, enc, hotkey, output, clock, calls, seen>>

\* All that is left is written, or nothing is left.
Write ==
  /\ mux.pc = "write"
  /\ MuxExit
  /\ UNCHANGED <<stream, enc, hotkey, output, clock, calls, seen>>

\* Some packet, or header, cannot be written: for the first time, or because the
\* failure of one before has closed the pipe.
WriteFails ==
  /\ mux.pc = "write" /\ "write" \in Faults
  /\ mux' = [mux EXCEPT !.pc = "failing"]
  /\ UNCHANGED <<stream, enc, hotkey, output, clock, calls, seen>>

\* signal_failure: deactivate, with the pipe, up to its last line.
FailDeactivate ==
  /\ mux.pc = "failing"
  /\ mux' = [mux EXCEPT !.pc = "failed"]
  /\ stream' = [stream EXCEPT !.active = FALSE]
  /\ output' = IF stream.stopping THEN Ended ELSE output
  /\ seen' = [seen EXCEPT !.leftover = TRUE, !.crossed = @ \/ output = "starting"]
  /\ UNCHANGED <<enc, hotkey, clock, calls>>

\* signal_failure: obs_output_signal_stop.
FailSignal ==
  /\ mux.pc = "failed"
  /\ mux' = [mux EXCEPT !.pc = "signalled"]
  /\ stream' = [stream EXCEPT !.stopping = FALSE]
  /\ output' = Ended
  /\ seen' = [seen EXCEPT !.leftover = TRUE]
  /\ UNCHANGED <<enc, hotkey, clock, calls>>

FailDone ==
  /\ mux.pc = "signalled"
  /\ mux' = [mux EXCEPT !.pc = "write"]
  /\ stream' = [stream EXCEPT !.capturing = FALSE]
  /\ UNCHANGED <<enc, hotkey, output, clock, calls, seen>>

MuxThread == \/ StartPipe \/ Write \/ WriteFails
             \/ FailDeactivate \/ FailSignal \/ FailDone

Next == Start \/ BeginCapture \/ Stop \/ EndThread \/ Hotkey \/ Encoder \/ MuxThread

Spec == Init /\ [][Next]_vars

----------------------------------------------------------------------------
(* Properties.                                                             *)

Packet == [type : {"video", "audio"}, key : BOOLEAN, size : {1, KeySize},
           dts : -MaxPackets .. MaxPackets, sys : 1 .. MaxPackets]

Flags == {"active", "stopping", "capturing"}

TypeOK ==
  /\ stream.packets \in Seq(Packet) /\ stream.cur_size \in Nat
  /\ stream.cur_time \in 0 .. MaxPackets /\ stream.keyframes \in Nat
  /\ stream.max_size \in {0, MaxSize} /\ stream.max_time \in {0, MaxTime}
  /\ stream.save_ts \in Nat /\ stream.stop_ts \in Nat
  /\ \A f \in Flags : stream[f] \in BOOLEAN
  /\ mux.pc \in {"none", "pipe", "write", "failing", "failed", "signalled"}
  /\ mux.packets \in Seq(Packet) /\ mux.asked \in Nat /\ mux.mixed \in BOOLEAN
  /\ enc \in {"idle", "deactivate", "save"} /\ hotkey \in {"idle", "pressed"}
  /\ output \in {"off", "starting", "on", "ending"}
  /\ clock \in [now : 0 .. MaxPackets, begin : {Never} \cup 1 .. MaxPackets,
                keyed : BOOLEAN]
  /\ calls \in [starts : 0 .. MaxStarts, stops : 0 .. MaxStops, saves : 0 .. MaxSaves]
  /\ seen \in [leftover : BOOLEAN, crossed : BOOLEAN]

\* The queue is bounded, whatever the counters that the purging goes by say: with
\* more than three keyframes in it, it is within the limit of time and that of
\* size, through every purge, clear and session.
Bounded ==
  stream.active /\ KeysIn(stream.packets) > 3 =>
    /\ MaxSize # 0 => SizeOf(stream.packets) <= MaxSize
    /\ Last(stream.packets).dts - stream.packets[1].dts <= MaxTime

\* A file being saved holds packets of one session, without a gap, from a
\* keyframe up to the request; in the order of their times, which count from 0
\* in each stream, and in each stream in the order they came in.  Not so when a
\* failed save has left its packets in the queue.
FileWhole ==
  LET f      == mux.packets
      times  == {f[i].sys : i \in DOMAIN f}
      videos == SelectSeq(f, LAMBDA p : p.type = "video")
  IN f # <<>> /\ ~mux.mixed =>
       /\ \A s, t \in times : s .. t \subseteq times
       /\ \E t \in times : t >= mux.asked
       /\ \A i, j \in DOMAIN f :
            /\ i <= j => f[i].dts <= f[j].dts
            /\ f[i].type = f[j].type => f[j].sys - f[i].sys = f[j].dts - f[i].dts
       /\ f[1].dts = 0
       /\ videos # <<>> => IsKey(videos[1])

\* While its listeners take it for active, it takes packets or a thread is about
\* to end it; unless writing failed in the middle of another start.
BufferGoesOn ==
  output = "on" => stream.active \/ mux.pc = "failed" \/ seen.crossed
=============================================================================
