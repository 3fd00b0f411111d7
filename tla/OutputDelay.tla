----------------------------- MODULE OutputDelay -----------------------------
(***************************************************************************)
(* libobs/obs-output-delay.c with the parts of obs-output.c that deal with *)
(* a delay: packets, starts and stops wait in a queue, and the encoder     *)
(* threads that deliver packets also carry out the starts and stops.       *)
(* OutputControl interleaves the steps of obs-output.c finely, without     *)
(* delay; here a step is what a thread does up to the next wait, or up to  *)
(* the next access to the queue.                                           *)
(*                                                                         *)
(* The plugin is rtmp-stream.c, the only output the user interface gives a *)
(* delay: a thread that connects, or sends, or neither.                    *)
(***************************************************************************)
EXTENDS Integers, Sequences

CONSTANTS
  Encoders,                 \* the encoder threads: video and audio
  Delay,                    \* delay_sec, in ticks of the clock
  Preserve,                 \* OBS_OUTPUT_DELAY_PRESERVE
  RetryMax,                 \* reconnect_retry_max
  Restart,                  \* may a stop in the queue be followed by a start?
  MaxTime, MaxStarts, MaxStops \* bounds

VARIABLES
  now,                      \* os_gettime_ns(): one tick for each packet
  queue,                    \* delay_data
  delay,                    \* delay_active, _capturing, _restart_refs, active_delay_ns
  output,                   \* the flags of OutputControl, and retries
  encoder,                  \* where each encoder thread is
  ui,                       \* where the user interface is
  plugin,                   \* struct rtmp_stream and its two threads
  retry,                    \* reconnect_thread
  end,                      \* end_data_capture_thread
  calls                     \* history: what the user asked, what was heard

vars == <<now, queue, delay, output, encoder, ui, plugin, retry, end, calls>>

Inactive == [active |-> FALSE, capturing |-> FALSE, restart_refs |-> 0, ns |-> 0]

Init ==
  /\ now = 0
  /\ queue = <<>>
  /\ delay = Inactive
  /\ output = [active |-> FALSE, data_active |-> FALSE, stopping |-> FALSE,
               reconnecting |-> FALSE, reconnect_stop |-> FALSE, retries |-> 0,
               hooked |-> FALSE]
  /\ encoder = [e \in Encoders |-> [at |-> "idle"]]
  /\ ui = "idle"
  /\ plugin = [connecting |-> FALSE, sending |-> FALSE, stop |-> "no"]
  /\ retry = "off"
  /\ end = "off"
  /\ calls = [starts |-> 0, stops |-> 0, forced |-> FALSE, late |-> FALSE, orphan |-> FALSE, short |-> FALSE]

Wrap == 1000               \* stands for 2^64: times are unsigned

Messages     == [msg : {"packet", "start", "stop"}, ts : Nat]
Message(msg) == [msg |-> msg, ts |-> now]
obs_output_active == output.active \/ output.reconnecting

----------------------------------------------------------------------------
(* Ending a capture.  The functions have the records of delay and output   *)
(* before and after; ends says whether the end thread is created.          *)

\* obs_output_end_data_capture_internal, once active and data_active hold: a
\* start that is due keeps the encoders and the queue going.
KeepsDelay(d) == d.active /\ d.restart_refs # 0

EndCapture(d, o) ==
  IF ~(o.active /\ o.data_active)
  THEN [d |-> d, o |-> o, ends |-> FALSE]
  ELSE IF KeepsDelay(d)
  THEN [d |-> [d EXCEPT !.capturing = FALSE], o |-> [o EXCEPT !.stopping = FALSE],
        ends |-> FALSE]
  ELSE [d |-> IF d.active THEN [d EXCEPT !.capturing = FALSE, !.active = FALSE] ELSE d,
        o |-> [o EXCEPT !.data_active = FALSE], ends |-> TRUE]

\* obs_output_end_data_capture: with nothing to end, the stop is over.
EndAndSignal(d, o) ==
  EndCapture(d, IF o.active /\ o.data_active THEN o ELSE [o EXCEPT !.stopping = FALSE])

\* The thread is joined before another is created.
Ended(r) == /\ r.ends => end = "off"
            /\ delay' = r.d /\ output' = r.o
            /\ end' = IF r.ends THEN "encoders" ELSE end

\* The flags after a loss that is reconnected.
Again(o, tried) ==
  [o EXCEPT !.reconnecting = TRUE, !.retries = tried + 1,
            !.reconnect_stop = o.reconnect_stop /\ output.reconnecting]

\* obs_output_signal_stop and output_reconnect.
SignalStop(loss) ==
  IF \/ output.reconnecting /\ loss # "success"
     \/ RetryMax # 0 /\ loss = "disconnected"
  THEN LET r     == EndCapture(IF delay.active THEN [delay EXCEPT !.restart_refs = @ + 1]
                                               ELSE delay, output)
           tried == IF output.reconnecting THEN output.retries ELSE 0
       IN IF tried >= RetryMax
          THEN /\ Ended(EndAndSignal([r.d EXCEPT !.active = FALSE],
                                     [r.o EXCEPT !.reconnecting = FALSE, !.retries = tried]))
               /\ UNCHANGED retry
          ELSE /\ Ended([d |-> r.d, o |-> Again(r.o, tried), ends |-> r.ends])
               /\ retry = "off" /\ retry' = "wait"
  ELSE /\ Ended(EndAndSignal([delay EXCEPT !.active = FALSE], output))
       /\ UNCHANGED retry

----------------------------------------------------------------------------
(* The plugin: rtmp_stream_start, _stop, connect_thread, send_thread.      *)

\* obs_output_can_begin_data_capture fails when there is a capture, and joins
\* the end thread; with a delay it does neither.
CanBegin == delay.active \/ ~output.active
InfoStart == IF CanBegin THEN plugin' = [plugin EXCEPT !.connecting = TRUE]
                         ELSE UNCHANGED plugin

\* ts or force; the caller has joined connect_thread.
InfoStop(how) ==
  IF plugin.stop # "no" /\ how = "ts" THEN UNCHANGED <<delay, output, plugin, retry, end>>
  ELSE IF plugin.sending THEN /\ plugin' = [plugin EXCEPT !.stop = how]
                              /\ UNCHANGED <<delay, output, retry, end>>
  ELSE SignalStop("success") /\ UNCHANGED plugin

\* hook_data_capture and the rest of obs_output_begin_data_capture, with a delay
\* that does not run yet; begin_delayed_capture when it does.
BeginCapture ==
  IF delay.active
  THEN /\ delay' = [delay EXCEPT !.capturing = TRUE]
       /\ output' = IF delay.capturing THEN output ELSE [output EXCEPT !.reconnecting = FALSE]
  ELSE IF output.active THEN UNCHANGED <<delay, output>>
  ELSE /\ delay' = [delay EXCEPT !.active = TRUE, !.ns = Delay]
       /\ output' = [output EXCEPT !.active = TRUE, !.data_active = TRUE,
                                   !.hooked = TRUE, !.reconnecting = FALSE]

\* connect_thread first joins a send thread that was told to stop.
Connecting == plugin.connecting /\ (plugin.sending => plugin.stop = "no")

Connected ==
  /\ Connecting
  /\ ~delay.active /\ ~output.active => end = "off"
  /\ BeginCapture
  /\ plugin' = [plugin EXCEPT !.connecting = FALSE, !.sending = TRUE]
  /\ calls' = [calls EXCEPT !.orphan = @ \/ calls.forced]
  /\ UNCHANGED <<now, queue, encoder, ui, retry, end>>

ConnectFails ==
  /\ Connecting
  /\ SignalStop("error")
  /\ plugin' = [plugin EXCEPT !.connecting = FALSE]
  /\ UNCHANGED <<now, queue, encoder, ui, calls>>

\* The send thread has what it waited for, or waited long enough, or failed.
SendStops ==
  /\ plugin.sending /\ plugin.stop # "no"
  /\ Ended(EndAndSignal(delay, output))
  /\ plugin' = [plugin EXCEPT !.sending = FALSE, !.stop = "no"]
  /\ UNCHANGED <<now, queue, encoder, ui, retry, calls>>

SendFails ==
  /\ plugin.sending /\ plugin.stop = "no"
  /\ SignalStop("disconnected")
  /\ plugin' = [plugin EXCEPT !.sending = FALSE]
  /\ UNCHANGED <<now, queue, encoder, ui, calls>>

----------------------------------------------------------------------------
(* reconnect_thread and end_data_capture_thread.                           *)

\* obs_output_actual_start, once stopping_event is signalled.
ActualStart ==
  /\ ~output.stopping
  /\ ~delay.active => end = "off"
  /\ InfoStart
  /\ delay' = [delay EXCEPT !.restart_refs = IF @ = 0 THEN 0 ELSE @ - 1]

RetryStart ==
  /\ retry = "wait" /\ ~output.reconnect_stop
  /\ ~plugin.connecting /\ ~plugin.sending
  /\ ActualStart
  /\ retry' = "off"
  /\ UNCHANGED <<now, queue, output, encoder, ui, end, calls>>

RetryStopped ==
  /\ retry = "wait" /\ output.reconnect_stop
  /\ output' = [output EXCEPT !.reconnecting = FALSE]
  /\ retry' = "off"
  /\ UNCHANGED <<now, queue, delay, encoder, ui, plugin, end, calls>>

\* obs_encoder_stop waits for callbacks that are under way; it is given the
\* callback that active_delay_ns tells.
EndEncoders ==
  /\ end = "encoders" /\ \A e \in Encoders : encoder[e].at = "idle"
  /\ end' = "cleanup"
  /\ output' = [output EXCEPT !.hooked = @ /\ delay.ns = 0]
  /\ UNCHANGED <<now, queue, delay, encoder, ui, plugin, retry, calls>>

\* Mutant: the references stay.
CleanupQueue ==
  /\ queue' = <<>>
  /\ delay' = [delay EXCEPT !.ns = 0]

\* obs_output_cleanup_delay
Cleanup ==
  /\ queue' = <<>>
  /\ delay' = [delay EXCEPT !.ns = 0, !.restart_refs = 0]

EndCleanup ==
  /\ end = "cleanup"
  /\ IF delay.ns # 0 THEN Cleanup ELSE UNCHANGED <<queue, delay>>
  /\ output' = [output EXCEPT !.active = FALSE, !.stopping = FALSE]
  /\ end' = "off"
  /\ UNCHANGED <<now, encoder, ui, plugin, retry, calls>>

----------------------------------------------------------------------------
(* The encoder threads.                                                    *)

\* process_delay: push_packet.
ProcessDelay(e) ==
  /\ encoder[e].at = "idle" /\ output.hooked /\ now < MaxTime
  /\ now' = now + 1
  /\ queue' = Append(queue, Message("packet"))
  /\ encoder' = [encoder EXCEPT ![e] = [at |-> "pop", t |-> now]]
  /\ UNCHANGED <<delay, output, ui, plugin, retry, end, calls>>

\* pop_packet.  t may be older than a packet of the other thread.  History:
\* short when a delay that is preserved is preserved as none at all.
PopPacket(e) ==
  /\ encoder[e].at = "pop"
  /\ LET t       == encoder[e].t
         elapsed == (t - Head(queue).ts) % Wrap
         done    == [encoder EXCEPT ![e] = [at |-> "idle"]]
     IN IF queue = <<>> THEN encoder' = done /\ UNCHANGED <<queue, delay, calls>>
        ELSE IF Preserve /\ output.reconnecting
        THEN /\ delay' = [delay EXCEPT !.ns = elapsed]
             /\ calls' = [calls EXCEPT !.short = @ \/ elapsed = 0]
             /\ encoder' = done /\ UNCHANGED queue
        ELSE IF elapsed > delay.ns
        THEN /\ queue' = Tail(queue)
             /\ encoder' = [encoder EXCEPT ![e] = [at |-> "process", t |-> t, dd |-> Head(queue)]]
             /\ UNCHANGED <<delay, calls>>
        ELSE encoder' = done /\ UNCHANGED <<queue, delay, calls>>
  /\ UNCHANGED <<now, output, ui, plugin, retry, end>>

Processing(e, msg) == encoder[e].at = "process" /\ encoder[e].dd.msg = msg
Processed(e) == encoder' = [encoder EXCEPT ![e] = [at |-> "pop", t |-> encoder[e].t]]

\* process_delay_data: a packet is delivered or dropped.
ProcessPacket(e) ==
  /\ Processing(e, "packet")
  /\ Processed(e)
  /\ UNCHANGED <<now, queue, delay, output, ui, plugin, retry, end, calls>>

ProcessStart(e) ==
  /\ Processing(e, "start")
  /\ ActualStart
  /\ Processed(e)
  /\ UNCHANGED <<now, queue, output, ui, retry, end, calls>>

\* obs_output_actual_stop, not forced: a stop that is under way is enough.
ProcessStop(e) ==
  /\ Processing(e, "stop")
  /\ IF output.stopping THEN Processed(e) /\ UNCHANGED output
     ELSE /\ output' = [output EXCEPT !.stopping = TRUE,
                          !.reconnect_stop = @ \/ output.reconnecting]
          /\ encoder' = [encoder EXCEPT ![e] = [at |-> "stop", t |-> encoder[e].t]]
  /\ UNCHANGED <<now, queue, delay, ui, plugin, retry, end, calls>>

\* reconnect_thread and connect_thread have been joined.
StopPlugin(e) ==
  /\ encoder[e].at = "stop" /\ retry = "off" /\ ~plugin.connecting
  /\ InfoStop("ts")
  /\ Processed(e)
  /\ UNCHANGED <<now, queue, ui, calls>>

----------------------------------------------------------------------------
(* The user interface.                                                     *)

StopQueued == \E i \in DOMAIN queue : queue[i].msg = "stop"

\* Nothing of a session is left in the plugin or on its way to it.
PluginIdle == ~plugin.connecting /\ ~plugin.sending /\ retry = "off"

\* obs_output_delay_start.  The user interface starts an output that is not
\* active; a program may also start one again whose stop is in the queue.
DelayStart ==
  /\ ui = "idle" /\ calls.starts < MaxStarts
  /\ ~obs_output_active \/ (Restart /\ StopQueued /\ delay.active /\ ~output.reconnecting)
  /\ IF delay.active THEN TRUE ELSE ~output.active /\ end = "off"
  /\ queue' = Append(queue, Message("start"))
  /\ delay' = [delay EXCEPT !.restart_refs = @ + 1]
  /\ ui' = "begin"
  /\ calls' = [calls EXCEPT !.starts = @ + 1, !.forced = FALSE,
                            !.orphan = @ \/ (calls.forced /\ ~PluginIdle)]
  /\ UNCHANGED <<now, output, encoder, plugin, retry, end>>

\* The second half: the capture begins now, unless it goes on.
DelayBegin ==
  /\ ui = "begin"
  /\ ui' = "idle"
  /\ IF delay.active THEN UNCHANGED <<queue, delay, output>>
     ELSE IF output.active THEN Cleanup /\ UNCHANGED output
     ELSE BeginCapture /\ UNCHANGED queue
  /\ UNCHANGED <<now, encoder, plugin, retry, end, calls>>

\* obs_output_stop
OutputStop ==
  /\ ui = "idle" /\ calls.stops < MaxStops
  /\ output.active /\ ~output.reconnecting /\ delay.ns # 0
  /\ ui' = "delay_stop"
  /\ calls' = [calls EXCEPT !.stops = @ + 1]
  /\ UNCHANGED <<now, queue, delay, output, encoder, plugin, retry, end>>

\* obs_output_delay_stop; history: late when the capture has ended meanwhile.
DelayStop ==
  /\ ui = "delay_stop"
  /\ queue' = Append(queue, Message("stop"))
  /\ ui' = "idle"
  /\ calls' = [calls EXCEPT !.late = @ \/ delay.ns = 0]
  /\ UNCHANGED <<now, delay, output, encoder, plugin, retry, end>>

\* obs_output_force_stop, also from obs_output_stop while reconnecting.
ForceStop ==
  /\ ui = "idle" /\ calls.stops < MaxStops /\ obs_output_active
  /\ output' = [output EXCEPT !.stopping = TRUE,
                  !.reconnect_stop = @ \/ output.reconnecting]
  /\ ui' = "force"
  /\ calls' = [calls EXCEPT !.stops = @ + 1, !.forced = TRUE]
  /\ UNCHANGED <<now, queue, delay, encoder, plugin, retry, end>>

\* With a delay: the capture ends, without the plugin unless packets reach it.
ForceEnd ==
  /\ ui = "force" /\ (output.reconnect_stop => retry = "off")
  /\ IF delay.active
     THEN LET r == EndAndSignal([delay EXCEPT !.active = FALSE, !.capturing = FALSE], output)
          IN /\ Ended([d |-> r.d, o |-> [r.o EXCEPT !.stopping = FALSE], ends |-> r.ends])
             /\ ui' = IF delay.capturing THEN "force_stop" ELSE "idle"
     ELSE ui' = "force_stop" /\ UNCHANGED <<delay, output, end>>
  /\ UNCHANGED <<now, queue, encoder, plugin, retry, calls>>

ForcePlugin ==
  /\ ui = "force_stop" /\ ~plugin.connecting
  /\ InfoStop("force")
  /\ ui' = "idle"
  /\ UNCHANGED <<now, queue, encoder, calls>>

----------------------------------------------------------------------------
Next ==
  \/ Connected \/ ConnectFails \/ SendStops \/ SendFails
  \/ RetryStart \/ RetryStopped \/ EndEncoders \/ EndCleanup
  \/ \E e \in Encoders :
       \/ ProcessDelay(e) \/ PopPacket(e) \/ ProcessPacket(e)
       \/ ProcessStart(e) \/ ProcessStop(e) \/ StopPlugin(e)
  \/ DelayStart \/ DelayBegin \/ OutputStop \/ DelayStop
  \/ ForceStop \/ ForceEnd \/ ForcePlugin

Spec == Init /\ [][Next]_vars

----------------------------------------------------------------------------
TypeOK ==
  /\ now \in Nat
  /\ queue \in Seq(Messages)
  /\ delay \in [active : BOOLEAN, capturing : BOOLEAN, restart_refs : Nat, ns : Nat]
  /\ output \in [active : BOOLEAN, data_active : BOOLEAN, stopping : BOOLEAN,
                 reconnecting : BOOLEAN, reconnect_stop : BOOLEAN, retries : Nat,
                 hooked : BOOLEAN]
  /\ encoder \in [Encoders -> [at : {"idle"}] \cup [at : {"pop", "stop"}, t : Nat]
                              \cup [at : {"process"}, t : Nat, dd : Messages]]
  /\ ui \in {"idle", "begin", "delay_stop", "force", "force_stop"}
  /\ plugin \in [connecting : BOOLEAN, sending : BOOLEAN, stop : {"no", "ts", "force"}]
  /\ retry \in {"off", "wait"}
  /\ end \in {"off", "encoders", "cleanup"}
  /\ calls \in [starts : Nat, stops : Nat, forced : BOOLEAN, late : BOOLEAN,
                orphan : BOOLEAN, short : BOOLEAN]

AtRest == ui = "idle" /\ end = "off" /\ ~obs_output_active

\* No anomaly so far: a stop that was queued after the capture had ended, threads
\* of the plugin that survived a forced stop, a delay preserved as none at all.
Clean == ~(calls.late \/ calls.orphan \/ calls.short)

\* What ends leaves nothing behind that the next start would find: no stop or
\* start of before, no reference that would keep its delay running, no flag.
EndIsClean == AtRest /\ Clean => queue = <<>> /\ delay = Inactive

\* Why that is so: a capture that ends has a delay to clean up, has left it before,
\* and what was queued before a start is gone; unless it was forced to end, the
\* plugin is idle by then.  A start waits at the head of the queue, and while it
\* does, or is carried out, the plugin is idle and the delay keeps running.
StartWaits == \/ \E i \in DOMAIN queue : queue[i].msg = "start"
              \/ \E e \in Encoders : Processing(e, "start")

OneStart ==
  /\ \A i \in DOMAIN queue :
       queue[i].msg = "start" => i = 1 /\ \A e \in Encoders : ~Processing(e, "start")
  /\ \A e, f \in Encoders : Processing(e, "start") /\ Processing(f, "start") => e = f

EncodersIdle == \A e \in Encoders : encoder[e].at = "idle"

Resting ==
  /\ ~output.active /\ ~output.data_active /\ ~output.hooked
  /\ ~delay.active /\ ~delay.capturing /\ delay.ns = 0
  /\ end = "off" /\ EncodersIdle /\ OneStart
  /\ IF ui = "begin" THEN delay.restart_refs = 1 /\ ~calls.forced
                     ELSE delay.restart_refs = 0 /\ queue = <<>>
  /\ ~calls.forced => PluginIdle /\ ~output.reconnecting

Running ==
  /\ output.active /\ output.data_active /\ output.hooked
  /\ delay.active /\ delay.ns # 0
  /\ end = "off" /\ OneStart /\ ui \notin {"begin", "force_stop"}
  /\ calls.forced => ui = "force"
  /\ delay.capturing <=> plugin.sending
  /\ \/ PluginIdle /\ ~output.reconnecting /\ delay.restart_refs = 1
     \/ /\ ~StartWaits /\ ~plugin.connecting /\ ~plugin.sending
        /\ retry = "wait" /\ output.reconnecting /\ delay.restart_refs = 1
     \/ /\ ~StartWaits /\ plugin.connecting /\ ~plugin.sending
        /\ retry = "off" /\ delay.restart_refs = 0
     \/ /\ ~StartWaits /\ ~plugin.connecting /\ plugin.sending
        /\ retry = "off" /\ ~output.reconnecting /\ delay.restart_refs = 0

Finishing ==
  /\ output.active /\ ~output.data_active
  /\ ~delay.active /\ ~delay.capturing /\ delay.ns # 0
  /\ ui # "begin"
  /\ \/ end = "encoders"
     \/ end = "cleanup" /\ ~output.hooked /\ EncodersIdle
  /\ ~calls.forced => PluginIdle /\ ~output.reconnecting

Forcing == ui \in {"force", "force_stop"} => calls.forced

IInv == TypeOK /\ Forcing /\ (Clean => Resting \/ Running \/ Finishing)

\* After a forced stop the output does not become active again by itself.
ForcedStopHolds == [][~output.active /\ output'.active => ~calls.forced]_vars
=============================================================================
