---------------------------- MODULE StreamOutput ----------------------------
(***************************************************************************)
(* plugins/obs-outputs/rtmp-stream.c, the streaming output: a thread       *)
(* connects to the server and begins the data capture, a thread sends the  *)
(* packets until the user stops the stream or sending fails; output        *)
(* control then reconnects.  Packets are not represented: one is there for *)
(* the send thread whenever the encoders feed the output.                  *)
(***************************************************************************)
EXTENDS OutputControl

CONSTANTS
  Connects,                 \* connect_threads there may be at a time
  Sends                     \* send_threads there may be at a time

ASSUME StreamAssumption ==
  Others = Connects \cup Sends /\ Connects \cap Sends = {}

VARIABLE stream             \* struct rtmp_stream

vars == <<control, stream>>

Init ==
  /\ InitControl({"connect", "send"})
  /\ stream = [connecting |-> FALSE, active |-> FALSE,
               stop_event |-> FALSE,    \* stopping(stream)
               force      |-> FALSE,    \* stop_ts is 0
               posted     |-> FALSE]    \* send_sem was posted by a forced stop

----------------------------------------------------------------------------
(* info.start and info.stop.                                               *)

StreamStart(t) ==
  /\ At(t, "start_plugin")
  /\ stream' = [stream EXCEPT !.connecting = TRUE]
  /\ Create(t, [at |-> pc[t].ret, arg |-> "ok", ret |-> "off"],
            "connect", Connects, "init_connect")
  /\ UNCHANGED <<output, heard>>

\* rtmp_stream_stop, up to the join of the connect thread.
StreamStop ==
  /\ At(UI, "stop_plugin")
  /\ IF stream.stop_event /\ Arg(UI) # "force"
     THEN Return(UI, None)
     ELSE Goto(UI, IF stream.connecting THEN "join_connect" ELSE "stop_ts")
  /\ UNCHANGED <<output, threads, heard, stream>>

\* Mutant: the wrong thread is joined.
JoinConnectWrong ==
  /\ At(UI, "join_connect") /\ Joinable("send")
  /\ Goto(UI, "stop_ts")
  /\ UNCHANGED <<output, threads, heard, stream>>

JoinConnect ==
  /\ At(UI, "join_connect") /\ Joinable("connect")
  /\ Goto(UI, "stop_ts")
  /\ UNCHANGED <<output, threads, heard, stream>>

StopTs ==
  /\ At(UI, "stop_ts")
  /\ stream' = [stream EXCEPT !.force = Arg(UI) = "force"]
  /\ IF stream.active THEN Goto(UI, "stop_event")
                      ELSE Call(UI, "signal_stop", "SUCCESS", pc[UI].ret)
  /\ UNCHANGED <<output, threads, heard>>

\* Mutant: the stop event is not signalled.
StopEventUnset ==
  /\ At(UI, "stop_event")
  /\ stream' = [stream EXCEPT !.posted = @ \/ stream.force]
  /\ Return(UI, None)
  /\ UNCHANGED <<output, threads, heard>>

StopEvent ==
  /\ At(UI, "stop_event")
  /\ stream' = [stream EXCEPT !.stop_event = TRUE, !.posted = @ \/ stream.force]
  /\ Return(UI, None)
  /\ UNCHANGED <<output, threads, heard>>

----------------------------------------------------------------------------
(* connect_thread.                                                         *)

InitConnect(t) ==
  /\ At(t, "init_connect")
  /\ stream.stop_event => Joinable("send")
  /\ Goto(t, "try_connect")
  /\ UNCHANGED <<output, threads, heard, stream>>

TryConnectFails(t) ==
  /\ At(t, "try_connect") /\ "connect" \in Faults
  /\ Call(t, "signal_stop", "ERROR", "connect_done")
  /\ UNCHANGED <<output, threads, heard, stream>>

\* Connected: init_send makes a new semaphore and a thread that waits on it.
InitSend(t) ==
  /\ At(t, "try_connect")
  /\ stream' = [stream EXCEPT !.active = TRUE, !.posted = FALSE]
  /\ Create(t, [at |-> "send_meta", arg |-> None, ret |-> "off"], "send", Sends, "send")
  /\ UNCHANGED <<output, heard>>

SendMeta(t) ==
  /\ At(t, "send_meta")
  /\ \/ Call(t, "begin_capture", None, "connect_done")
     \/ /\ "meta" \in Faults
        /\ Call(t, "signal_stop", "DISCONNECTED", "connect_done")
  /\ UNCHANGED <<output, threads, heard, stream>>

ConnectDone(t) ==
  /\ At(t, "connect_done")
  /\ IF stream.stop_event THEN UNCHANGED detached ELSE Detach("connect")
  /\ Goto(t, "connect_exit")
  /\ UNCHANGED <<output, handle, heard, stream>>

ConnectExit(t) ==
  /\ At(t, "connect_exit")
  /\ stream' = [stream EXCEPT !.connecting = FALSE]
  /\ Exit(t)
  /\ UNCHANGED <<output, handle, heard>>

ConnectThread(t) ==
  \/ InitConnect(t) \/ TryConnectFails(t) \/ InitSend(t)
  \/ SendMeta(t)    \/ ConnectDone(t)     \/ ConnectExit(t)
  \/ (Begin(t) \/ Ending(t) \/ Reconnecting(t)) /\ UNCHANGED stream

----------------------------------------------------------------------------
(* send_thread.                                                            *)

\* interleave_packets drops the packets of an output that is not active.
PacketSent == output.hooked /\ output.active /\ stream.active

\* Told to stop, it is woken by the post of a forced stop or sees a packet
\* that is past the time to stop at.  It waits on the newest send_sem.
SendStop(t) ==
  /\ At(t, "send") /\ t = handle["send"]
  /\ stream.stop_event
  /\ PacketSent \/ stream.posted
  /\ Goto(t, "send_end")
  /\ UNCHANGED <<output, threads, heard, stream>>

SendFails(t) ==
  /\ At(t, "send") /\ t = handle["send"]
  /\ "send" \in Faults
  /\ PacketSent /\ ~(stream.stop_event /\ stream.force)
  /\ Goto(t, "send_end")
  /\ UNCHANGED <<output, threads, heard, stream>>

\* The socket is closed.  Nobody will join a thread that was not told to stop.
SendEnd(t) ==
  /\ At(t, "send_end")
  /\ IF stream.stop_event
     THEN Call(t, "end_capture", "signal", "send_done") /\ UNCHANGED detached
     ELSE Call(t, "signal_stop", "DISCONNECTED", "send_done") /\ Detach("send")
  /\ UNCHANGED <<output, handle, heard, stream>>

SendDone(t) ==
  /\ At(t, "send_done")
  /\ stream' = [stream EXCEPT !.stop_event = FALSE]
  /\ Goto(t, "send_exit")
  /\ UNCHANGED <<output, threads, heard>>

SendExit(t) ==
  /\ At(t, "send_exit")
  /\ stream' = [stream EXCEPT !.active = FALSE]
  /\ Exit(t)
  /\ UNCHANGED <<output, handle, heard>>

SendThread(t) ==
  \/ SendStop(t) \/ SendFails(t) \/ SendEnd(t) \/ SendDone(t) \/ SendExit(t)
  \/ (Ending(t) \/ Reconnecting(t)) /\ UNCHANGED stream

----------------------------------------------------------------------------
UserThread ==
  \/ StreamStart(UI) \/ StreamStop \/ JoinConnect \/ StopTs \/ StopEvent
  \/ (User \/ Starting(UI) \/ Ending(UI) \/ Reconnecting(UI)) /\ UNCHANGED stream

RetryThread(t) ==
  \/ StreamStart(t)
  \/ (ReconnectThread(t) \/ Starting(t)) /\ UNCHANGED stream

EndThread(t) == (EndStop(t) \/ EndFinish(t)) /\ UNCHANGED stream

Next == \/ UserThread
        \/ \E t \in Reconnects : RetryThread(t)
        \/ \E t \in Connects : ConnectThread(t)
        \/ \E t \in Sends : SendThread(t)
        \/ \E t \in Ends : EndThread(t)

\* Every thread runs on, and the encoders go on delivering packets, among them
\* one past the time to stop at; neither the user nor a fault must act.
Fairness ==
  /\ WF_vars(UserThread /\ ~At(UI, "idle"))
  /\ \A t \in Reconnects : WF_vars(RetryThread(t))
  /\ \A t \in Connects : WF_vars(ConnectThread(t))
  /\ \A t \in Sends : WF_vars(SendThread(t) /\ (~At(t, "send") \/ stream.stop_event))
  /\ \A t \in Ends : WF_vars(EndThread(t))

Safety == Init /\ [][Next]_vars
Spec   == Safety /\ Fairness

----------------------------------------------------------------------------
(* Properties, with CapturePaired and OneEnding of OutputControl.          *)

Places ==
  {"start_plugin", "stop_plugin", "join_connect", "stop_ts", "stop_event",
   "init_connect", "try_connect", "send_meta", "connect_done", "connect_exit",
   "send", "send_end", "send_done", "send_exit"}

StreamType == [connecting : BOOLEAN, active : BOOLEAN, stop_event : BOOLEAN,
               force : BOOLEAN, posted : BOOLEAN]

TypeOK == ControlTypeOK({"connect", "send"}, Places) /\ stream \in StreamType

OneAtATime(kind) == \A t, u \in kind : ~At(t, "off") /\ ~At(u, "off") => t = u

\* One connection at a time: no thread of a connection that was lost, stopped
\* or refused is left when the next one begins to use the struct rtmp_stream.
OneConnection == OneAtATime(Connects) /\ OneAtATime(Sends)

\* While the listeners take the output for streaming or reconnecting, packets
\* reach the server or some thread is at work to end the stream or to connect.
StreamGoesOn ==
  obs_output_active /\ At(UI, "idle") =>
    \E t \in Threads \ {UI} :
      /\ ~At(t, "off")
      /\ At(t, "send") => t = handle["send"] /\ PacketSent

\* A stream that ends without the user asking for it ends with an error code:
\* the SUCCESS that every attempt to start again resets stop_code to is not
\* what the listeners hear.
NoSilentLoss == heard.code = "SUCCESS" => heard.requests > 0

\* A stream the user asked to stop stops, and its listeners hear of it.
StreamStops == heard.requests > 0 ~> ~obs_output_active
StopIsHeard == heard.requests > 0 ~> heard.stops > 0

\* obs_output_stop and obs_output_force_stop return ("Stops the output.").
StopReturns == At(UI, "actual_stop") ~> At(UI, "idle")

\* Reconnecting comes to an end: the output streams again or reports a stop.
ReconnectEnds == output.reconnecting ~> (output.active \/ heard.stops > 0)
=============================================================================
