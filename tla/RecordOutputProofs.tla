-------------------------- MODULE RecordOutputProofs --------------------------
(***************************************************************************)
(* Safety of the recording output for any number of end threads, starts    *)
(* and stops, and whichever calls fail.  IInv is the inductive invariant   *)
(* (IInvHolds); the properties of the runs follow from it.                 *)
(*                                                                         *)
(* The argument: the encoder thread in ffmpeg_mux_data is the only one     *)
(* that creates an end thread, it closes the file first, and the end       *)
(* thread cannot unhook the encoders before that callback has returned     *)
(* (InCallback).  The user's next obs_output_start cannot pass             *)
(* obs_output_can_begin_data_capture before that end thread has gone       *)
(* (BeginAlone).  Output control's other half, reconnecting, never starts: *)
(* a recording fails with the code ERROR.                                  *)
(***************************************************************************)
EXTENDS RecordOutput, TLAPS

EndsOff == \A t \in Ends : At(t, "off")

\* Where each thread can be, and what it will return to.
UserOK ==
  \/ pc[UI].at \in {"idle", "started"}
  \/ /\ pc[UI].at \in {"actual_start", "can_begin", "initialize", "start_plugin",
                       "begin_capture", "activate", "signal_start"}
     /\ pc[UI].ret = "started"
  \/ /\ pc[UI].at \in {"force_stop", "actual_stop", "stop_reconnect", "stop_plugin"}
     /\ pc[UI].ret = "idle"

EncoderOK ==
  \/ pc[Packets].at \in {"off", "deactivate", "deactivated", "failure"}
  \/ /\ pc[Packets].at = "signal_stop"
     /\ pc[Packets].arg = "ERROR" /\ pc[Packets].ret = "failure"
  \/ /\ pc[Packets].at \in {"end_capture", "end_data", "join_end", "create_end",
                            "hear_stop"}
     /\ pc[Packets].arg = "signal"
     /\ pc[Packets].ret \in {"deactivated", "failure"}

\* An output that never reconnects has no reconnect thread.
ThreadPlaces ==
  /\ UserOK /\ EncoderOK
  /\ \A t \in Ends : pc[t].at \in {"off", "end", "end_inactive", "end_event", "end_exit"}
  /\ \A t \in Reconnects : At(t, "off")

\* The end thread that runs is the one the next join waits for.
EndKnown ==
  /\ \A t \in Ends : ~At(t, "off") => handle["end"] = t /\ output.ending
  /\ At(Packets, "create_end") => EndsOff

\* What holds of the capture while the end thread goes its way.
EndSteps ==
  \A t \in Ends :
    /\ At(t, "end_inactive") => ~output.hooked
    /\ At(t, "end_event") \/ At(t, "end_exit") => ~output.active

\* The end thread cannot unhook the encoders while they are in a callback.
InCallback == ~At(Packets, "off") => output.hooked /\ output.active

\* A start that got past obs_output_can_begin_data_capture has the output alone.
BeginAlone ==
  /\ pc[UI].at \in {"initialize", "start_plugin", "begin_capture", "activate"} =>
       EndsOff /\ ~output.active
  /\ At(UI, "activate") => output.hooked /\ output.data_active

\* The file: closed before the capture is ended, and before the next one.
FileClosed ==
  /\ pc[Packets].at \notin {"off", "deactivate"} => ~mux.active
  /\ ~EndsOff => ~mux.active
  /\ mux.active => output.active \/ At(UI, "begin_capture") \/ At(UI, "activate")
  /\ At(UI, "begin_capture") \/ At(UI, "activate") => mux.active

\* A callback that closed the file does not return before the end thread of
\* the capture was created.
EndComing ==
  /\ At(Packets, "deactivate") /\ ~mux.failing => mux.stopping
  /\ \/ At(Packets, "hear_stop") \/ At(Packets, "failure")
     \/ At(Packets, "deactivated") /\ ~mux.failing
     => \E t \in Ends : At(t, "end")
  /\ output.active /\ At(Packets, "off") /\ EndsOff => mux.active

CaptureInv == /\ EndKnown   /\ EndSteps   /\ InCallback /\ BeginAlone
              /\ FileClosed /\ EndComing  /\ CapturePaired

\* The types of pc, of output, heard and mux.
PcOK == pc \in [Threads -> PcType(Places)]

StateOK ==
  /\ output \in OutputType /\ heard \in HeardType /\ mux \in MuxType
  /\ handle \in [{"end", "reconnect"} -> Threads \cup {None}]
  /\ detached \subseteq Threads

IInv == /\ PcOK /\ StateOK
        /\ ThreadPlaces /\ detached = {} /\ output.reconnecting = FALSE
        /\ CaptureInv

----------------------------------------------------------------------------
(* The types, and the places of the threads.                               *)

USE DEF At, Arg, threads

\* The threads are different ones.
LEMMA OthersAre ==
  /\ Others = {Packets} /\ Packets \in Threads /\ UI \in Threads /\ Packets # UI
  /\ \A t \in Ends : t \in Threads /\ t # UI /\ t # Packets /\ t # None
  /\ \A t \in Threads : t = UI \/ t = Packets \/ t \in Ends \/ t \in Reconnects
  BY PacketsAssumption, ThreadsAssumption DEF Threads

\* Every step is one of these actions, and changes mux only where it says so.
LEMMA StepCases ==
  ASSUME Next
  PROVE \/ MuxStartFails \/ MuxStart \/ MuxStop
        \/ User /\ mux' = mux
        \/ Starting(UI) /\ mux' = mux
        \/ Begin(UI) /\ mux' = mux
        \/ WritePacket \/ Packet \/ Deactivate \/ Deactivated \/ SignalledFailure
        \/ Ending(Packets) /\ mux' = mux
        \/ \E t \in Ends : /\ \/ EndStop(t) /\ At(Packets, "off")
                              \/ EndFinish(t)
                           /\ mux' = mux
  BY DEF Next, UserThread, Encoder, EndThread

\* A thread goes to a location of the code, with an argument it can have.
LEMMA PcStep ==
  ASSUME PcOK, Next PROVE PcOK'
<1>. USE OthersAre DEF PcOK, PcType, Locations, Places, Arguments, Codes, None,
                       Goto, Call, Return
<1>1. CASE MuxStartFails
  BY <1>1 DEF MuxStartFails
<1>2. CASE MuxStart
  BY <1>2 DEF MuxStart
<1>3. CASE MuxStop
  BY <1>3 DEF MuxStop
<1>4. CASE User /\ mux' = mux
  <2>1. CASE Start
    BY <1>4, <2>1 DEF Start
  <2>2. CASE Started
    BY <1>4, <2>2 DEF Started
  <2>3. CASE Stop
    BY <1>4, <2>3 DEF Stop, Request
  <2>4. CASE ForceStop
    BY <1>4, <2>4 DEF ForceStop, Request
  <2>5. CASE ForceStopCode
    BY <1>4, <2>5 DEF ForceStopCode
  <2>6. CASE ActualStop
    BY <1>4, <2>6 DEF ActualStop
  <2>7. CASE StopReconnect
    BY <1>4, <2>7 DEF StopReconnect
  <2>8. CASE JoinReconnect
    BY <1>4, <2>8 DEF JoinReconnect
  <2>. QED BY <1>4, <2>1, <2>2, <2>3, <2>4, <2>5, <2>6, <2>7, <2>8 DEF User
<1>5. CASE Starting(UI) /\ mux' = mux
  <2>1. CASE ActualStart(UI)
    BY <1>5, <2>1 DEF ActualStart
  <2>2. CASE CanBegin(UI)
    BY <1>5, <2>2 DEF CanBegin, Joinable
  <2>3. CASE Initialize(UI)
    BY <1>5, <2>3 DEF Initialize
  <2>. QED BY <1>5, <2>1, <2>2, <2>3 DEF Starting
<1>6. CASE Begin(UI) /\ mux' = mux
  <2>1. CASE BeginCapture(UI)
    BY <1>6, <2>1 DEF BeginCapture
  <2>2. CASE Activate(UI)
    BY <1>6, <2>2 DEF Activate
  <2>3. CASE SignalStart(UI)
    BY <1>6, <2>3 DEF SignalStart
  <2>. QED BY <1>6, <2>1, <2>2, <2>3 DEF Begin
<1>7. CASE Packet
  BY <1>7 DEF Packet
<1>8. CASE Deactivate
  BY <1>8 DEF Deactivate
<1>9. CASE Deactivated
  BY <1>9 DEF Deactivated
<1>10. CASE SignalledFailure
  BY <1>10 DEF SignalledFailure
<1>11. CASE Ending(Packets) /\ mux' = mux
  <2>1. CASE SignalStop(Packets)
    BY <1>11, <2>1 DEF SignalStop, can_reconnect
  <2>2. CASE EndCaptureInactive(Packets)
    BY <1>11, <2>2 DEF EndCaptureInactive, HearStop
  <2>3. CASE EndCapture(Packets)
    BY <1>11, <2>3 DEF EndCapture
  <2>4. CASE EndData(Packets)
    BY <1>11, <2>4 DEF EndData
  <2>5. CASE JoinEnd(Packets)
    BY <1>11, <2>5 DEF JoinEnd, Joinable
  <2>6. CASE CreateEnd(Packets)
    BY <1>11, <2>6 DEF CreateEnd, Create
  <2>7. CASE EndSignal(Packets)
    BY <1>11, <2>7 DEF EndSignal, HearStop
  <2>. QED BY <1>11, <2>1, <2>2, <2>3, <2>4, <2>5, <2>6, <2>7 DEF Ending
<1>12. ASSUME NEW t \in Ends, mux' = mux,
            (EndStop(t) /\ At(Packets, "off")) \/ EndFinish(t)
     PROVE  PcOK'
  <2>1. CASE EndStop(t) /\ At(Packets, "off")
    BY <1>12, <2>1 DEF EndStop
  <2>2. CASE EndInactive(t)
    BY <1>12, <2>2 DEF EndInactive
  <2>3. CASE EndEvent(t)
    BY <1>12, <2>3 DEF EndEvent
  <2>4. CASE EndExit(t)
    BY <1>12, <2>4 DEF EndExit, Exit, Off
  <2>. QED BY <1>12, <2>1, <2>2, <2>3, <2>4 DEF EndFinish
<1>13. CASE WritePacket
  BY <1>13 DEF WritePacket, control
<1>. QED BY StepCases, <1>1, <1>2, <1>3, <1>4, <1>5, <1>6,
         <1>7, <1>8, <1>9, <1>10, <1>11, <1>12, <1>13

\* The listeners hear one of the stop codes.
LEMMA HearStopTyped ==
  ASSUME heard \in HeardType, output.stop_code \in Codes, HearStop
  PROVE  heard' \in HeardType
<1>1. /\ heard.stops \in 0 .. 2
      /\ (IF heard.stops = 2 THEN 2 ELSE heard.stops + 1) \in 0 .. 2
  BY DEF HeardType
<1>2. PICK n \in 0 .. 2 : heard' = [heard EXCEPT !.stops = n, !.code = output.stop_code,
                                             !.reported = TRUE]
  BY <1>1 DEF HearStop
<1>. QED BY <1>2 DEF HeardType

\* A step writes values of their types to the output, the muxer and the history.
LEMMA StateStep ==
  ASSUME StateOK, PcOK, EncoderOK, output.reconnecting = FALSE, Next PROVE StateOK'
<1>. USE OthersAre DEF StateOK
<1>1. CASE MuxStartFails
  BY <1>1 DEF MuxStartFails
<1>2. CASE MuxStart
  BY <1>2 DEF MuxStart, MuxType
<1>3. CASE MuxStop
  BY <1>3 DEF MuxStop, MuxType
<1>4. CASE User /\ mux' = mux
  <2>1. CASE Start
    BY <1>4, <2>1, BoundsAssumption DEF Start, HeardType
  <2>2. CASE Started
    BY <1>4, <2>2 DEF Started, HeardType
  <2>3. CASE Stop
    BY <1>4, <2>3, BoundsAssumption DEF Stop, Request, HeardType
  <2>4. CASE ForceStop
    BY <1>4, <2>4, BoundsAssumption DEF ForceStop, Request, HeardType
  <2>5. CASE ForceStopCode
    BY <1>4, <2>5 DEF ForceStopCode, OutputType, Codes
  <2>6. CASE ActualStop
    BY <1>4, <2>6 DEF ActualStop, OutputType, Codes
  <2>7. CASE StopReconnect
    BY <1>4, <2>7 DEF StopReconnect, OutputType, Codes
  <2>8. CASE JoinReconnect
    BY <1>4, <2>8 DEF JoinReconnect
  <2>. QED BY <1>4, <2>1, <2>2, <2>3, <2>4, <2>5, <2>6, <2>7, <2>8 DEF User
<1>5. CASE Starting(UI) /\ mux' = mux
  <2>1. CASE ActualStart(UI)
    BY <1>5, <2>1 DEF ActualStart, OutputType, Codes
  <2>2. CASE CanBegin(UI)
    BY <1>5, <2>2 DEF CanBegin, Joinable
  <2>3. CASE Initialize(UI)
    BY <1>5, <2>3 DEF Initialize
  <2>. QED BY <1>5, <2>1, <2>2, <2>3 DEF Starting
<1>6. CASE Begin(UI) /\ mux' = mux
  <2>1. CASE BeginCapture(UI)
    BY <1>6, <2>1 DEF BeginCapture, OutputType, Codes
  <2>2. CASE Activate(UI)
    BY <1>6, <2>2 DEF Activate, OutputType, Codes
  <2>3. CASE SignalStart(UI)
    BY <1>6, <2>3 DEF SignalStart, OutputType, HeardType, Codes
  <2>. QED BY <1>6, <2>1, <2>2, <2>3 DEF Begin
<1>7. CASE Packet
  BY <1>7 DEF Packet, MuxType
<1>8. CASE Deactivate
  BY <1>8 DEF Deactivate, MuxType
<1>9. CASE Deactivated
  BY <1>9 DEF Deactivated, MuxType
<1>10. CASE SignalledFailure
  BY <1>10 DEF SignalledFailure, MuxType
<1>11. CASE Ending(Packets) /\ mux' = mux
  <2>1. CASE SignalStop(Packets)
    BY <1>11, <2>1 DEF SignalStop, can_reconnect, OutputType, Codes, EncoderOK
  <2>2. CASE EndCaptureInactive(Packets)
    <3>1. output.stop_code \in Codes
      BY DEF OutputType
    <3>2. heard' \in HeardType
      BY <1>11, <2>2, <3>1, HearStopTyped DEF EndCaptureInactive
    <3>3. output' \in OutputType
      BY <1>11, <2>2 DEF EndCaptureInactive, OutputType, Codes
    <3>. QED BY <1>11, <2>2, <3>2, <3>3 DEF EndCaptureInactive
  <2>3. CASE EndCapture(Packets)
    BY <1>11, <2>3 DEF EndCapture
  <2>4. CASE EndData(Packets)
    BY <1>11, <2>4 DEF EndData, OutputType, Codes
  <2>5. CASE JoinEnd(Packets)
    BY <1>11, <2>5 DEF JoinEnd, Joinable
  <2>6. CASE CreateEnd(Packets)
    BY <1>11, <2>6 DEF CreateEnd, Create, OutputType, Codes
  <2>7. CASE EndSignal(Packets)
    <3>1. output.stop_code \in Codes
      BY DEF OutputType
    <3>2. heard' \in HeardType
      BY <1>11, <2>7, <3>1, HearStopTyped DEF EndSignal
    <3>3. output' \in OutputType
      BY <1>11, <2>7 DEF EndSignal, OutputType, Codes
    <3>. QED BY <1>11, <2>7, <3>2, <3>3 DEF EndSignal
  <2>. QED BY <1>11, <2>1, <2>2, <2>3, <2>4, <2>5, <2>6, <2>7 DEF Ending
<1>12. ASSUME NEW t \in Ends, mux' = mux,
            (EndStop(t) /\ At(Packets, "off")) \/ EndFinish(t)
     PROVE  StateOK'
  <2>1. CASE EndStop(t) /\ At(Packets, "off")
    BY <1>12, <2>1 DEF EndStop, OutputType, Codes
  <2>2. CASE EndInactive(t)
    BY <1>12, <2>2 DEF EndInactive, OutputType, Codes
  <2>3. CASE EndEvent(t)
    BY <1>12, <2>3 DEF EndEvent, OutputType, Codes
  <2>4. CASE EndExit(t)
    BY <1>12, <2>4 DEF EndExit, Exit, Off, OutputType, Codes
  <2>. QED BY <1>12, <2>1, <2>2, <2>3, <2>4 DEF EndFinish
<1>13. CASE WritePacket
  BY <1>13 DEF WritePacket, control, MuxType
<1>. QED BY StepCases, <1>1, <1>2, <1>3, <1>4, <1>5, <1>6,
         <1>7, <1>8, <1>9, <1>10, <1>11, <1>12, <1>13

\* The user thread stays in starting and stopping, the encoder thread in its
\* callback, and an end thread in end_data_capture_thread.
LEMMA PlacesStep ==
  ASSUME ThreadPlaces, PcOK, output.reconnecting = FALSE, Next PROVE ThreadPlaces'
<1>. USE OthersAre, ThreadsAssumption
     DEF ThreadPlaces, PcOK, UserOK, EncoderOK, PcType, Goto, Call, Return
<1>1. CASE MuxStartFails
  BY <1>1 DEF MuxStartFails
<1>2. CASE MuxStart
  BY <1>2 DEF MuxStart
<1>3. CASE MuxStop
  BY <1>3 DEF MuxStop
<1>4. CASE User /\ mux' = mux
  <2>1. CASE Start
    BY <1>4, <2>1 DEF Start
  <2>2. CASE Started
    BY <1>4, <2>2 DEF Started
  <2>3. CASE Stop
    <3>1. pc[UI].at = "idle" /\ (Call(UI, "actual_stop", "stop", "idle"))
      BY <1>4, <2>3 DEF Stop, Request
    <3>. QED BY <3>1
  <2>4. CASE ForceStop
    BY <1>4, <2>4 DEF ForceStop, Request
  <2>5. CASE ForceStopCode
    BY <1>4, <2>5 DEF ForceStopCode
  <2>6. CASE ActualStop
    <3>1. pc[UI].at = "actual_stop" /\ (Return(UI, None) \/ Goto(UI, "stop_reconnect"))
      BY <1>4, <2>6 DEF ActualStop
    <3>2. CASE Return(UI, None)
      BY <3>1, <3>2
    <3>3. CASE Goto(UI, "stop_reconnect")
      BY <3>1, <3>3
    <3>. QED BY <3>1, <3>2, <3>3
  <2>7. CASE StopReconnect
    <3>1. pc[UI].at = "stop_reconnect" /\ (Goto(UI, "stop_plugin"))
      BY <1>4, <2>7 DEF StopReconnect
    <3>. QED BY <3>1
  <2>8. CASE JoinReconnect
    BY <1>4, <2>8 DEF JoinReconnect
  <2>. QED BY <1>4, <2>1, <2>2, <2>3, <2>4, <2>5, <2>6, <2>7, <2>8 DEF User
<1>5. CASE Starting(UI) /\ mux' = mux
  <2>1. CASE ActualStart(UI)
    BY <1>5, <2>1 DEF ActualStart
  <2>2. CASE CanBegin(UI)
    <3>1. pc[UI].at = "can_begin" /\ (Return(UI, "failed") \/ Goto(UI, "initialize"))
      BY <1>5, <2>2 DEF CanBegin
    <3>2. CASE Return(UI, "failed")
      BY <3>1, <3>2
    <3>3. CASE Goto(UI, "initialize")
      BY <3>1, <3>3
    <3>. QED BY <3>1, <3>2, <3>3
  <2>3. CASE Initialize(UI)
    <3>1. pc[UI].at = "initialize" /\ (Return(UI, "failed") \/ Goto(UI, "start_plugin"))
      BY <1>5, <2>3 DEF Initialize
    <3>2. CASE Return(UI, "failed")
      BY <3>1, <3>2
    <3>3. CASE Goto(UI, "start_plugin")
      BY <3>1, <3>3
    <3>. QED BY <3>1, <3>2, <3>3
  <2>. QED BY <1>5, <2>1, <2>2, <2>3 DEF Starting
<1>6. CASE Begin(UI) /\ mux' = mux
  <2>1. CASE BeginCapture(UI)
    <3>1. pc[UI].at = "begin_capture" /\ (Return(UI, "failed") \/ Goto(UI, "activate"))
      BY <1>6, <2>1 DEF BeginCapture
    <3>2. CASE Return(UI, "failed")
      BY <3>1, <3>2
    <3>3. CASE Goto(UI, "activate")
      BY <3>1, <3>3
    <3>. QED BY <3>1, <3>2, <3>3
  <2>2. CASE Activate(UI)
    BY <1>6, <2>2 DEF Activate
  <2>3. CASE SignalStart(UI)
    BY <1>6, <2>3 DEF SignalStart
  <2>. QED BY <1>6, <2>1, <2>2, <2>3 DEF Begin
<1>7. CASE Packet
  BY <1>7 DEF Packet
<1>8. CASE Deactivate
  <2>1. /\ pc[Packets].at = "deactivate"
        /\ \/ Call(Packets, "end_capture", "signal", "deactivated")
           \/ Goto(Packets, "deactivated")
    BY <1>8 DEF Deactivate
  <2>2. CASE Call(Packets, "end_capture", "signal", "deactivated")
    BY <2>1, <2>2
  <2>3. CASE Goto(Packets, "deactivated")
    BY <2>1, <2>3
  <2>. QED BY <2>1, <2>2, <2>3
<1>9. CASE Deactivated
  <2>1. /\ pc[Packets].at = "deactivated"
        /\ \/ Call(Packets, "signal_stop", "ERROR", "failure")
           \/ Call(Packets, "off", None, "off")
    BY <1>9 DEF Deactivated
  <2>2. CASE Call(Packets, "signal_stop", "ERROR", "failure")
    BY <2>1, <2>2
  <2>3. CASE Call(Packets, "off", None, "off")
    BY <2>1, <2>3
  <2>. QED BY <2>1, <2>2, <2>3
<1>10. CASE SignalledFailure
  BY <1>10 DEF SignalledFailure
<1>11. CASE Ending(Packets) /\ mux' = mux
  <2>1. CASE SignalStop(Packets)
    BY <1>11, <2>1 DEF SignalStop, can_reconnect
  <2>2. CASE EndCaptureInactive(Packets)
    <3>1. pc[Packets].at = "end_capture" /\ (Return(Packets, None))
      BY <1>11, <2>2 DEF EndCaptureInactive, EncoderOK
    <3>. QED BY <3>1
  <2>3. CASE EndCapture(Packets)
    BY <1>11, <2>3 DEF EndCapture
  <2>4. CASE EndData(Packets)
    BY <1>11, <2>4 DEF EndData
  <2>5. CASE JoinEnd(Packets)
    BY <1>11, <2>5 DEF JoinEnd, Joinable
  <2>6. CASE CreateEnd(Packets)
    <3>1. PICK n \in Ends :
            pc' = [pc EXCEPT ![Packets] = [at |-> "hear_stop", arg |-> pc[Packets].arg,
                                           ret |-> pc[Packets].ret],
                             ![n] = [at |-> "end", arg |-> None, ret |-> "off"]]
      BY <1>11, <2>6 DEF CreateEnd, Create, EncoderOK
    <3>2. pc[Packets].at = "create_end"
      BY <1>11, <2>6 DEF CreateEnd
    <3>3. /\ pc'[Packets] = [at |-> "hear_stop", arg |-> pc[Packets].arg,
                             ret |-> pc[Packets].ret]
          /\ pc'[n].at = "end"
          /\ \A u \in Threads : u # Packets /\ u # n => pc'[u] = pc[u]
      BY <3>1
    <3>4. UserOK'
      BY <3>3 DEF UserOK
    <3>5. EncoderOK'
      BY <3>2, <3>3 DEF EncoderOK
    <3>6. \A t \in Reconnects : t \in Threads /\ t # Packets /\ t # n
      BY OthersAre, ThreadsAssumption DEF Threads
    <3>. QED BY <3>3, <3>4, <3>5, <3>6
  <2>7. CASE EndSignal(Packets)
    BY <1>11, <2>7 DEF EndSignal, HearStop
  <2>. QED BY <1>11, <2>1, <2>2, <2>3, <2>4, <2>5, <2>6, <2>7 DEF Ending
<1>12. ASSUME NEW t \in Ends, mux' = mux,
            (EndStop(t) /\ At(Packets, "off")) \/ EndFinish(t)
     PROVE  ThreadPlaces'
  <2>1. CASE EndStop(t) /\ At(Packets, "off")
    BY <1>12, <2>1 DEF EndStop
  <2>2. CASE EndInactive(t)
    BY <1>12, <2>2 DEF EndInactive
  <2>3. CASE EndEvent(t)
    BY <1>12, <2>3 DEF EndEvent
  <2>4. CASE EndExit(t)
    BY <1>12, <2>4 DEF EndExit, Exit, Off
  <2>. QED BY <1>12, <2>1, <2>2, <2>3, <2>4 DEF EndFinish
<1>13. CASE WritePacket
  BY <1>13 DEF WritePacket, control
<1>. QED BY StepCases, <1>1, <1>2, <1>3, <1>4, <1>5, <1>6,
         <1>7, <1>8, <1>9, <1>10, <1>11, <1>12, <1>13

\* A failing recording is not reconnected (can_reconnect).
LEMMA NoReconnectStep ==
  ASSUME ThreadPlaces, output \in OutputType, output.reconnecting = FALSE, detached = {}, Next
  PROVE  output'.reconnecting = FALSE /\ detached' = {}
<1>. USE OthersAre DEF OutputType
<1>1. CASE MuxStartFails
  BY <1>1 DEF MuxStartFails
<1>2. CASE MuxStart
  BY <1>2 DEF MuxStart
<1>3. CASE MuxStop
  BY <1>3 DEF MuxStop
<1>4. CASE User /\ mux' = mux
  <2>1. CASE Start
    BY <1>4, <2>1 DEF Start
  <2>2. CASE Started
    BY <1>4, <2>2 DEF Started
  <2>3. CASE Stop
    BY <1>4, <2>3 DEF Stop, Request
  <2>4. CASE ForceStop
    BY <1>4, <2>4 DEF ForceStop, Request
  <2>5. CASE ForceStopCode
    BY <1>4, <2>5 DEF ForceStopCode
  <2>6. CASE ActualStop
    BY <1>4, <2>6 DEF ActualStop
  <2>7. CASE StopReconnect
    BY <1>4, <2>7 DEF StopReconnect
  <2>8. CASE JoinReconnect
    BY <1>4, <2>8 DEF JoinReconnect
  <2>. QED BY <1>4, <2>1, <2>2, <2>3, <2>4, <2>5, <2>6, <2>7, <2>8 DEF User
<1>5. CASE Starting(UI) /\ mux' = mux
  <2>1. CASE ActualStart(UI)
    BY <1>5, <2>1 DEF ActualStart
  <2>2. CASE CanBegin(UI)
    BY <1>5, <2>2 DEF CanBegin, Joinable
  <2>3. CASE Initialize(UI)
    BY <1>5, <2>3 DEF Initialize
  <2>. QED BY <1>5, <2>1, <2>2, <2>3 DEF Starting
<1>6. CASE Begin(UI) /\ mux' = mux
  <2>1. CASE BeginCapture(UI)
    BY <1>6, <2>1 DEF BeginCapture
  <2>2. CASE Activate(UI)
    BY <1>6, <2>2 DEF Activate
  <2>3. CASE SignalStart(UI)
    BY <1>6, <2>3 DEF SignalStart
  <2>. QED BY <1>6, <2>1, <2>2, <2>3 DEF Begin
<1>7. CASE Packet
  BY <1>7 DEF Packet
<1>8. CASE Deactivate
  BY <1>8 DEF Deactivate
<1>9. CASE Deactivated
  BY <1>9 DEF Deactivated
<1>10. CASE SignalledFailure
  BY <1>10 DEF SignalledFailure
<1>11. CASE Ending(Packets) /\ mux' = mux
  <2>1. CASE SignalStop(Packets)
    BY <1>11, <2>1 DEF SignalStop, can_reconnect
  <2>2. CASE EndCaptureInactive(Packets)
    BY <1>11, <2>2 DEF EndCaptureInactive, HearStop
  <2>3. CASE EndCapture(Packets)
    BY <1>11, <2>3 DEF EndCapture
  <2>4. CASE EndData(Packets)
    BY <1>11, <2>4 DEF EndData
  <2>5. CASE JoinEnd(Packets)
    BY <1>11, <2>5 DEF JoinEnd, Joinable
  <2>6. CASE CreateEnd(Packets)
    BY <1>11, <2>6 DEF CreateEnd, Create
  <2>7. CASE EndSignal(Packets)
    BY <1>11, <2>7 DEF EndSignal, HearStop
  <2>. QED BY <1>11, <2>1, <2>2, <2>3, <2>4, <2>5, <2>6, <2>7 DEF Ending
<1>12. ASSUME NEW t \in Ends, mux' = mux,
            (EndStop(t) /\ At(Packets, "off")) \/ EndFinish(t)
     PROVE  output'.reconnecting = FALSE /\ detached' = {}
  <2>1. CASE EndStop(t) /\ At(Packets, "off")
    BY <1>12, <2>1 DEF EndStop
  <2>2. CASE EndInactive(t)
    BY <1>12, <2>2 DEF EndInactive
  <2>3. CASE EndEvent(t)
    BY <1>12, <2>3 DEF EndEvent
  <2>4. CASE EndExit(t)
    BY <1>12, <2>4 DEF EndExit, Exit, Off
  <2>. QED BY <1>12, <2>1, <2>2, <2>3, <2>4 DEF EndFinish
<1>13. CASE WritePacket
  BY <1>13 DEF WritePacket, control
<1>. QED BY StepCases, <1>1, <1>2, <1>3, <1>4, <1>5, <1>6,
         <1>7, <1>8, <1>9, <1>10, <1>11, <1>12, <1>13

----------------------------------------------------------------------------
(* What a step does, in so far as the invariant depends on it.             *)

Goes(t, to) ==
  /\ pc'[t].at = to
  /\ \A u \in Threads \ {t} : pc'[u].at = pc[u].at
  /\ handle' = handle

Capture(active, data_active, hooked, ending) ==
  /\ output'.active = active /\ output'.data_active = data_active
  /\ output'.hooked = hooked /\ output'.ending = ending

SameCapture == Capture(output.active, output.data_active, output.hooked, output.ending)

SameFile == /\ mux'.active = mux.active
            /\ mux'.stopping = mux.stopping /\ mux'.failing = mux.failing

Beginning == {"initialize", "start_plugin", "begin_capture", "activate"}

GoesElsewhere ==
  /\ ~At(UI, "activate") /\ (At(UI, "begin_capture") => output.active)
  /\ \E l \in (Locations \cup Places) \ Beginning : Goes(UI, l)

UserEffect ==
  \/ /\ GoesElsewhere
     /\ SameCapture /\ mux'.active = mux.active /\ mux'.failing = mux.failing
     /\ mux.stopping => mux'.stopping
  \/ /\ At(UI, "can_begin") /\ Goes(UI, "initialize")
     /\ ~output.active /\ (output.ending => Joinable("end"))
     /\ SameCapture /\ SameFile
  \/ /\ At(UI, "initialize") /\ Goes(UI, "start_plugin")
     /\ SameCapture /\ SameFile
  \/ /\ At(UI, "start_plugin") /\ Goes(UI, "begin_capture") /\ SameCapture
     /\ mux'.active = TRUE
     /\ mux'.stopping = mux.stopping /\ mux'.failing = mux.failing
  \/ /\ At(UI, "begin_capture") /\ Goes(UI, "activate") /\ SameFile
     /\ Capture(output.active, TRUE, TRUE, output.ending)
  \/ /\ At(UI, "activate") /\ Goes(UI, "signal_start") /\ SameFile
     /\ Capture(TRUE, output.data_active, output.hooked, output.ending)

EncoderEffect ==
  \/ /\ At(Packets, "off") /\ Goes(Packets, "off")
     /\ SameCapture /\ SameFile
  \/ /\ At(Packets, "off") /\ Goes(Packets, "deactivate") /\ SameCapture
     /\ output.hooked /\ output.active /\ mux.active
     /\ mux'.active /\ (~mux'.failing => mux'.stopping)
  \/ /\ At(Packets, "deactivate") /\ SameCapture
     /\ Goes(Packets, IF mux.stopping THEN "end_capture" ELSE "deactivated")
     /\ ~mux'.active /\ mux'.failing = mux.failing
  \/ /\ At(Packets, "deactivated") /\ SameCapture
     /\ Goes(Packets, IF mux.failing THEN "signal_stop" ELSE "off")
     /\ mux'.active = mux.active /\ mux'.failing = mux.failing
  \/ /\ At(Packets, "failure") /\ Goes(Packets, "off") /\ SameCapture
     /\ mux'.active = mux.active
  \/ /\ At(Packets, "signal_stop") /\ Goes(Packets, "end_capture")
     /\ SameCapture /\ SameFile
  \/ /\ At(Packets, "end_capture") /\ (~output.active \/ ~output.data_active)
     /\ \E l \in {"deactivated", "failure"} : Goes(Packets, l)
     /\ SameCapture /\ SameFile
  \/ /\ At(Packets, "end_capture") /\ Goes(Packets, "end_data")
     /\ SameCapture /\ SameFile
  \/ /\ At(Packets, "end_data") /\ Goes(Packets, "join_end") /\ SameFile
     /\ Capture(output.active, FALSE, output.hooked, output.ending)
  \/ /\ At(Packets, "join_end") /\ Goes(Packets, "create_end")
     /\ output.ending => Joinable("end")
     /\ SameCapture /\ SameFile
  \/ /\ At(Packets, "create_end") /\ SameFile
     /\ \E n \in Ends :
          /\ At(n, "off") /\ pc'[n].at = "end" /\ handle'["end"] = n
          /\ pc'[Packets].at = "hear_stop"
          /\ \A u \in Threads \ {Packets, n} : pc'[u].at = pc[u].at
     /\ Capture(output.active, output.data_active, output.hooked, TRUE)
  \/ /\ At(Packets, "hear_stop")
     /\ \E l \in {"deactivated", "failure"} : Goes(Packets, l)
     /\ SameCapture /\ SameFile

EndEffect(t) ==
  /\ SameFile
  /\ \/ /\ At(t, "end") /\ Goes(t, "end_inactive") /\ At(Packets, "off")
        /\ Capture(output.active, output.data_active, FALSE, output.ending)
     \/ /\ At(t, "end_inactive") /\ Goes(t, "end_event")
        /\ Capture(FALSE, output.data_active, output.hooked, output.ending)
     \/ /\ At(t, "end_event") /\ Goes(t, "end_exit") /\ SameCapture
     \/ /\ At(t, "end_exit") /\ Goes(t, "off")
        /\ Capture(output.active, output.data_active, output.hooked, FALSE)

\* Every step of the recording output has one of these effects.
LEMMA StepEffects ==
  ASSUME ThreadPlaces, PcOK, StateOK, output.reconnecting = FALSE, Next
  PROVE  UserEffect \/ EncoderEffect \/ \E t \in Ends : EndEffect(t)
<1>. USE OthersAre DEF ThreadPlaces, StateOK
<1>1. CASE MuxStartFails
  <2>1. GoesElsewhere
    BY <1>1 DEF MuxStartFails, PcType, PcOK, Goto, Call, Return, Goes,
           GoesElsewhere, UserOK, Beginning, Locations, Places
  <2>2. SameCapture /\ SameFile
    BY <1>1 DEF MuxStartFails, OutputType, SameCapture, Capture, SameFile
  <2>. QED BY <2>1, <2>2 DEF UserEffect, SameFile
<1>2. CASE MuxStart
  <2>1. At(UI, "start_plugin") /\ Goes(UI, "begin_capture")
    BY <1>2 DEF MuxStart, PcType, PcOK, Goto, Call, Return, Goes
  <2>2. /\ SameCapture /\ mux'.active = TRUE
        /\ mux'.stopping = mux.stopping /\ mux'.failing = mux.failing
    BY <1>2 DEF MuxStart, MuxType, SameCapture, Capture, SameFile
  <2>. QED BY <2>1, <2>2 DEF UserEffect
<1>3. CASE MuxStop
  <2>1. GoesElsewhere
    BY <1>3 DEF MuxStop, PcType, PcOK, Goto, Call, Return, Goes, GoesElsewhere,
           UserOK, Beginning, Locations, Places
  <2>2. /\ SameCapture /\ mux'.active = mux.active /\ mux'.failing = mux.failing
        /\ (mux.stopping => mux'.stopping)
    BY <1>3 DEF MuxStop, MuxType, SameCapture, Capture, SameFile
  <2>. QED BY <2>1, <2>2 DEF UserEffect
<1>4. CASE User /\ mux' = mux
  <2>1. CASE Start
    <3>1. GoesElsewhere
      BY <1>4, <2>1 DEF Start, PcType, PcOK, Goto, Call, Return, Goes,
             GoesElsewhere, UserOK, Beginning, Locations, Places
    <3>2. SameCapture /\ SameFile
      BY <1>4, <2>1 DEF Start, OutputType, SameCapture, Capture, SameFile
    <3>. QED BY <3>1, <3>2 DEF UserEffect, SameFile
  <2>2. CASE Started
    <3>1. GoesElsewhere
      BY <1>4, <2>2 DEF Started, PcType, PcOK, Goto, Call, Return, Goes,
             GoesElsewhere, UserOK, Beginning, Locations, Places
    <3>2. SameCapture /\ SameFile
      BY <1>4, <2>2 DEF Started, OutputType, SameCapture, Capture, SameFile
    <3>. QED BY <3>1, <3>2 DEF UserEffect, SameFile
  <2>3. CASE Stop
    <3>1. GoesElsewhere
      BY <1>4, <2>3 DEF Stop, PcType, PcOK, Goto, Call, Return, Goes,
             GoesElsewhere, UserOK, Beginning, Locations, Places, Request
    <3>2. SameCapture /\ SameFile
      BY <1>4, <2>3 DEF Stop, OutputType, SameCapture, Capture, SameFile
    <3>. QED BY <3>1, <3>2 DEF UserEffect, SameFile
  <2>4. CASE ForceStop
    <3>1. GoesElsewhere
      BY <1>4, <2>4 DEF ForceStop, PcType, PcOK, Goto, Call, Return, Goes,
             GoesElsewhere, UserOK, Beginning, Locations, Places, Request
    <3>2. SameCapture /\ SameFile
      BY <1>4, <2>4 DEF ForceStop, OutputType, SameCapture, Capture, SameFile
    <3>. QED BY <3>1, <3>2 DEF UserEffect, SameFile
  <2>5. CASE ForceStopCode
    <3>1. GoesElsewhere
      BY <1>4, <2>5 DEF ForceStopCode, PcType, PcOK, Goto, Call, Return, Goes,
             GoesElsewhere, UserOK, Beginning, Locations, Places
    <3>2. SameCapture /\ SameFile
      BY <1>4, <2>5 DEF ForceStopCode, OutputType, SameCapture, Capture, SameFile
    <3>. QED BY <3>1, <3>2 DEF UserEffect, SameFile
  <2>6. CASE ActualStop
    <3>1. GoesElsewhere
      BY <1>4, <2>6 DEF ActualStop, PcType, PcOK, Goto, Call, Return, Goes,
             GoesElsewhere, UserOK, Beginning, Locations, Places
    <3>2. SameCapture /\ SameFile
      BY <1>4, <2>6 DEF ActualStop, OutputType, SameCapture, Capture, SameFile
    <3>. QED BY <3>1, <3>2 DEF UserEffect, SameFile
  <2>7. CASE StopReconnect
    <3>1. GoesElsewhere
      BY <1>4, <2>7 DEF StopReconnect, PcType, PcOK, Goto, Call, Return, Goes,
             GoesElsewhere, UserOK, Beginning, Locations, Places
    <3>2. SameCapture /\ SameFile
      BY <1>4, <2>7 DEF StopReconnect, OutputType, SameCapture, Capture, SameFile
    <3>. QED BY <3>1, <3>2 DEF UserEffect, SameFile
  <2>8. CASE JoinReconnect
    <3>1. GoesElsewhere
      BY <1>4, <2>8 DEF JoinReconnect, PcType, PcOK, Goto, Call, Return, Goes,
             GoesElsewhere, UserOK, Beginning, Locations, Places
    <3>2. SameCapture /\ SameFile
      BY <1>4, <2>8 DEF JoinReconnect, OutputType, SameCapture, Capture, SameFile
    <3>. QED BY <3>1, <3>2 DEF UserEffect, SameFile
  <2>. QED BY <1>4, <2>1, <2>2, <2>3, <2>4, <2>5, <2>6, <2>7, <2>8 DEF User
<1>5. CASE Starting(UI) /\ mux' = mux
  <2>1. CASE ActualStart(UI)
    <3>1. GoesElsewhere
      BY <1>5, <2>1 DEF ActualStart, PcType, PcOK, Goto, Call, Return, Goes,
             GoesElsewhere, Beginning, Locations
    <3>2. SameCapture /\ SameFile
      BY <1>5, <2>1 DEF ActualStart, OutputType, SameCapture, Capture, SameFile
    <3>. QED BY <3>1, <3>2 DEF UserEffect, SameFile
  <2>2. CASE CanBegin(UI)
    <3>1. \/ GoesElsewhere
          \/ /\ At(UI, "can_begin") /\ Goes(UI, "initialize")
             /\ ~output.active /\ (output.ending => Joinable("end"))
      BY <1>5, <2>2 DEF CanBegin, PcType, PcOK, Goto, Call, Return, Goes,
             GoesElsewhere, UserOK, Beginning, Locations
    <3>2. SameCapture /\ SameFile
      BY <1>5, <2>2 DEF CanBegin, OutputType, SameCapture, Capture, SameFile
    <3>. QED BY <3>1, <3>2 DEF UserEffect, SameFile
  <2>3. CASE Initialize(UI)
    <3>1. \/ GoesElsewhere
          \/ At(UI, "initialize") /\ Goes(UI, "start_plugin")
      BY <1>5, <2>3 DEF Initialize, PcType, PcOK, Goto, Call, Return, Goes,
             GoesElsewhere, UserOK, Beginning, Locations
    <3>2. SameCapture /\ SameFile
      BY <1>5, <2>3 DEF Initialize, OutputType, SameCapture, Capture, SameFile
    <3>. QED BY <3>1, <3>2 DEF UserEffect, SameFile
  <2>. QED BY <1>5, <2>1, <2>2, <2>3 DEF Starting
<1>6. CASE Begin(UI) /\ mux' = mux
  <2>1. CASE BeginCapture(UI)
    <3>1. CASE output.active
      <4>1. GoesElsewhere
        BY <1>6, <2>1, <3>1 DEF BeginCapture, PcType, PcOK, Goto, Return, Goes,
               GoesElsewhere, UserOK, Beginning, Locations
      <4>2. SameCapture /\ SameFile
        BY <1>6, <2>1, <3>1 DEF BeginCapture, SameCapture, Capture, SameFile
      <4>. QED BY <4>1, <4>2 DEF UserEffect, SameFile
    <3>2. CASE ~output.active
      <4>1. At(UI, "begin_capture") /\ Goes(UI, "activate")
        BY <1>6, <2>1, <3>2 DEF BeginCapture, PcType, PcOK, Goto, Goes
      <4>2. SameFile /\ Capture(output.active, TRUE, TRUE, output.ending)
        BY <1>6, <2>1, <3>2 DEF BeginCapture, Capture, SameFile, OutputType
      <4>. QED BY <4>1, <4>2 DEF UserEffect
    <3>. QED BY <3>1, <3>2
  <2>2. CASE Activate(UI)
    <3>1. At(UI, "activate") /\ Goes(UI, "signal_start")
      BY <1>6, <2>2 DEF Activate, PcType, PcOK, Goto, Call, Return, Goes
    <3>2. SameFile /\ Capture(TRUE, output.data_active, output.hooked, output.ending)
      BY <1>6, <2>2 DEF Activate, OutputType, SameCapture, Capture, SameFile
    <3>. QED BY <3>1, <3>2 DEF UserEffect
  <2>3. CASE SignalStart(UI)
    <3>1. GoesElsewhere
      BY <1>6, <2>3 DEF SignalStart, PcType, PcOK, Goto, Call, Return, Goes,
             GoesElsewhere, UserOK, Beginning, Locations
    <3>2. SameCapture /\ SameFile
      BY <1>6, <2>3 DEF SignalStart, OutputType, SameCapture, Capture, SameFile
    <3>. QED BY <3>1, <3>2 DEF UserEffect, SameFile
  <2>. QED BY <1>6, <2>1, <2>2, <2>3 DEF Begin
<1>7. CASE Packet
  <2>1. At(Packets, "off") /\ Goes(Packets, "deactivate")
    BY <1>7 DEF Packet, PcType, PcOK, Goto, Call, Return, Goes
  <2>2. /\ SameCapture /\ output.hooked /\ output.active /\ mux.active
        /\ mux'.active /\ (~mux'.failing => mux'.stopping)
    BY <1>7 DEF Packet, MuxType, SameCapture, Capture, SameFile
  <2>. QED BY <2>1, <2>2 DEF EncoderEffect
<1>8. CASE Deactivate
  <2>1. /\ At(Packets, "deactivate")
        /\ Goes(Packets, IF mux.stopping THEN "end_capture" ELSE "deactivated")
    BY <1>8 DEF Deactivate, PcType, PcOK, Goto, Call, Return, Goes
  <2>2. SameCapture /\ ~mux'.active /\ mux'.failing = mux.failing
    BY <1>8 DEF Deactivate, MuxType, SameCapture, Capture, SameFile
  <2>. QED BY <2>1, <2>2 DEF EncoderEffect
<1>9. CASE Deactivated
  <2>1. /\ At(Packets, "deactivated")
        /\ Goes(Packets, IF mux.failing THEN "signal_stop" ELSE "off")
    BY <1>9 DEF Deactivated, PcType, PcOK, Goto, Call, Return, Goes
  <2>2. SameCapture /\ mux'.active = mux.active /\ mux'.failing = mux.failing
    BY <1>9 DEF Deactivated, MuxType, SameCapture, Capture, SameFile
  <2>. QED BY <2>1, <2>2 DEF EncoderEffect
<1>10. CASE SignalledFailure
  <2>1. At(Packets, "failure") /\ Goes(Packets, "off")
    BY <1>10 DEF SignalledFailure, PcType, PcOK, Goto, Call, Return, Goes
  <2>2. SameCapture /\ mux'.active = mux.active
    BY <1>10 DEF SignalledFailure, MuxType, SameCapture, Capture, SameFile
  <2>. QED BY <2>1, <2>2 DEF EncoderEffect
<1>11. CASE Ending(Packets) /\ mux' = mux
  <2>1. CASE SignalStop(Packets)
    <3>1. At(Packets, "signal_stop") /\ Goes(Packets, "end_capture")
      BY <1>11, <2>1 DEF SignalStop, PcType, PcOK, Goto, Call, Return, Goes
    <3>2. SameCapture /\ SameFile
      BY <1>11, <2>1 DEF SignalStop, OutputType, SameCapture, Capture, SameFile
    <3>. QED BY <3>1, <3>2 DEF EncoderEffect
  <2>2. CASE EndCaptureInactive(Packets)
    <3>1. /\ At(Packets, "end_capture") /\ (~output.active \/ ~output.data_active)
          /\ \E l \in {"deactivated", "failure"} : Goes(Packets, l)
      BY <1>11, <2>2 DEF EndCaptureInactive, PcType, PcOK, Goto, Call, Return,
             Goes, EncoderOK
    <3>2. SameCapture /\ SameFile
      BY <1>11, <2>2 DEF EndCaptureInactive, OutputType, SameCapture, Capture,
             SameFile
    <3>. QED BY <3>1, <3>2 DEF EncoderEffect
  <2>3. CASE EndCapture(Packets)
    <3>1. At(Packets, "end_capture") /\ Goes(Packets, "end_data")
      BY <1>11, <2>3 DEF EndCapture, PcType, PcOK, Goto, Call, Return, Goes
    <3>2. SameCapture /\ SameFile
      BY <1>11, <2>3 DEF EndCapture, OutputType, SameCapture, Capture, SameFile
    <3>. QED BY <3>1, <3>2 DEF EncoderEffect
  <2>4. CASE EndData(Packets)
    <3>1. At(Packets, "end_data") /\ Goes(Packets, "join_end")
      BY <1>11, <2>4 DEF EndData, PcType, PcOK, Goto, Call, Return, Goes
    <3>2. SameFile /\ Capture(output.active, FALSE, output.hooked, output.ending)
      BY <1>11, <2>4 DEF EndData, OutputType, SameCapture, Capture, SameFile
    <3>. QED BY <3>1, <3>2 DEF EncoderEffect
  <2>5. CASE JoinEnd(Packets)
    <3>1. /\ At(Packets, "join_end") /\ Goes(Packets, "create_end")
          /\ output.ending => Joinable("end")
      BY <1>11, <2>5 DEF JoinEnd, PcType, PcOK, Goto, Call, Return, Goes
    <3>2. SameCapture /\ SameFile
      BY <1>11, <2>5 DEF JoinEnd, OutputType, SameCapture, Capture, SameFile
    <3>. QED BY <3>1, <3>2 DEF EncoderEffect
  <2>6. CASE CreateEnd(Packets)
    <3>1. /\ At(Packets, "create_end")
          /\ \E n \in Ends :
               /\ At(n, "off") /\ pc'[n].at = "end" /\ handle'["end"] = n
               /\ pc'[Packets].at = "hear_stop"
               /\ \A u \in Threads \ {Packets, n} : pc'[u].at = pc[u].at
      BY <1>11, <2>6 DEF CreateEnd, PcType, PcOK, Goto, Call, Return, Goes,
             EncoderOK, Create
    <3>2. SameFile /\ Capture(output.active, output.data_active, output.hooked, TRUE)
      BY <1>11, <2>6 DEF CreateEnd, OutputType, SameCapture, Capture, SameFile
    <3>. QED BY <3>1, <3>2 DEF EncoderEffect
  <2>7. CASE EndSignal(Packets)
    <3>1. At(Packets, "hear_stop") /\ \E l \in {"deactivated", "failure"} : Goes(Packets, l)
      BY <1>11, <2>7 DEF EndSignal, PcType, PcOK, Goto, Call, Return, Goes,
             EncoderOK
    <3>2. SameCapture /\ SameFile
      BY <1>11, <2>7 DEF EndSignal, OutputType, SameCapture, Capture, SameFile
    <3>. QED BY <3>1, <3>2 DEF EncoderEffect
  <2>. QED BY <1>11, <2>1, <2>2, <2>3, <2>4, <2>5, <2>6, <2>7 DEF Ending
<1>12. ASSUME NEW t \in Ends, mux' = mux,
            (EndStop(t) /\ At(Packets, "off")) \/ EndFinish(t)
     PROVE  UserEffect \/ EncoderEffect \/ \E e \in Ends : EndEffect(e)
  <2>1. CASE EndStop(t) /\ At(Packets, "off")
    <3>1. At(t, "end") /\ Goes(t, "end_inactive") /\ At(Packets, "off")
      BY <1>12, <2>1 DEF EndStop, PcType, PcOK, Goto, Call, Return, Goes
    <3>2. Capture(output.active, output.data_active, FALSE, output.ending)
      BY <1>12, <2>1 DEF EndStop, OutputType, SameCapture, Capture, SameFile
    <3>. QED BY <1>12, <3>1, <3>2 DEF EndEffect, SameFile
  <2>2. CASE EndInactive(t)
    <3>1. At(t, "end_inactive") /\ Goes(t, "end_event")
      BY <1>12, <2>2 DEF EndInactive, PcType, PcOK, Goto, Call, Return, Goes
    <3>2. Capture(FALSE, output.data_active, output.hooked, output.ending)
      BY <1>12, <2>2 DEF EndInactive, OutputType, SameCapture, Capture, SameFile
    <3>. QED BY <1>12, <3>1, <3>2 DEF EndEffect, SameFile
  <2>3. CASE EndEvent(t)
    <3>1. At(t, "end_event") /\ Goes(t, "end_exit")
      BY <1>12, <2>3 DEF EndEvent, PcType, PcOK, Goto, Call, Return, Goes
    <3>2. SameCapture
      BY <1>12, <2>3 DEF EndEvent, OutputType, SameCapture, Capture, SameFile
    <3>. QED BY <1>12, <3>1, <3>2 DEF EndEffect, SameFile
  <2>4. CASE EndExit(t)
    <3>1. At(t, "end_exit") /\ Goes(t, "off")
      BY <1>12, <2>4 DEF EndExit, PcType, PcOK, Goto, Call, Return, Goes, Exit, Off
    <3>2. Capture(output.active, output.data_active, output.hooked, FALSE)
      BY <1>12, <2>4 DEF EndExit, OutputType, SameCapture, Capture, SameFile
    <3>. QED BY <1>12, <3>1, <3>2 DEF EndEffect, SameFile
  <2>. QED BY <1>12, <2>1, <2>2, <2>3, <2>4 DEF EndFinish
<1>13. CASE WritePacket
  <2>1. At(Packets, "off") /\ Goes(Packets, "off")
    BY <1>13 DEF WritePacket, control, Goes
  <2>2. SameCapture /\ SameFile
    BY <1>13 DEF WritePacket, control, MuxType, SameCapture, Capture, SameFile
  <2>. QED BY <2>1, <2>2 DEF EncoderEffect
<1>. QED BY StepCases, <1>1, <1>2, <1>3, <1>4, <1>5, <1>6,
         <1>7, <1>8, <1>9, <1>10, <1>11, <1>12, <1>13

----------------------------------------------------------------------------
(* The invariant is inductive.                                             *)

\* The encoder thread finds no capture to end only when an end thread has it.
LEMMA EndIsComing ==
  ASSUME ThreadPlaces, CaptureInv, At(Packets, "end_capture"),
         ~output.active \/ ~output.data_active
  PROVE  \E t \in Ends : At(t, "end")
<1>1. output.active /\ output.hooked /\ ~output.data_active
  BY DEF CaptureInv, InCallback
<1>2. \E t \in Threads : At(t, "join_end") \/ At(t, "create_end")
                       \/ At(t, "end")     \/ At(t, "end_inactive")
  BY <1>1 DEF CaptureInv, CapturePaired
<1>. QED BY <1>1, <1>2, OthersAre DEF CaptureInv, EndSteps, ThreadPlaces, UserOK

\* The user's starting and stopping keep the invariant.
LEMMA UserKeeps ==
  ASSUME ThreadPlaces, detached = {}, CaptureInv, UserEffect PROVE CaptureInv'
<1>. USE OthersAre DEF Goes, GoesElsewhere, Capture, SameCapture, SameFile
<1>1. /\ handle' = handle /\ output'.ending = output.ending
      /\ \A u \in Ends : pc'[u].at = pc[u].at
      /\ pc'[Packets].at = pc[Packets].at
  BY DEF UserEffect
<1>2. EndsOff' <=> EndsOff
  BY <1>1 DEF EndsOff
<1>3. EndKnown'
  <2>1. ASSUME NEW t \in Ends, ~At(t, "off")' PROVE handle'["end"] = t /\ output'.ending
    BY <1>1, <2>1 DEF CaptureInv, EndKnown
  <2>2. At(Packets, "create_end")' => EndsOff'
    BY <1>1, <1>2 DEF CaptureInv, EndKnown
  <2>. QED BY <2>1, <2>2 DEF EndKnown
<1>4. EndSteps'
  <2>1. At(UI, "begin_capture") \/ At(UI, "activate") => EndsOff
    BY DEF CaptureInv, BeginAlone
  <2>. QED BY <1>1, <2>1 DEF CaptureInv, EndSteps, EndsOff, UserEffect
<1>5. InCallback'
  BY DEF CaptureInv, InCallback, UserEffect
<1>6. At(UI, "can_begin") /\ (output.ending => Joinable("end")) => EndsOff
  BY DEF CaptureInv, EndKnown, EndsOff, Joinable
<1>7. BeginAlone'
  BY <1>2, <1>6 DEF CaptureInv, BeginAlone, Beginning, UserEffect
<1>8. FileClosed'
  <2>1. At(UI, "start_plugin") => EndsOff /\ At(Packets, "off")
    BY DEF CaptureInv, BeginAlone, InCallback
  <2>2. mux'.active => mux.active \/ (EndsOff /\ At(Packets, "off") /\ At(UI, "begin_capture")')
    <3>1. mux'.active = mux.active
            \/ (At(UI, "start_plugin") /\ At(UI, "begin_capture")')
      BY DEF UserEffect
    <3>. QED BY <2>1, <3>1
  <2>3. At(UI, "begin_capture")' \/ At(UI, "activate")' => mux'.active
    BY DEF CaptureInv, UserEffect, Beginning, FileClosed
  <2>4. mux.active => output'.active \/ At(UI, "begin_capture")' \/ At(UI, "activate")'
    <3>1. mux.active => output.active \/ At(UI, "begin_capture") \/ At(UI, "activate")
      BY DEF CaptureInv, FileClosed
    <3>2. At(UI, "begin_capture") =>
            \/ At(UI, "activate")' \/ At(UI, "begin_capture")'
            \/ output'.active
      BY DEF UserEffect, Beginning
    <3>. QED BY <3>1, <3>2 DEF UserEffect
  <2>. QED BY <1>1, <1>2, <2>2, <2>3, <2>4 DEF CaptureInv, FileClosed
<1>9. EndComing'
  BY <1>1, <1>2 DEF CaptureInv, EndComing, BeginAlone, FileClosed, UserEffect
<1>10. CapturePaired'
  <2>1. output.active /\ ~output.hooked => \E u \in Ends : At(u, "end_inactive")
    BY DEF CaptureInv, CapturePaired
  <2>2. \A u \in Threads : At(u, "join_end") \/ At(u, "create_end")
                        \/ At(u, "end") \/ At(u, "end_inactive")
                        => pc'[u].at = pc[u].at
    BY <1>1 DEF ThreadPlaces, UserOK, UserEffect
  <2>3. output.hooked /\ ~output.active => At(UI, "activate")
    BY DEF CaptureInv, CapturePaired, ThreadPlaces, EncoderOK
  <2>4. output'.hooked /\ ~output'.active => At(UI, "activate")'
    BY <2>3 DEF UserEffect
  <2>. QED BY <1>1, <2>1, <2>2, <2>4
           DEF CaptureInv, CapturePaired, UserEffect, BeginAlone
<1>. QED BY <1>3, <1>4, <1>5, <1>7, <1>8, <1>9, <1>10 DEF CaptureInv

\* So does the encoder thread in its callback.
LEMMA EncoderKeeps ==
  ASSUME ThreadPlaces, detached = {}, CaptureInv, EncoderEffect PROVE CaptureInv'
<1>. USE OthersAre DEF ThreadPlaces, CaptureInv, EncoderEffect, Goes, Capture, SameCapture, SameFile
<1>1. EndKnown'
  BY DEF EndKnown, EndsOff, Joinable
<1>2. EndSteps'
  BY DEF EndSteps
<1>3. InCallback'
  BY DEF InCallback
<1>4. BeginAlone'
  BY DEF BeginAlone, InCallback, EndsOff
<1>5. FileClosed'
  BY DEF FileClosed, InCallback, BeginAlone, EndsOff
<1>6. EndComing'
  BY EndIsComing DEF EndComing, EndsOff
<1>7. CapturePaired'
  BY DEF CapturePaired, InCallback
<1>. QED BY <1>1, <1>2, <1>3, <1>4, <1>5, <1>6, <1>7

\* And the thread that ends the capture.
LEMMA EndKeeps ==
  ASSUME ThreadPlaces, CaptureInv, NEW t \in Ends, EndEffect(t) PROVE CaptureInv'
<1>. USE OthersAre DEF ThreadPlaces, CaptureInv, EndEffect, Goes, Capture, SameCapture, SameFile
<1>1. EndKnown'
  BY DEF EndKnown, EndsOff
<1>2. EndSteps'
  BY DEF EndSteps
<1>3. InCallback'
  BY DEF InCallback, EndSteps
<1>4. BeginAlone'
  BY DEF BeginAlone, EndsOff
<1>5. FileClosed'
  BY DEF FileClosed, BeginAlone, EndsOff
<1>6. EndComing'
  BY DEF EndComing, EndSteps, EndsOff, EndKnown
<1>7. CapturePaired'
  BY DEF CapturePaired, EndKnown, EndSteps
<1>. QED BY <1>1, <1>2, <1>3, <1>4, <1>5, <1>6, <1>7

----------------------------------------------------------------------------
(* What the listeners heard.                                               *)

Starts == {"actual_start", "can_begin"} \cup Beginning

EndingPlaces == {"end_capture", "end_data", "join_end", "create_end", "hear_stop"}

\* What the listeners have heard: nothing while a recording starts and while its
\* file is open, nor before the end that the encoder's own callback brings about;
\* and an end after that one is the end of a failed write.
HeardInv ==
  /\ pc[UI].at \in Starts => ~output.active /\ heard.stops = 0
  /\ mux.active => heard.stops = 0
  /\ At(Packets, "deactivate") => mux.active
  /\ pc[Packets].at \in EndingPlaces /\ pc[Packets].ret = "deactivated" => heard.stops = 0
  /\ \/ At(Packets, "signal_stop")
     \/ pc[Packets].at \in EndingPlaces /\ pc[Packets].ret = "failure"
     => mux.failing

\* This step is not the second "stop" of a recording that was written well.
HeardRight == heard.stops = 1 /\ heard'.stops = 2 => mux.failing

\* A step keeps what was heard right: the encoder thread signals "stop" while the
\* output is active, and then no start can have reset the count.
LEMMA HeardStep ==
  ASSUME IInv, HeardInv, Next PROVE HeardInv' /\ HeardRight
<1>. USE OthersAre DEF HeardInv, HeardRight, Starts, Beginning, EndingPlaces
<1>. PcOK /\ StateOK /\ UserOK /\ EncoderOK /\ InCallback /\ FileClosed
  BY DEF IInv, ThreadPlaces, CaptureInv
<1>. USE DEF PcOK, PcType, StateOK, OutputType, HeardType, MuxType, Goto, Call, Return
<1>1. CASE MuxStartFails
  BY <1>1 DEF MuxStartFails, UserOK
<1>2. CASE MuxStart
  BY <1>2 DEF MuxStart, UserOK
<1>3. CASE MuxStop
  BY <1>3 DEF MuxStop, UserOK
<1>4. CASE User /\ mux' = mux
  <2>1. CASE Start
    BY <1>4, <2>1 DEF Start, UserOK, obs_output_active
  <2>2. CASE Started
    BY <1>4, <2>2 DEF Started, UserOK
  <2>3. CASE Stop
    BY <1>4, <2>3 DEF Stop, Request, UserOK
  <2>4. CASE ForceStop
    BY <1>4, <2>4 DEF ForceStop, Request, UserOK
  <2>5. CASE ForceStopCode
    BY <1>4, <2>5 DEF ForceStopCode, UserOK
  <2>6. CASE ActualStop
    BY <1>4, <2>6 DEF ActualStop, UserOK
  <2>7. CASE StopReconnect
    BY <1>4, <2>7 DEF StopReconnect, UserOK
  <2>8. CASE JoinReconnect
    BY <1>4, <2>8 DEF JoinReconnect, UserOK
  <2>. QED BY <1>4, <2>1, <2>2, <2>3, <2>4, <2>5, <2>6, <2>7, <2>8 DEF User
<1>5. CASE Starting(UI) /\ mux' = mux
  <2>1. CASE ActualStart(UI)
    BY <1>5, <2>1 DEF ActualStart, UserOK
  <2>2. CASE CanBegin(UI)
    BY <1>5, <2>2 DEF CanBegin, UserOK
  <2>3. CASE Initialize(UI)
    BY <1>5, <2>3 DEF Initialize, UserOK
  <2>. QED BY <1>5, <2>1, <2>2, <2>3 DEF Starting
<1>6. CASE Begin(UI) /\ mux' = mux
  <2>1. CASE BeginCapture(UI)
    <3>1. ~output.active /\ heard' = heard /\ pc'[UI].at = "activate"
      BY <2>1 DEF BeginCapture
    <3>2. pc'[Packets] = pc[Packets] /\ output'.active = output.active
      BY <2>1 DEF BeginCapture
    <3>. QED BY <1>6, <2>1, <3>1, <3>2 DEF BeginCapture
  <2>2. CASE Activate(UI)
    BY <1>6, <2>2 DEF Activate, UserOK
  <2>3. CASE SignalStart(UI)
    BY <1>6, <2>3 DEF SignalStart, UserOK
  <2>. QED BY <1>6, <2>1, <2>2, <2>3 DEF Begin
<1>7. CASE Packet
  BY <1>7 DEF Packet
<1>8. CASE Deactivate
  BY <1>8 DEF Deactivate
<1>9. CASE Deactivated
  BY <1>9 DEF Deactivated
<1>10. CASE SignalledFailure
  BY <1>10 DEF SignalledFailure
<1>11. CASE Ending(Packets) /\ mux' = mux
  <2>1. CASE SignalStop(Packets)
    BY <1>11, <2>1 DEF SignalStop, can_reconnect, EncoderOK
  <2>2. CASE EndCaptureInactive(Packets)
    BY <1>11, <2>2 DEF EndCaptureInactive, HearStop, EncoderOK, InCallback, FileClosed
  <2>3. CASE EndCapture(Packets)
    BY <1>11, <2>3 DEF EndCapture
  <2>4. CASE EndData(Packets)
    BY <1>11, <2>4 DEF EndData
  <2>5. CASE JoinEnd(Packets)
    BY <1>11, <2>5 DEF JoinEnd
  <2>6. CASE CreateEnd(Packets)
    BY <1>11, <2>6 DEF CreateEnd, Create
  <2>7. CASE EndSignal(Packets)
    BY <1>11, <2>7 DEF EndSignal, HearStop, EncoderOK, InCallback, FileClosed
  <2>. QED BY <1>11, <2>1, <2>2, <2>3, <2>4, <2>5, <2>6, <2>7 DEF Ending
<1>12. ASSUME NEW t \in Ends, mux' = mux,
            (EndStop(t) /\ At(Packets, "off")) \/ EndFinish(t)
     PROVE  HeardInv' /\ HeardRight
  <2>1. CASE EndStop(t) /\ At(Packets, "off")
    BY <1>12, <2>1 DEF EndStop
  <2>2. CASE EndInactive(t)
    BY <1>12, <2>2 DEF EndInactive
  <2>3. CASE EndEvent(t)
    BY <1>12, <2>3 DEF EndEvent
  <2>4. CASE EndExit(t)
    BY <1>12, <2>4 DEF EndExit, Exit, Off
  <2>. QED BY <1>12, <2>1, <2>2, <2>3, <2>4 DEF EndFinish
<1>13. CASE WritePacket
  BY <1>13 DEF WritePacket, control
<1>. QED BY StepCases, <1>1, <1>2, <1>3, <1>4, <1>5, <1>6,
         <1>7, <1>8, <1>9, <1>10, <1>11, <1>12, <1>13

----------------------------------------------------------------------------
(* The invariant, and what follows from it.                                *)

\* The inductive invariant holds of every behaviour: it is what the recording's
\* starts, stops, callbacks and end threads keep true between them.
THEOREM IInvHolds == Safety => []IInv
<1>1. Init => IInv
  <2>. SUFFICES ASSUME Init PROVE IInv
    OBVIOUS
  <2>. USE OthersAre DEF Init, InitControl, Off
  <2>1. ThreadPlaces /\ detached = {} /\ output.reconnecting = FALSE
    BY ThreadsAssumption DEF ThreadPlaces, UserOK, EncoderOK, Threads
  <2>2. PcOK
    BY DEF PcOK, PcType, Locations, Places, Arguments, Codes, None
  <2>3. StateOK
    <3>1. output \in OutputType
      BY RetryAssumption DEF OutputType, Codes
    <3>2. heard \in HeardType
      BY BoundsAssumption DEF HeardType, Codes
    <3>3. mux \in MuxType
      BY DEF MuxType
    <3>. QED BY <3>1, <3>2, <3>3 DEF StateOK
  <2>4. CaptureInv
    BY DEF CaptureInv, EndKnown, EndSteps, InCallback, BeginAlone, FileClosed,
           EndComing,
           CapturePaired, EndsOff
  <2>. QED BY <2>1, <2>2, <2>3, <2>4 DEF IInv
<1>2. IInv /\ [Next]_vars => IInv'
  <2>. SUFFICES ASSUME IInv, [Next]_vars PROVE IInv'
    OBVIOUS
  <2>1. CASE Next
    <3>1. ThreadPlaces' /\ PcOK' /\ StateOK' /\ output'.reconnecting = FALSE /\ detached' = {}
      BY <2>1, PcStep, StateStep, PlacesStep, NoReconnectStep DEF IInv,
             ThreadPlaces, StateOK
    <3>2. CaptureInv'
      BY <2>1, StepEffects, UserKeeps, EncoderKeeps, EndKeeps DEF IInv
    <3>. QED BY <3>1, <3>2 DEF IInv
  <2>2. CASE UNCHANGED vars
    BY <2>2 DEF vars, control, IInv, PcOK, StateOK, ThreadPlaces, UserOK, EncoderOK,
                CaptureInv, EndKnown, EndSteps, InCallback, BeginAlone, FileClosed,
                EndComing, CapturePaired, EndsOff
  <2>. QED BY <2>1, <2>2
<1>. QED BY <1>1, <1>2, PTL DEF Safety

\* Every variable of the recording output keeps its type.
THEOREM TypeCorrect == Safety => []TypeOK
<1>1. IInv => TypeOK
  BY DEF IInv, TypeOK, ControlTypeOK, PcOK, StateOK
<1>. QED BY <1>1, IInvHolds, PTL

\* The active flag and the hooked encoders agree, but for the steps of a thread
\* that begins or ends the capture.
THEOREM CaptureStaysPaired == Safety => []CapturePaired
<1>1. IInv => CapturePaired
  BY DEF IInv, CaptureInv
<1>. QED BY <1>1, IInvHolds, PTL

\* No two threads end a data capture at once.
THEOREM EndingAlone == Safety => []OneEnding
<1>1. IInv => OneEnding
  BY DEF IInv, CaptureInv, EndKnown, OneEnding
<1>. QED BY <1>1, IInvHolds, PTL

\* A recording opens its file only when the one before has let go of it.
THEOREM FileNeverShared == Safety => []FileIsOurs
<1>1. IInv => FileIsOurs
  BY DEF IInv, CaptureInv, InCallback, BeginAlone, FileClosed, FileIsOurs
<1>. QED BY <1>1, IInvHolds, PTL

\* A recording that the user interface takes for active is fed with packets, or
\* about to end: whatever failed, and in whatever order the threads ran.
THEOREM RecordingKeepsGoing == Safety => []RecordingGoesOn
<1>1. IInv => RecordingGoesOn
  <2>. SUFFICES ASSUME IInv, output.active, At(UI, "idle"), EndsOff, At(Packets, "off")
       PROVE  output.hooked /\ mux.active
    BY DEF RecordingGoesOn, EndsOff
  <2>1. output.hooked
    BY DEF IInv, CaptureInv, CapturePaired, EndsOff
  <2>2. mux.active
    BY DEF IInv, CaptureInv, EndComing
  <2>. QED BY <2>1, <2>2
<1>. QED BY <1>1, IInvHolds, PTL

\* The listeners of a recording hear "stop" once, whatever the user asked for and
\* whenever; a second time only when a write had failed.
THEOREM StopIsHeardOnce == Safety => StopHeardOnce
<1>1. Init => HeardInv
  BY OthersAre DEF Init, InitControl, Off, HeardInv, Starts, Beginning, EndingPlaces
<1>2. IInv /\ HeardInv /\ [Next]_vars => HeardInv'
  <2>1. CASE Next
    BY <2>1, HeardStep
  <2>2. CASE UNCHANGED vars
    BY <2>2 DEF vars, control, HeardInv
  <2>. QED BY <2>1, <2>2
<1>3. IInv /\ HeardInv /\ [Next]_vars =>
        [heard.stops = 1 /\ heard'.stops = 2 => mux.failing]_vars
  BY HeardStep DEF HeardRight
<1>. QED BY <1>1, <1>2, <1>3, IInvHolds, PTL DEF Safety, StopHeardOnce
=============================================================================
