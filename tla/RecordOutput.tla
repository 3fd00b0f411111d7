---------------------------- MODULE RecordOutput ----------------------------
(***************************************************************************)
(* plugins/obs-ffmpeg/obs-ffmpeg-mux.c, the recording output: the user     *)
(* interface starts and stops it, the encoders' threads hand it packets    *)
(* (one at a time, under interleaved_mutex), and it is they who notice     *)
(* that it must stop, or that writing to the ffmpeg-mux process failed.    *)
(***************************************************************************)
EXTENDS OutputControl

CONSTANTS
  Packets                   \* the encoder thread in ffmpeg_mux_data

ASSUME PacketsAssumption == Others = {Packets}

VARIABLE mux                \* struct ffmpeg_muxer

vars == <<control, mux>>

Init ==
  /\ InitControl({})
  /\ mux = [active |-> FALSE, stopping |-> FALSE, capturing |-> FALSE,
            force |-> FALSE,            \* stop_ts is 0: any packet is late enough
            sent_headers |-> FALSE,
            failing |-> FALSE]          \* deactivate was called by signal_failure

----------------------------------------------------------------------------
(* info.start and info.stop.                                               *)

\* ffmpeg_mux_start: the path cannot be written, or the process not started.
MuxStartFails ==
  /\ At(UI, "start_plugin") /\ "open" \in Faults
  /\ Return(UI, "failed")
  /\ UNCHANGED <<output, threads, heard, mux>>

MuxStart ==
  /\ At(UI, "start_plugin")
  /\ mux' = [mux EXCEPT !.active = TRUE, !.capturing = TRUE]
  /\ Goto(UI, "begin_capture")
  /\ UNCHANGED <<output, threads, heard>>

\* Mutant: the stopping flag is not set.
MuxStopUnseen ==
  /\ At(UI, "stop_plugin")
  /\ mux' = IF mux.capturing \/ Arg(UI) = "force"
            THEN [mux EXCEPT !.force = Arg(UI) = "force", !.capturing = FALSE]
            ELSE mux
  /\ Return(UI, None)
  /\ UNCHANGED <<output, threads, heard>>

MuxStop ==
  /\ At(UI, "stop_plugin")
  /\ LET force == Arg(UI) = "force"
     IN mux' = IF mux.capturing \/ force
               THEN [mux EXCEPT !.force = force, !.stopping = TRUE, !.capturing = FALSE]
               ELSE mux
  /\ Return(UI, None)
  /\ UNCHANGED <<output, threads, heard>>

----------------------------------------------------------------------------
(* ffmpeg_mux_data, deactivate and signal_failure.                         *)

\* Mutant: packets are taken when the file is closed.
PacketUnchecked ==
  /\ At(Packets, "off")
  /\ output.hooked /\ output.active
  /\ \/ /\ mux.stopping
        /\ mux' = [mux EXCEPT !.failing = FALSE]
     \/ /\ "write" \in Faults
        /\ mux.sent_headers => ~(mux.stopping /\ mux.force)
        /\ mux' = [mux EXCEPT !.failing = TRUE]
  /\ Call(Packets, "deactivate", None, "off")
  /\ UNCHANGED <<output, threads, heard>>

\* interleave_packets drops the packets of an output that is not active.  This
\* one ends the recording: it is past the time to stop at, or writing it, or the
\* headers that go before the first one, fails.
Packet ==
  /\ At(Packets, "off")
  /\ output.hooked /\ output.active /\ mux.active
  /\ \/ /\ mux.stopping
        /\ mux' = [mux EXCEPT !.failing = FALSE]
     \/ /\ "write" \in Faults
        /\ mux.sent_headers => ~(mux.stopping /\ mux.force)
        /\ mux' = [mux EXCEPT !.failing = TRUE]
  /\ Call(Packets, "deactivate", None, "off")
  /\ UNCHANGED <<output, threads, heard>>

\* The first packet that is written; the others change nothing.
WritePacket ==
  /\ At(Packets, "off")
  /\ output.hooked /\ output.active /\ mux.active
  /\ ~mux.sent_headers /\ ~(mux.stopping /\ mux.force)
  /\ mux' = [mux EXCEPT !.sent_headers = TRUE]
  /\ UNCHANGED control

\* Mutant: the capture is not ended.
DeactivateOnly ==
  /\ At(Packets, "deactivate")
  /\ mux' = [mux EXCEPT !.active = FALSE, !.sent_headers = FALSE]
  /\ Goto(Packets, "deactivated")
  /\ UNCHANGED <<output, threads, heard>>

\* Mutant: the active flag is left set.
DeactivateOpen ==
  /\ At(Packets, "deactivate")
  /\ IF mux.stopping THEN Call(Packets, "end_capture", "signal", "deactivated")
                     ELSE Goto(Packets, "deactivated")
  /\ UNCHANGED <<output, threads, heard, mux>>

Deactivate ==
  /\ At(Packets, "deactivate")
  /\ mux' = [mux EXCEPT !.active = FALSE, !.sent_headers = FALSE]
  /\ IF mux.stopping THEN Call(Packets, "end_capture", "signal", "deactivated")
                     ELSE Goto(Packets, "deactivated")
  /\ UNCHANGED <<output, threads, heard>>

Deactivated ==
  /\ At(Packets, "deactivated")
  /\ mux' = [mux EXCEPT !.stopping = FALSE]
  /\ IF mux.failing THEN Call(Packets, "signal_stop", "ERROR", "failure")
                    ELSE Call(Packets, "off", None, "off")
  /\ UNCHANGED <<output, threads, heard>>

SignalledFailure ==
  /\ At(Packets, "failure")
  /\ mux' = [mux EXCEPT !.capturing = FALSE]
  /\ Call(Packets, "off", None, "off")
  /\ UNCHANGED <<output, threads, heard>>

Encoder == \/ WritePacket \/ Packet \/ Deactivate \/ Deactivated \/ SignalledFailure
           \/ Ending(Packets) /\ UNCHANGED mux

\* obs_encoder_stop takes callbacks_mutex, which encoders hold in a callback.
EndThread(t) ==
  /\ \/ EndStop(t) /\ At(Packets, "off")
     \/ EndFinish(t)
  /\ UNCHANGED mux

UserThread == \/ MuxStartFails \/ MuxStart \/ MuxStop
              \/ (User \/ Starting(UI) \/ Begin(UI)) /\ UNCHANGED mux

Next == UserThread \/ Encoder \/ \E t \in Ends : EndThread(t)

\* Every thread runs on; the encoders go on delivering packets, among which
\* one past the time to stop at.
Fairness ==
  /\ WF_vars(UserThread /\ ~At(UI, "idle"))
  /\ WF_vars(Encoder /\ (mux.stopping \/ ~At(Packets, "off")))
  /\ \A t \in Ends : WF_vars(EndThread(t))

Safety == Init /\ [][Next]_vars
Spec   == Safety /\ Fairness

----------------------------------------------------------------------------
(* Properties, with CapturePaired and OneEnding of OutputControl.          *)

Places == {"start_plugin", "stop_plugin", "deactivate", "deactivated", "failure"}

MuxType == [active : BOOLEAN, stopping : BOOLEAN, capturing : BOOLEAN,
            force : BOOLEAN, sent_headers : BOOLEAN, failing : BOOLEAN]

TypeOK == ControlTypeOK({}, Places) /\ mux \in MuxType

\* While the listeners take it for recording, packets reach an open file or
\* some thread is about to end it: no order of start, stop, a failed write and
\* a late packet leaves an output that is active and does nothing.
RecordingGoesOn ==
  output.active /\ At(UI, "idle") =>
    \/ output.hooked /\ mux.active
    \/ \E t \in Ends \cup {Packets} : ~At(t, "off")

\* A recording's listeners hear "stop" once, however often and whenever the user
\* asked for it; a second time only of a write that failed.
StopHeardOnce == [][heard.stops = 1 /\ heard'.stops = 2 => mux.failing]_vars

\* The file is open while packets are taken for it: a recording that begins
\* finds neither the packets nor the end of the one before at work on it.
FileIsOurs == At(UI, "start_plugin") => ~mux.active /\ At(Packets, "off")

\* A recording the user asked to stop stops.
RecordingStops == heard.requests > 0 ~> ~output.active

\* And its listeners hear of it.
StopIsHeard == heard.requests > 0 ~> heard.stops > 0

\* obs_output_start returns ("Starts the output.", obs.h).
StartReturns == At(UI, "actual_start") ~> At(UI, "idle")
=============================================================================
