---------------------------- MODULE OutputControl ---------------------------
(***************************************************************************)
(* libobs/obs-output.c: starting and stopping an output, beginning and     *)
(* ending its data capture, reconnecting.  Delay is off (delay_sec = 0).   *)
(* The modules of the output plugins (RecordOutput, StreamOutput) extend   *)
(* this one, add their own threads and say what info.start and info.stop   *)
(* do; no action here changes a plugin's variables.                        *)
(*                                                                         *)
(* pc[t] is where thread t is, the argument of the function it is in and   *)
(* the location it returns to.  A step runs from one access to what other  *)
(* threads change to the next; the flags that are tested together at the   *)
(* head of a function are read in one step.  pthread_create never fails.   *)
(***************************************************************************)
EXTENDS Naturals, FiniteSets

CONSTANTS
  UI,                       \* the thread of the user interface
  Ends,                     \* end_data_capture_threads there may be at a time
  Reconnects,               \* reconnect_threads there may be at a time
  Others,                   \* the plugin's threads, and the encoders'
  Faults,                   \* the calls that may fail, among FaultKinds
  RetryMax,                 \* reconnect_retry_max
  SlowTimer,                \* does the reconnect delay outlast running threads?
  MaxStarts,                \* bound: obs_output_start calls of a behaviour
  MaxStops                  \* bound: stop calls while it runs, forced ones too

\* Initializing the encoders or the service; opening the recording and writing
\* to it; connecting to the server, greeting it and sending to it.
FaultKinds == {"initialize", "open", "write", "connect", "meta", "send"}

None == "none"

ASSUME ThreadsAssumption ==
  /\ UI \notin Ends \cup Reconnects \cup Others
  /\ Ends \cap (Reconnects \cup Others) = {}
  /\ Reconnects \cap Others = {}
  /\ None \notin {UI} \cup Ends \cup Reconnects \cup Others
ASSUME FaultsAssumption == Faults \subseteq FaultKinds
ASSUME RetryAssumption == RetryMax \in Nat /\ SlowTimer \in BOOLEAN
ASSUME BoundsAssumption == MaxStarts \in Nat /\ MaxStops \in Nat

VARIABLES
  output,                   \* struct obs_output, see TypeOK
  handle,                   \* the pthread_t fields: last thread of each kind
  detached,                 \* threads that were detached
  pc,
  heard                     \* history: what the listeners of its signals heard

control == <<output, handle, detached, pc, heard>>

Threads == {UI} \cup Ends \cup Reconnects \cup Others
Off     == [at |-> "off", arg |-> None, ret |-> "off"]

\* The stop codes the code distinguishes; ERROR is any other.
Codes == {"SUCCESS", "DISCONNECTED", "ERROR"}

At(t, l) == pc[t].at = l
Arg(t)   == pc[t].arg

\* Go on in the same function, call another one, or return from it.
Goto(t, l)           == pc' = [pc EXCEPT ![t] = [at |-> l, arg |-> @.arg, ret |-> @.ret]]
Call(t, l, arg, ret) == pc' = [pc EXCEPT ![t] = [at |-> l, arg |-> arg, ret |-> ret]]
Return(t, result)    == pc' = [pc EXCEPT ![t] = [at |-> @.ret, arg |-> result, ret |-> "off"]]

\* The thread ends; that it was detached no longer matters.
Exit(t) == pc' = [pc EXCEPT ![t] = Off] /\ detached' = detached \ {t}

\* pthread_create of a thread of pool, which starts at l, while t goes to next.
Create(t, next, kind, pool, l) ==
  \E n \in pool :
    /\ At(n, "off")
    /\ pc' = [pc EXCEPT ![t] = next, ![n] = [at |-> l, arg |-> None, ret |-> "off"]]
    /\ handle' = [handle EXCEPT ![kind] = n]
    /\ detached' = detached \ {n}

\* pthread_join returns when the thread has ended, and at once when it is a
\* detached one.
Joinable(kind) == \/ handle[kind] = None
                  \/ At(handle[kind], "off")
                  \/ handle[kind] \in detached

Detach(kind) == detached' = detached \cup {handle[kind]}

threads == <<handle, detached>>

InitControl(kinds) ==
  /\ output = [active |-> FALSE, data_active |-> FALSE,
               stopping |-> FALSE,          \* stopping_event is not signalled
               ending |-> FALSE,            \* end_data_capture_thread_active
               hooked |-> FALSE,            \* encoders and service started
               stop_code |-> "SUCCESS",
               reconnecting |-> FALSE,
               reconnect_stop |-> FALSE,    \* reconnect_stop_event
               reconnect_thread_active |-> FALSE,
               retries |-> 0]
  /\ handle = [k \in {"end", "reconnect"} \cup kinds |-> None]
  /\ detached = {}
  /\ pc = [t \in Threads |-> [Off EXCEPT !.at = IF t = UI THEN "idle" ELSE "off"]]
  /\ heard = [starts |-> 0, requests |-> 0, stops |-> 0,
              reported |-> TRUE, code |-> None]

obs_output_active == output.active \/ output.reconnecting

----------------------------------------------------------------------------
(* The user interface (window-basic-main.cpp) starts the output when it is *)
(* neither active nor on its way to be, and stops it while it is active.   *)

\* obs_output_start.
Start ==
  /\ At(UI, "idle")
  /\ heard.starts < MaxStarts
  /\ ~obs_output_active /\ heard.reported
  /\ Call(UI, "actual_start", None, "started")
  /\ heard' = [starts |-> heard.starts + 1, requests |-> 0, stops |-> 0,
               reported |-> FALSE, code |-> None]
  /\ UNCHANGED <<output, threads>>

\* obs_output_start returns: a failure is reported to the caller.
Started ==
  /\ At(UI, "started")
  /\ heard' = [heard EXCEPT !.reported = @ \/ Arg(UI) = "failed"]
  /\ Call(UI, "idle", None, "off")
  /\ UNCHANGED <<output, threads>>

Request ==
  /\ At(UI, "idle") /\ obs_output_active
  /\ heard.requests < MaxStops
  /\ heard' = [heard EXCEPT !.requests = @ + 1]

\* obs_output_stop.
Stop ==
  /\ Request
  /\ IF output.reconnecting
     THEN Call(UI, "force_stop", None, "idle")
     ELSE ~output.stopping /\ Call(UI, "actual_stop", "stop", "idle")
  /\ UNCHANGED <<output, threads>>

\* obs_output_force_stop.
ForceStop ==
  /\ Request
  /\ Call(UI, "force_stop", None, "idle")
  /\ UNCHANGED <<output, threads>>

ForceStopCode ==
  /\ At(UI, "force_stop")
  /\ output' = IF output.stopping THEN output ELSE [output EXCEPT !.stop_code = "SUCCESS"]
  /\ Call(UI, "actual_stop", "force", "idle")
  /\ UNCHANGED <<threads, heard>>

\* obs_output_actual_stop: unless it is stopping already, or forced to.
ActualStop ==
  /\ At(UI, "actual_stop")
  /\ IF output.stopping /\ Arg(UI) # "force"
     THEN Return(UI, None) /\ UNCHANGED output
     ELSE Goto(UI, "stop_reconnect") /\ output' = [output EXCEPT !.stopping = TRUE]
  /\ UNCHANGED <<threads, heard>>

StopReconnect ==
  /\ At(UI, "stop_reconnect")
  /\ IF output.reconnecting
     THEN /\ output' = [output EXCEPT !.reconnect_stop = TRUE]
          /\ Goto(UI, IF output.reconnect_thread_active THEN "join_reconnect"
                                                        ELSE "stop_plugin")
     ELSE UNCHANGED output /\ Goto(UI, "stop_plugin")
  /\ UNCHANGED <<threads, heard>>

JoinReconnect ==
  /\ At(UI, "join_reconnect") /\ Joinable("reconnect")
  /\ Goto(UI, "stop_plugin")
  /\ UNCHANGED <<output, threads, heard>>

User == \/ Start \/ Started \/ Stop \/ ForceStop \/ ForceStopCode
        \/ ActualStop \/ StopReconnect \/ JoinReconnect

----------------------------------------------------------------------------
(* obs_output_actual_start, and what every info.start does first.          *)

ActualStart(t) ==
  /\ At(t, "actual_start") /\ ~output.stopping
  /\ output' = [output EXCEPT !.stop_code = "SUCCESS"]
  /\ Goto(t, "can_begin")
  /\ UNCHANGED <<threads, heard>>

\* obs_output_can_begin_data_capture joins the thread that ends the last one.
CanBegin(t) ==
  /\ At(t, "can_begin")
  /\ \/ output.active /\ Return(t, "failed")
     \/ /\ ~output.active
        /\ output.ending => Joinable("end")
        /\ Goto(t, "initialize")
  /\ UNCHANGED <<output, threads, heard>>

\* obs_output_initialize_encoders: the service or an encoder may fail.
Initialize(t) ==
  /\ At(t, "initialize")
  /\ \/ /\ "initialize" \in Faults \/ output.active
        /\ Return(t, "failed")
     \/ ~output.active /\ Goto(t, "start_plugin")
  /\ UNCHANGED <<output, threads, heard>>

Starting(t) == ActualStart(t) \/ CanBegin(t) \/ Initialize(t)

----------------------------------------------------------------------------
(* obs_output_begin_data_capture.                                          *)

BeginCapture(t) ==
  /\ At(t, "begin_capture")
  /\ IF output.active
     THEN Return(t, "failed") /\ UNCHANGED output
     ELSE /\ output' = [output EXCEPT !.data_active = TRUE, !.hooked = TRUE]
          /\ Goto(t, "activate")
  /\ UNCHANGED <<threads, heard>>

Activate(t) ==
  /\ At(t, "activate")
  /\ output' = [output EXCEPT !.active = TRUE]
  /\ Goto(t, "signal_start")
  /\ UNCHANGED <<threads, heard>>

\* "reconnect_success" or "start".
SignalStart(t) ==
  /\ At(t, "signal_start")
  /\ output' = [output EXCEPT !.reconnecting = FALSE]
  /\ heard' = [heard EXCEPT !.reported = @ \/ ~output.reconnecting]
  /\ Return(t, "ok")
  /\ UNCHANGED threads

Begin(t) == BeginCapture(t) \/ Activate(t) \/ SignalStart(t)

----------------------------------------------------------------------------
(* obs_output_signal_stop, obs_output_end_data_capture_internal.           *)

can_reconnect(code) == \/ output.reconnecting /\ code # "SUCCESS"
                       \/ RetryMax # 0 /\ code = "DISCONNECTED"

\* Mutant: the code is not stored.
SignalStopNoCode(t) ==
  /\ At(t, "signal_stop")
  /\ Call(t, "end_capture", IF can_reconnect(Arg(t)) THEN "quiet" ELSE "signal", pc[t].ret)
  /\ UNCHANGED <<output, threads, heard>>

SignalStop(t) ==
  /\ At(t, "signal_stop")
  /\ output' = [output EXCEPT !.stop_code = Arg(t)]
  /\ Call(t, "end_capture", IF can_reconnect(Arg(t)) THEN "quiet" ELSE "signal", pc[t].ret)
  /\ UNCHANGED <<threads, heard>>

\* The listeners hear "stop", with output->stop_code
\* (after two of them the history stops counting).
HearStop == heard' = [heard EXCEPT !.stops = IF @ = 2 THEN 2 ELSE @ + 1,
                                   !.code = output.stop_code, !.reported = TRUE]

\* There is no capture to end.
EndCaptureInactive(t) ==
  /\ At(t, "end_capture")
  /\ ~output.active \/ ~output.data_active
  /\ IF Arg(t) = "signal"
     THEN /\ HearStop /\ Return(t, None)
          /\ output' = [output EXCEPT !.stop_code = "SUCCESS", !.stopping = FALSE]
     ELSE UNCHANGED <<heard, output>> /\ Goto(t, "output_reconnect")
  /\ UNCHANGED threads

EndCapture(t) ==
  /\ At(t, "end_capture")
  /\ output.active /\ output.data_active
  /\ Goto(t, "end_data")
  /\ UNCHANGED <<output, threads, heard>>

EndData(t) ==
  /\ At(t, "end_data")
  /\ output' = [output EXCEPT !.data_active = FALSE]
  /\ Goto(t, "join_end")
  /\ UNCHANGED <<threads, heard>>

JoinEnd(t) ==
  /\ At(t, "join_end")
  /\ output.ending => Joinable("end")
  /\ Goto(t, "create_end")
  /\ UNCHANGED <<output, threads, heard>>

\* Mutant: end_data_capture_thread_active is not set.
CreateEndUnmarked(t) ==
  /\ At(t, "create_end")
  /\ Create(t, [at  |-> IF Arg(t) = "signal" THEN "hear_stop"
                                             ELSE "output_reconnect",
                arg |-> Arg(t), ret |-> pc[t].ret],
            "end", Ends, "end")
  /\ UNCHANGED <<output, heard>>

CreateEnd(t) ==
  /\ At(t, "create_end")
  /\ output' = [output EXCEPT !.ending = TRUE]
  /\ Create(t, [at  |-> IF Arg(t) = "signal" THEN "hear_stop"
                                             ELSE "output_reconnect",
                arg |-> Arg(t), ret |-> pc[t].ret],
            "end", Ends, "end")
  /\ UNCHANGED heard

\* Mutant: the end of an active capture is not signalled.
EndSignalSilent(t) ==
  /\ At(t, "hear_stop")
  /\ output' = [output EXCEPT !.stop_code = "SUCCESS"]
  /\ Return(t, None)
  /\ UNCHANGED <<threads, heard>>

EndSignal(t) ==
  /\ At(t, "hear_stop")
  /\ HearStop
  /\ output' = [output EXCEPT !.stop_code = "SUCCESS"]
  /\ Return(t, None)
  /\ UNCHANGED threads

Ending(t) == \/ SignalStop(t) \/ EndCaptureInactive(t) \/ EndCapture(t)
             \/ EndData(t) \/ JoinEnd(t) \/ CreateEnd(t) \/ EndSignal(t)

----------------------------------------------------------------------------
(* end_data_capture_thread.                                                *)

\* Mutant: the encoders are left running.
EndStopHooked(t) ==
  /\ At(t, "end") /\ Goto(t, "end_inactive") /\ UNCHANGED <<output, threads, heard>>

EndStop(t) ==
  /\ At(t, "end")
  /\ output' = [output EXCEPT !.hooked = FALSE]
  /\ Goto(t, "end_inactive")
  /\ UNCHANGED <<threads, heard>>

EndInactive(t) ==
  /\ At(t, "end_inactive")
  /\ output' = [output EXCEPT !.active = FALSE]
  /\ Goto(t, "end_event")
  /\ UNCHANGED <<threads, heard>>

EndEvent(t) ==
  /\ At(t, "end_event")
  /\ output' = [output EXCEPT !.stopping = FALSE]
  /\ Goto(t, "end_exit")
  /\ UNCHANGED <<threads, heard>>

EndExit(t) ==
  /\ At(t, "end_exit")
  /\ output' = [output EXCEPT !.ending = FALSE]
  /\ Exit(t)
  /\ UNCHANGED <<handle, heard>>

EndFinish(t) == EndInactive(t) \/ EndEvent(t) \/ EndExit(t)

----------------------------------------------------------------------------
(* output_reconnect and reconnect_thread.                                  *)

\* Mutant: reconnecting stays set when the retries run out.
ReconnectStuck(t) ==
  /\ At(t, "output_reconnect")
  /\ LET retries == IF output.reconnecting THEN output.retries ELSE 0
     IN IF retries >= RetryMax
        THEN /\ output' = [output EXCEPT !.stop_code = "DISCONNECTED", !.retries = retries]
             /\ Call(t, "end_capture", "signal", pc[t].ret)
        ELSE /\ output' = [output EXCEPT !.stop_code = "DISCONNECTED",
                                         !.reconnecting = TRUE,
                                         !.reconnect_stop = @ /\ output.reconnecting,
                                         !.retries = retries + 1]
             /\ Goto(t, "create_reconnect")
  /\ UNCHANGED <<threads, heard>>

\* Out of retries, the output stops; else it tries once more after a while.
Reconnect(t) ==
  /\ At(t, "output_reconnect")
  /\ LET retries == IF output.reconnecting THEN output.retries ELSE 0
     IN IF retries >= RetryMax
        THEN /\ output' = [output EXCEPT !.stop_code = "DISCONNECTED",
                                         !.reconnecting = FALSE,
                                         !.retries = retries]
             /\ Call(t, "end_capture", "signal", pc[t].ret)
        ELSE /\ output' = [output EXCEPT !.stop_code = "DISCONNECTED",
                                         !.reconnecting = TRUE,
                                         !.reconnect_stop = @ /\ output.reconnecting,
                                         !.retries = retries + 1]
             /\ Goto(t, "create_reconnect")
  /\ UNCHANGED <<threads, heard>>

CreateReconnect(t) ==
  /\ At(t, "create_reconnect")
  /\ Create(t, [at |-> pc[t].ret, arg |-> None, ret |-> "off"],
            "reconnect", Reconnects, "reconnect")
  /\ UNCHANGED <<output, heard>>

ReconnectActive(t) ==
  /\ At(t, "reconnect")
  /\ output' = [output EXCEPT !.reconnect_thread_active = TRUE]
  /\ Goto(t, "reconnect_wait")
  /\ UNCHANGED <<threads, heard>>

\* The threads of the connection that was lost have gone, or wait for packets,
\* and the user is not in the middle of a call that could go on.
Settled == /\ \A t \in Ends \cup Others : At(t, "off") \/ At(t, "send")
           /\ At(UI, "idle") \/ At(UI, "join_reconnect")

\* Mutant: it does not wait for the reconnect delay.
ReconnectAtOnce(t) ==
  /\ At(t, "reconnect_wait")
  /\ IF output.reconnect_stop THEN Goto(t, "reconnect_done")
                              ELSE Call(t, "actual_start", None, "reconnect_done")
  /\ UNCHANGED <<output, threads, heard>>

\* Mutant: it waits for the stop event, however long.
ReconnectNever(t) ==
  /\ At(t, "reconnect_wait") /\ output.reconnect_stop
  /\ Goto(t, "reconnect_done")
  /\ UNCHANGED <<output, threads, heard>>

\* os_event_timedwait: it is told to stop, or the time is up.
ReconnectWait(t) ==
  /\ At(t, "reconnect_wait")
  /\ \/ /\ output.reconnect_stop
        /\ Goto(t, "reconnect_done")
     \/ /\ ~output.reconnect_stop
        /\ SlowTimer => Settled
        /\ Call(t, "actual_start", None, "reconnect_done")
  /\ UNCHANGED <<output, threads, heard>>

ReconnectDone(t) ==
  /\ At(t, "reconnect_done")
  /\ IF output.reconnect_stop
     THEN output' = [output EXCEPT !.reconnecting = FALSE] /\ UNCHANGED detached
     ELSE Detach("reconnect") /\ UNCHANGED output
  /\ Goto(t, "reconnect_exit")
  /\ UNCHANGED <<handle, heard>>

ReconnectExit(t) ==
  /\ At(t, "reconnect_exit")
  /\ output' = [output EXCEPT !.reconnect_thread_active = FALSE]
  /\ Exit(t)
  /\ UNCHANGED <<handle, heard>>

Reconnecting(t) == Reconnect(t) \/ CreateReconnect(t)

ReconnectThread(t) == \/ ReconnectActive(t) \/ ReconnectWait(t)
                      \/ ReconnectDone(t) \/ ReconnectExit(t)

----------------------------------------------------------------------------
(* What every output promises.                                             *)

Locations ==
  {"off", "idle", "started", "force_stop", "actual_stop", "stop_reconnect",
   "join_reconnect", "actual_start", "can_begin", "initialize", "begin_capture",
   "activate", "signal_start", "signal_stop", "end_capture", "end_data",
   "join_end", "create_end", "hear_stop", "end", "end_inactive", "end_event",
   "end_exit", "output_reconnect", "create_reconnect", "reconnect",
   "reconnect_wait", "reconnect_done", "reconnect_exit"}

OutputType ==
  [active : BOOLEAN, data_active : BOOLEAN, stopping : BOOLEAN, ending : BOOLEAN,
   hooked : BOOLEAN, stop_code : Codes, reconnecting : BOOLEAN,
   reconnect_stop : BOOLEAN, reconnect_thread_active : BOOLEAN,
   retries : 0 .. RetryMax]

HeardType == [starts : 0 .. MaxStarts, requests : 0 .. MaxStops, stops : 0 .. 2,
              reported : BOOLEAN, code : Codes \cup {None}]

Arguments == Codes \cup {None, "stop", "force", "ok", "failed", "signal", "quiet"}

\* kinds, places: the plugin's threads and the locations of its functions.
PcType(places) ==
  [at : Locations \cup places, arg : Arguments, ret : Locations \cup places]

ControlTypeOK(kinds, places) ==
  /\ output \in OutputType
  /\ handle \in [{"end", "reconnect"} \cup kinds -> Threads \cup {None}]
  /\ detached \subseteq Threads
  /\ pc \in [Threads -> PcType(places)]
  /\ heard \in HeardType

\* The flags that other code goes by and what the encoders do agree, but for
\* the steps some thread is in the middle of: encoders feed an inactive output
\* only while begin_data_capture is about to make it active; an active output
\* is not fed only while its end_data_capture_thread is about to end it; and a
\* capture that is ending has a thread that will end it.
CapturePaired ==
  /\ output.hooked /\ ~output.active => \E t \in Threads : At(t, "activate")
  /\ output.active /\ ~output.hooked => \E t \in Ends : At(t, "end_inactive")
  /\ output.active /\ ~output.data_active =>
       \E t \in Threads : At(t, "join_end") \/ At(t, "create_end")
                        \/ At(t, "end")      \/ At(t, "end_inactive")

\* One thread at a time ends a data capture: it is joined before the next.
OneEnding ==
  \A t, u \in Ends : ~At(t, "off") /\ ~At(u, "off") => t = u
=============================================================================
