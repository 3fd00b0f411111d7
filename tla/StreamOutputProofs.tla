-------------------------- MODULE StreamOutputProofs --------------------------
(***************************************************************************)
(* Safety of the streaming output.                                         *)
(*                                                                         *)
(* The types hold for every setting of the constants.  The theorems about  *)
(* the invariant Inv are for the settings of Scope, and rest on one idea:  *)
(* the threads of a stream follow one another.  The connect thread creates *)
(* the send thread before it begins the data capture (rtmp-stream.c,       *)
(* init_send), the send thread is the one that ends the capture or finds   *)
(* that sending failed, the thread that ends a capture is created by it,   *)
(* and the reconnect thread, whose delay outlasts all of these, starts the *)
(* next connection.  Alone says that there is one of each kind; UserInv to *)
(* RetryInv say, for each place a thread can be at, what the others can be *)
(* doing meanwhile and which flags of the output are set; Live says who    *)
(* will clear a flag that is set; CodeInv where a stop code comes from.    *)
(*                                                                         *)
(* OneConnection has an invariant of its own, Turns, which also covers a   *)
(* user who stops the stream while it reconnects.                          *)
(*                                                                         *)
(* Outside these settings the properties can fail.  Two streams with one   *)
(* output (MaxStarts = 2) meet the send thread of the first one; a timer   *)
(* that ends early meets the threads of the lost connection; a server that *)
(* refuses the metadata ("meta") leaves a send thread that was never told  *)
(* to stop; and an output that is stopped while it reconnects (outside     *)
(* QuietScope) can end its capture in two threads at once.                 *)
(***************************************************************************)
EXTENDS StreamOutput, TLAPS

\* The locations the calls return to.
Returns == {"off", "idle", "started", "connect_done", "send_done", "reconnect_done"}

\* Where the threads are; those of a kind that run were created once.
PcOK ==
  /\ pc \in [Threads -> [at : Locations \cup Places, arg : Arguments, ret : Returns]]
  /\ \A t \in Threads : At(t, "signal_stop") => Arg(t) \in Codes
  /\ \A c \in Connects : ~At(c, "off") => handle["connect"] # None
  /\ \A s \in Sends : ~At(s, "off") => handle["send"] # None
  /\ \A r \in Reconnects : ~At(r, "off") => handle["reconnect"] # None

HandlesOK ==
  /\ handle \in [{"end", "reconnect"} \cup {"connect", "send"} -> Threads \cup {None}]
  /\ detached \subseteq Threads

StateOK == output \in OutputType /\ heard \in HeardType /\ stream \in StreamType

TypeInv == PcOK /\ HandlesOK /\ StateOK

----------------------------------------------------------------------------
(* The threads, and the types.                                             *)

USE DEF At, Arg, threads

\* The threads are different ones.
LEMMA OthersAre ==
  /\ UI \in Threads
  /\ \A e \in Ends : /\ e \in Threads /\ e # UI
                     /\ e \notin Reconnects /\ e \notin Connects /\ e \notin Sends
  /\ \A r \in Reconnects : /\ r \in Threads /\ r # UI
                           /\ r \notin Connects /\ r \notin Sends
  /\ \A c \in Connects : c \in Threads /\ c # UI /\ c \notin Sends
  /\ \A s \in Sends : s \in Threads /\ s # UI
  /\ \A t \in Threads : \/ t = UI \/ t \in Ends \/ t \in Reconnects
                        \/ t \in Connects \/ t \in Sends
  /\ \A t \in Threads : t # None
  BY StreamAssumption, ThreadsAssumption DEF Threads

\* A thread goes to a location of the code, with an argument it can have.
LEMMA GotoTyped ==
  ASSUME PcOK, NEW t \in Threads, NEW l \in (Locations \cup Places) \ {"signal_stop"},
         Goto(t, l), ~At(t, "off"), handle' = handle
  PROVE  PcOK'
  BY OthersAre DEF PcOK, Goto

\* The same for a call, which also says where to return to.
LEMMA CallTyped ==
  ASSUME PcOK, NEW t \in Threads, NEW l \in Locations \cup Places,
         NEW a \in Arguments, NEW r \in Returns, Call(t, l, a, r),
         ~At(t, "off"), handle' = handle, l = "signal_stop" => a \in Codes
  PROVE  PcOK'
  BY OthersAre DEF PcOK, Call

\* A function returns to one of the places that calls return to.
LEMMA ReturnTyped ==
  ASSUME PcOK, NEW t \in Threads, NEW a \in Arguments, Return(t, a),
         ~At(t, "off"), handle' = handle
  PROVE  PcOK'
<1>1. pc[t].ret \in Returns
  BY DEF PcOK
<1>2. \A r \in Returns : r \in Locations \cup Places /\ r # "signal_stop"
  BY DEF Returns, Locations, Places
<1>3. "off" \in Returns
  BY DEF Returns
<1>. QED BY <1>1, <1>2, <1>3, OthersAre DEF PcOK, Return

\* A thread exits.
LEMMA ExitTyped ==
  ASSUME PcOK, HandlesOK, NEW t \in Threads, Exit(t), handle' = handle
  PROVE  PcOK' /\ HandlesOK'
  BY OthersAre DEF PcOK, HandlesOK, Exit, Off, Returns, Locations, Arguments

\* A thread creates one of the given kind and takes its handle.
LEMMA CreateTyped ==
  ASSUME PcOK, NEW t \in Threads, NEW at \in (Locations \cup Places) \ {"signal_stop"},
         NEW a \in Arguments, NEW r \in Returns,
         NEW kind, NEW pool,
         <<kind, pool>> \in {<<"end", Ends>>, <<"reconnect", Reconnects>>,
                            <<"connect", Connects>>, <<"send", Sends>>},
         NEW l \in (Locations \cup Places) \ {"signal_stop"},
         HandlesOK, ~At(t, "off"),
         Create(t, [at |-> at, arg |-> a, ret |-> r], kind, pool, l)
  PROVE  PcOK' /\ HandlesOK'
<1>1. /\ pool \subseteq Threads /\ kind \in {"end", "reconnect", "connect", "send"}
      /\ kind = "end" => pool = Ends
      /\ kind = "reconnect" => pool = Reconnects
      /\ kind = "connect" => pool = Connects
      /\ kind = "send" => pool = Sends
  BY OthersAre
<1>2. PICK n \in pool :
        /\ pc' = [pc EXCEPT ![t] = [at |-> at, arg |-> a, ret |-> r],
                            ![n] = [at |-> l, arg |-> None, ret |-> "off"]]
        /\ handle' = [handle EXCEPT ![kind] = n]
        /\ detached' = detached \ {n}
  BY DEF Create
<1>3. None \in Arguments /\ "off" \in Returns
  BY DEF Arguments, Returns
<1>4. HandlesOK'
  BY <1>1, <1>2 DEF HandlesOK
<1>5. pc' \in [Threads -> [at : Locations \cup Places, arg : Arguments, ret : Returns]]
  BY <1>1, <1>2, <1>3 DEF PcOK
<1>6. \A u \in Threads : At(u, "signal_stop")' => Arg(u)' \in Codes
  BY <1>1, <1>2, <1>3 DEF PcOK
<1>7. /\ \A k \in {"reconnect", "connect", "send"} :
           handle[k] # None \/ k = kind => handle'[k] # None
      /\ \A u \in Threads : ~At(u, "off")' => ~At(u, "off") \/ u = n
  BY <1>1, <1>2, OthersAre DEF HandlesOK, PcOK
<1>. QED BY <1>1, <1>2, <1>4, <1>5, <1>6, <1>7, OthersAre DEF PcOK

\* The listeners hear one of the stop codes.
LEMMA HearStopTyped ==
  ASSUME heard \in HeardType, output.stop_code \in Codes, HearStop
  PROVE  heard' \in HeardType
<1>1. /\ heard.stops \in 0 .. 2
      /\ (IF heard.stops = 2 THEN 2 ELSE heard.stops + 1) \in 0 .. 2
  BY DEF HeardType
<1>2. PICK n \in 0 .. 2 : heard' = [heard EXCEPT !.stops = n, !.code = output.stop_code,
                                             !.reported = TRUE]
  BY <1>1 DEF HearStop
<1>. QED BY <1>2 DEF HeardType

----------------------------------------------------------------------------
(* Every step keeps to the types.                                          *)

\* What output control does in any thread.
LEMMA SharedTyped ==
  ASSUME TypeInv, NEW t \in Threads, stream' = stream,
         Starting(t) \/ Begin(t) \/ Ending(t) \/ Reconnecting(t)
  PROVE  TypeInv'
<1>. USE DEF TypeInv, StateOK, HandlesOK
<1>1. output.stop_code \in Codes
  BY DEF OutputType
<1>2. CASE ActualStart(t)
  <2>1. PcOK'
    BY <1>2, <1>1, GotoTyped
       DEF ActualStart, Locations, Places, Arguments, Codes, Returns, PcOK
  <2>2. output' \in OutputType
    BY <1>2 DEF ActualStart, OutputType, Codes
  <2>. QED BY <1>2, <2>1, <2>2 DEF ActualStart
<1>3. CASE CanBegin(t)
  <2>1. PcOK'
    BY <1>3, <1>1, GotoTyped, ReturnTyped
       DEF CanBegin, Locations, Places, Arguments, Codes, Returns, PcOK
  <2>. QED BY <1>3, <2>1 DEF CanBegin
<1>4. CASE Initialize(t)
  <2>1. PcOK'
    BY <1>4, <1>1, GotoTyped, ReturnTyped
       DEF Initialize, Locations, Places, Arguments, Codes, Returns, PcOK
  <2>. QED BY <1>4, <2>1 DEF Initialize
<1>5. CASE BeginCapture(t)
  <2>1. PcOK'
    BY <1>5, <1>1, GotoTyped, ReturnTyped
       DEF BeginCapture, Locations, Places, Arguments, Codes, Returns, PcOK
  <2>2. output' \in OutputType
    BY <1>5 DEF BeginCapture, OutputType, Codes
  <2>. QED BY <1>5, <2>1, <2>2 DEF BeginCapture
<1>6. CASE Activate(t)
  <2>1. PcOK'
    BY <1>6, <1>1, GotoTyped
       DEF Activate, Locations, Places, Arguments, Codes, Returns, PcOK
  <2>2. output' \in OutputType
    BY <1>6 DEF Activate, OutputType, Codes
  <2>. QED BY <1>6, <2>1, <2>2 DEF Activate
<1>7. CASE SignalStart(t)
  <2>1. PcOK'
    BY <1>7, <1>1, ReturnTyped
       DEF SignalStart, Locations, Places, Arguments, Codes, Returns, PcOK
  <2>2. output' \in OutputType
    BY <1>7 DEF SignalStart, OutputType, Codes
  <2>3. heard' \in HeardType
    BY <1>7 DEF SignalStart, HeardType
  <2>. QED BY <1>7, <2>1, <2>2, <2>3 DEF SignalStart
<1>8. CASE SignalStop(t)
  <2>1. Arg(t) \in Codes /\ pc[t].ret \in Returns
    BY <1>8 DEF PcOK, SignalStop
  <2>2. /\ ~At(t, "off") /\ handle' = handle
        /\ \E a \in {"quiet", "signal"} : Call(t, "end_capture", a, pc[t].ret)
    BY <1>8 DEF SignalStop
  <2>3. PcOK'
    BY <2>1, <2>2, CallTyped DEF Locations, Arguments
  <2>4. output' \in OutputType
    BY <1>8, <2>1 DEF SignalStop, OutputType
  <2>. QED BY <1>8, <2>3, <2>4 DEF SignalStop
<1>9. CASE EndCaptureInactive(t)
  <2>1. PcOK'
    BY <1>9, <1>1, GotoTyped, ReturnTyped
       DEF EndCaptureInactive, Locations, Places, Arguments, Codes, Returns, PcOK
  <2>2. heard' \in HeardType
    BY <1>9, <1>1, HearStopTyped DEF EndCaptureInactive
  <2>3. output' \in OutputType
    BY <1>9 DEF EndCaptureInactive, OutputType, Codes
  <2>. QED BY <1>9, <2>1, <2>2, <2>3 DEF EndCaptureInactive
<1>10. CASE EndCapture(t)
  <2>1. PcOK'
    BY <1>10, <1>1, GotoTyped
       DEF EndCapture, Locations, Places, Arguments, Codes, Returns, PcOK
  <2>. QED BY <1>10, <2>1 DEF EndCapture
<1>11. CASE EndData(t)
  <2>1. PcOK'
    BY <1>11, <1>1, GotoTyped
       DEF EndData, Locations, Places, Arguments, Codes, Returns, PcOK
  <2>2. output' \in OutputType
    BY <1>11 DEF EndData, OutputType, Codes
  <2>. QED BY <1>11, <2>1, <2>2 DEF EndData
<1>12. CASE JoinEnd(t)
  <2>1. PcOK'
    BY <1>12, <1>1, GotoTyped
       DEF JoinEnd, Locations, Places, Arguments, Codes, Returns, PcOK
  <2>. QED BY <1>12, <2>1 DEF JoinEnd
<1>13. CASE CreateEnd(t)
  <2>1. /\ Ends \subseteq Threads /\ Arg(t) \in Arguments /\ pc[t].ret \in Returns
        /\ (IF Arg(t) = "signal" THEN "hear_stop" ELSE "output_reconnect")
              \in (Locations \cup Places) \ {"signal_stop"}
    BY DEF PcOK, Threads, Locations
  <2>2. /\ ~At(t, "off")
        /\ Create(t, [at |-> IF Arg(t) = "signal" THEN "hear_stop" ELSE "output_reconnect",
                      arg |-> Arg(t), ret |-> pc[t].ret], "end", Ends, "end")
    BY <1>13 DEF CreateEnd
  <2>3. PcOK' /\ HandlesOK'
    BY <2>1, <2>2, CreateTyped DEF Locations
  <2>4. output' \in OutputType
    BY <1>13 DEF CreateEnd, OutputType, Codes
  <2>. QED BY <1>13, <2>3, <2>4 DEF CreateEnd
<1>14. CASE EndSignal(t)
  <2>1. PcOK'
    BY <1>14, <1>1, ReturnTyped
       DEF EndSignal, Locations, Places, Arguments, Codes, Returns, PcOK
  <2>2. heard' \in HeardType
    BY <1>14, <1>1, HearStopTyped DEF EndSignal
  <2>3. output' \in OutputType
    BY <1>14 DEF EndSignal, OutputType, Codes
  <2>. QED BY <1>14, <2>1, <2>2, <2>3 DEF EndSignal
<1>15. CASE Reconnect(t)
  <2>1. /\ ~At(t, "off") /\ handle' = handle
        /\ Call(t, "end_capture", "signal", pc[t].ret) \/ Goto(t, "create_reconnect")
    BY <1>15 DEF Reconnect
  <2>2. pc[t].ret \in Returns
    BY DEF PcOK
  <2>3. PcOK'
    BY <2>1, <2>2, GotoTyped, CallTyped DEF Locations, Arguments
  <2>. DEFINE tried == IF output.reconnecting THEN output.retries ELSE 0
  <2>4. tried \in 0 .. RetryMax
    BY RetryAssumption DEF OutputType
  <2>5. \/ output' = [output EXCEPT !.stop_code = "DISCONNECTED",
                                    !.reconnecting = FALSE, !.retries = tried]
        \/ /\ ~(tried >= RetryMax)
           /\ output' = [output EXCEPT !.stop_code = "DISCONNECTED", !.reconnecting = TRUE,
                                       !.reconnect_stop = @ /\ output.reconnecting,
                                       !.retries = tried + 1]
    BY <1>15 DEF Reconnect
  <2>. HIDE DEF tried
  <2>6. ~(tried >= RetryMax) => tried + 1 \in 0 .. RetryMax
    BY <2>4, RetryAssumption
  <2>7. output' \in OutputType
    BY <2>4, <2>5, <2>6 DEF OutputType, Codes
  <2>. QED BY <1>15, <2>3, <2>7 DEF Reconnect
<1>16. CASE CreateReconnect(t)
  <2>1. /\ Reconnects \subseteq Threads /\ pc[t].ret \in (Locations \cup Places) \ {"signal_stop"}
        /\ None \in Arguments /\ "off" \in Returns
    BY DEF PcOK, Threads, Locations, Places, Returns, Arguments
  <2>2. /\ ~At(t, "off")
        /\ Create(t, [at |-> pc[t].ret, arg |-> None, ret |-> "off"],
                  "reconnect", Reconnects, "reconnect")
    BY <1>16 DEF CreateReconnect
  <2>3. PcOK' /\ HandlesOK'
    BY <2>1, <2>2, CreateTyped DEF Locations
  <2>. QED BY <1>16, <2>3 DEF CreateReconnect
<1>. QED BY <1>2, <1>3, <1>4, <1>5, <1>6, <1>7, <1>8, <1>9, <1>10, <1>11, <1>12,
            <1>13, <1>14, <1>15, <1>16
            DEF Starting, Begin, Ending, Reconnecting

\* rtmp_stream_start, in the user interface or in the reconnect thread.
LEMMA StreamStartTyped ==
  ASSUME TypeInv, NEW t \in Threads, StreamStart(t) PROVE TypeInv'
<1>1. /\ Connects \subseteq Threads /\ pc[t].ret \in (Locations \cup Places) \ {"signal_stop"}
      /\ "ok" \in Arguments /\ "off" \in Returns
  BY OthersAre DEF TypeInv, PcOK, Locations, Places, Returns, Arguments
<1>2. /\ ~At(t, "off")
      /\ Create(t, [at |-> pc[t].ret, arg |-> "ok", ret |-> "off"],
                "connect", Connects, "init_connect")
  BY DEF StreamStart
<1>3. PcOK' /\ HandlesOK'
  BY <1>1, <1>2, CreateTyped DEF TypeInv, Places
<1>4. stream' \in StreamType
  BY DEF TypeInv, StateOK, StreamStart, StreamType
<1>. QED BY <1>3, <1>4 DEF TypeInv, StateOK, StreamStart

\* What the user interface does.
LEMMA UserTyped ==
  ASSUME TypeInv, UserThread PROVE TypeInv'
<1>. USE DEF TypeInv, StateOK, HandlesOK
<1>1. UI \in Threads
  BY OthersAre
<1>2. CASE Start /\ stream' = stream
  <2>1. PcOK'
    BY <1>2, <1>1, CallTyped
       DEF Start, Locations, Places, Arguments, Codes, Returns, PcOK
  <2>2. heard' \in HeardType
    BY <1>2, BoundsAssumption DEF Start, HeardType
  <2>. QED BY <1>2, <2>1, <2>2 DEF Start
<1>3. CASE Started /\ stream' = stream
  <2>1. PcOK'
    BY <1>3, <1>1, CallTyped
       DEF Started, Locations, Places, Arguments, Codes, Returns, PcOK
  <2>2. heard' \in HeardType
    BY <1>3, BoundsAssumption DEF Started, HeardType
  <2>. QED BY <1>3, <2>1, <2>2 DEF Started
<1>4. CASE Stop /\ stream' = stream
  <2>1. PcOK'
    BY <1>4, <1>1, CallTyped
       DEF Stop, Request, Locations, Places, Arguments, Codes, Returns, PcOK
  <2>2. heard' \in HeardType
    BY <1>4, BoundsAssumption DEF Stop, Request, HeardType
  <2>. QED BY <1>4, <2>1, <2>2 DEF Stop, Request
<1>5. CASE ForceStop /\ stream' = stream
  <2>1. PcOK'
    BY <1>5, <1>1, CallTyped
       DEF ForceStop, Request, Locations, Places, Arguments, Codes, Returns, PcOK
  <2>2. heard' \in HeardType
    BY <1>5, BoundsAssumption DEF ForceStop, Request, HeardType
  <2>. QED BY <1>5, <2>1, <2>2 DEF ForceStop, Request
<1>6. CASE ForceStopCode /\ stream' = stream
  <2>1. PcOK'
    BY <1>6, <1>1, CallTyped
       DEF ForceStopCode, Locations, Places, Arguments, Codes, Returns, PcOK
  <2>2. output' \in OutputType
    BY <1>6 DEF ForceStopCode, OutputType, Codes
  <2>. QED BY <1>6, <2>1, <2>2 DEF ForceStopCode
<1>7. CASE ActualStop /\ stream' = stream
  <2>1. PcOK'
    BY <1>7, <1>1, GotoTyped, ReturnTyped
       DEF ActualStop, Locations, Places, Arguments, Codes, Returns, PcOK
  <2>2. output' \in OutputType
    BY <1>7 DEF ActualStop, OutputType, Codes
  <2>. QED BY <1>7, <2>1, <2>2 DEF ActualStop
<1>8. CASE StopReconnect /\ stream' = stream
  <2>1. PcOK'
    BY <1>8, <1>1, GotoTyped
       DEF StopReconnect, Locations, Places, Arguments, Codes, Returns, PcOK
  <2>2. output' \in OutputType
    BY <1>8 DEF StopReconnect, OutputType, Codes
  <2>. QED BY <1>8, <2>1, <2>2 DEF StopReconnect
<1>9. CASE JoinReconnect /\ stream' = stream
  <2>1. PcOK'
    BY <1>9, <1>1, GotoTyped
       DEF JoinReconnect, Locations, Places, Arguments, Codes, Returns, PcOK
  <2>. QED BY <1>9, <2>1 DEF JoinReconnect
<1>10. CASE StreamStop
  <2>1. PcOK'
    BY <1>10, <1>1, GotoTyped, ReturnTyped
       DEF StreamStop, Locations, Places, Arguments, Codes, Returns, PcOK
  <2>. QED BY <1>10, <2>1 DEF StreamStop
<1>11. CASE JoinConnect
  <2>1. PcOK'
    BY <1>11, <1>1, GotoTyped
       DEF JoinConnect, Locations, Places, Arguments, Codes, Returns, PcOK
  <2>. QED BY <1>11, <2>1 DEF JoinConnect
<1>12. CASE StopTs
  <2>1. /\ ~At(UI, "off") /\ handle' = handle
        /\ Goto(UI, "stop_event") \/ Call(UI, "signal_stop", "SUCCESS", pc[UI].ret)
    BY <1>12 DEF StopTs
  <2>2. pc[UI].ret \in Returns
    BY <1>1 DEF PcOK
  <2>3. PcOK'
    BY <1>1, <2>1, <2>2, GotoTyped, CallTyped DEF Locations, Places, Arguments, Codes
  <2>4. stream' \in StreamType
    BY <1>12 DEF StopTs, StreamType
  <2>. QED BY <1>12, <2>3, <2>4 DEF StopTs
<1>13. CASE StopEvent
  <2>1. PcOK'
    BY <1>13, <1>1, ReturnTyped
       DEF StopEvent, Locations, Places, Arguments, Codes, Returns, PcOK
  <2>2. stream' \in StreamType
    BY <1>13 DEF StopEvent, StreamType
  <2>. QED BY <1>13, <2>1, <2>2 DEF StopEvent
<1>14. CASE StreamStart(UI)
  BY <1>1, <1>14, StreamStartTyped
<1>15. CASE (Starting(UI) \/ Ending(UI) \/ Reconnecting(UI)) /\ stream' = stream
  BY <1>1, <1>15, SharedTyped
<1>. QED BY <1>2, <1>3, <1>4, <1>5, <1>6, <1>7, <1>8, <1>9, <1>10, <1>11, <1>12,
            <1>13, <1>14, <1>15
            DEF UserThread, User

\* What the threads of the plugin do.
LEMMA ConnectTyped ==
  ASSUME TypeInv, NEW c \in Connects, ConnectThread(c) PROVE TypeInv'
<1>. USE DEF TypeInv, StateOK, HandlesOK
<1>1. c \in Threads
  BY OthersAre
<1>2. CASE InitConnect(c)
  <2>1. PcOK'
    BY <1>2, <1>1, GotoTyped
       DEF InitConnect, Locations, Places, Arguments, Codes, Returns, PcOK
  <2>. QED BY <1>2, <2>1 DEF InitConnect
<1>3. CASE TryConnectFails(c)
  <2>1. PcOK'
    BY <1>3, <1>1, CallTyped
       DEF TryConnectFails, Locations, Places, Arguments, Codes, Returns, PcOK
  <2>. QED BY <1>3, <2>1 DEF TryConnectFails
<1>4. CASE SendMeta(c)
  <2>1. PcOK'
    BY <1>4, <1>1, CallTyped
       DEF SendMeta, Locations, Places, Arguments, Codes, Returns, PcOK
  <2>. QED BY <1>4, <2>1 DEF SendMeta
<1>5. CASE ConnectDone(c)
  <2>1. PcOK'
    BY <1>5, <1>1, GotoTyped
       DEF ConnectDone, Detach, Locations, Places, Arguments, Codes, Returns, PcOK
  <2>2. handle["connect"] \in Threads
    BY <1>5 DEF ConnectDone, PcOK
  <2>. QED BY <1>5, <2>1, <2>2 DEF ConnectDone, Detach
<1>6. CASE ConnectExit(c)
  <2>1. PcOK' /\ HandlesOK'
    BY <1>6, <1>1, ExitTyped DEF ConnectExit
  <2>2. stream' \in StreamType
    BY <1>6 DEF ConnectExit, StreamType
  <2>. QED BY <1>6, <2>1, <2>2 DEF ConnectExit
<1>7. CASE InitSend(c)
  <2>1. /\ Sends \subseteq Threads /\ None \in Arguments /\ "off" \in Returns
        /\ "send_meta" \in (Locations \cup Places) \ {"signal_stop"}
        /\ "send" \in (Locations \cup Places) \ {"signal_stop"}
    BY OthersAre DEF Locations, Places, Returns, Arguments
  <2>2. /\ ~At(c, "off")
        /\ Create(c, [at |-> "send_meta", arg |-> None, ret |-> "off"], "send", Sends, "send")
    BY <1>7 DEF InitSend
  <2>3. PcOK' /\ HandlesOK'
    BY <1>1, <2>1, <2>2, CreateTyped
  <2>4. stream' \in StreamType
    BY <1>7 DEF InitSend, StreamType
  <2>. QED BY <1>7, <2>3, <2>4 DEF InitSend
<1>8. CASE (Begin(c) \/ Ending(c) \/ Reconnecting(c)) /\ stream' = stream
  BY <1>1, <1>8, SharedTyped
<1>. QED BY <1>2, <1>3, <1>4, <1>5, <1>6, <1>7, <1>8 DEF ConnectThread

LEMMA SendTyped ==
  ASSUME TypeInv, NEW s \in Sends, SendThread(s) PROVE TypeInv'
<1>. USE DEF TypeInv, StateOK, HandlesOK
<1>1. s \in Threads
  BY OthersAre
<1>2. CASE SendStop(s)
  <2>1. PcOK'
    BY <1>2, <1>1, GotoTyped
       DEF SendStop, Locations, Places, Arguments, Codes, Returns, PcOK
  <2>. QED BY <1>2, <2>1 DEF SendStop
<1>3. CASE SendFails(s)
  <2>1. PcOK'
    BY <1>3, <1>1, GotoTyped
       DEF SendFails, Locations, Places, Arguments, Codes, Returns, PcOK
  <2>. QED BY <1>3, <2>1 DEF SendFails
<1>4. CASE SendEnd(s)
  <2>1. PcOK'
    BY <1>4, <1>1, CallTyped
       DEF SendEnd, Detach, Locations, Places, Arguments, Codes, Returns, PcOK
  <2>2. handle["send"] \in Threads
    BY <1>4 DEF SendEnd, PcOK
  <2>. QED BY <1>4, <2>1, <2>2 DEF SendEnd, Detach
<1>5. CASE SendDone(s)
  <2>1. PcOK'
    BY <1>5, <1>1, GotoTyped
       DEF SendDone, Locations, Places, Arguments, Codes, Returns, PcOK
  <2>2. stream' \in StreamType
    BY <1>5 DEF SendDone, StreamType
  <2>. QED BY <1>5, <2>1, <2>2 DEF SendDone
<1>6. CASE SendExit(s)
  <2>1. PcOK' /\ HandlesOK'
    BY <1>6, <1>1, ExitTyped DEF SendExit
  <2>2. stream' \in StreamType
    BY <1>6 DEF SendExit, StreamType
  <2>. QED BY <1>6, <2>1, <2>2 DEF SendExit
<1>7. CASE (Ending(s) \/ Reconnecting(s)) /\ stream' = stream
  BY <1>1, <1>7, SharedTyped
<1>. QED BY <1>2, <1>3, <1>4, <1>5, <1>6, <1>7 DEF SendThread

\* What the threads of output control do.
LEMMA RetryTyped ==
  ASSUME TypeInv, NEW r \in Reconnects, RetryThread(r) PROVE TypeInv'
<1>. USE DEF TypeInv, StateOK, HandlesOK
<1>1. r \in Threads
  BY OthersAre
<1>2. CASE ReconnectActive(r) /\ stream' = stream
  <2>1. PcOK'
    BY <1>2, <1>1, GotoTyped
       DEF ReconnectActive, Locations, Places, Arguments, Codes, Returns, PcOK
  <2>2. output' \in OutputType
    BY <1>2 DEF ReconnectActive, OutputType, Codes
  <2>. QED BY <1>2, <2>1, <2>2 DEF ReconnectActive
<1>3. CASE ReconnectWait(r) /\ stream' = stream
  <2>1. PcOK'
    BY <1>3, <1>1, GotoTyped, CallTyped
       DEF ReconnectWait, Locations, Places, Arguments, Codes, Returns, PcOK
  <2>. QED BY <1>3, <2>1 DEF ReconnectWait
<1>4. CASE ReconnectDone(r) /\ stream' = stream
  <2>1. PcOK'
    BY <1>4, <1>1, GotoTyped
       DEF ReconnectDone, Detach, Locations, Places, Arguments, Codes, Returns, PcOK
  <2>2. output' \in OutputType
    BY <1>4 DEF ReconnectDone, OutputType, Codes
  <2>3. handle["reconnect"] \in Threads
    BY <1>4 DEF ReconnectDone, PcOK
  <2>. QED BY <1>4, <2>1, <2>3, <2>2 DEF ReconnectDone, Detach
<1>5. CASE ReconnectExit(r) /\ stream' = stream
  <2>1. PcOK' /\ HandlesOK'
    BY <1>5, <1>1, ExitTyped DEF ReconnectExit
  <2>2. output' \in OutputType
    BY <1>5 DEF ReconnectExit, OutputType, Codes
  <2>. QED BY <1>5, <2>1, <2>2 DEF ReconnectExit
<1>6. CASE StreamStart(r)
  BY <1>1, <1>6, StreamStartTyped
<1>7. CASE Starting(r) /\ stream' = stream
  BY <1>1, <1>7, SharedTyped
<1>. QED BY <1>2, <1>3, <1>4, <1>5, <1>6, <1>7 DEF RetryThread, ReconnectThread

LEMMA EndTyped ==
  ASSUME TypeInv, NEW e \in Ends, EndThread(e) PROVE TypeInv'
<1>. USE DEF TypeInv, StateOK, HandlesOK
<1>1. e \in Threads
  BY OthersAre
<1>2. CASE EndStop(e) /\ stream' = stream
  <2>1. PcOK'
    BY <1>2, <1>1, GotoTyped
       DEF EndStop, Locations, Places, Arguments, Codes, Returns, PcOK
  <2>2. output' \in OutputType
    BY <1>2 DEF EndStop, OutputType, Codes
  <2>. QED BY <1>2, <2>1, <2>2 DEF EndStop
<1>3. CASE EndInactive(e) /\ stream' = stream
  <2>1. PcOK'
    BY <1>3, <1>1, GotoTyped
       DEF EndInactive, Locations, Places, Arguments, Codes, Returns, PcOK
  <2>2. output' \in OutputType
    BY <1>3 DEF EndInactive, OutputType, Codes
  <2>. QED BY <1>3, <2>1, <2>2 DEF EndInactive
<1>4. CASE EndEvent(e) /\ stream' = stream
  <2>1. PcOK'
    BY <1>4, <1>1, GotoTyped
       DEF EndEvent, Locations, Places, Arguments, Codes, Returns, PcOK
  <2>2. output' \in OutputType
    BY <1>4 DEF EndEvent, OutputType, Codes
  <2>. QED BY <1>4, <2>1, <2>2 DEF EndEvent
<1>5. CASE EndExit(e) /\ stream' = stream
  <2>1. PcOK' /\ HandlesOK'
    BY <1>5, <1>1, ExitTyped DEF EndExit
  <2>2. output' \in OutputType
    BY <1>5 DEF EndExit, OutputType, Codes
  <2>. QED BY <1>5, <2>1, <2>2 DEF EndExit
<1>. QED BY <1>2, <1>3, <1>4, <1>5 DEF EndThread, EndFinish

LEMMA TypeStep ==
  ASSUME TypeInv, [Next]_vars PROVE TypeInv'
<1>1. CASE UNCHANGED vars
  BY <1>1 DEF TypeInv, PcOK, HandlesOK, StateOK, vars, control
<1>2. CASE Next
  BY <1>2, UserTyped, ConnectTyped, SendTyped, RetryTyped, EndTyped DEF Next
<1>. QED BY <1>1, <1>2

LEMMA TypeInit ==
  ASSUME Init PROVE TypeInv
<1>. USE DEF Init, InitControl
<1>1. pc = [t \in Threads |-> [at  |-> IF t = UI THEN "idle" ELSE "off",
                             arg |-> None, ret |-> "off"]]
  BY DEF Off
<1>2. PcOK
  BY <1>1, OthersAre DEF PcOK, Locations, Arguments, Returns
<1>3. HandlesOK
  BY DEF HandlesOK
<1>4. StateOK
  BY RetryAssumption, BoundsAssumption
     DEF StateOK, OutputType, HeardType, StreamType, Codes
<1>. QED BY <1>2, <1>3, <1>4 DEF TypeInv

\* Every variable keeps to its type, whatever fails and however often the
\* stream is started and stopped.
THEOREM TypeOKHolds == Spec => []TypeOK
<1>1. TypeInv => TypeOK
  BY DEF TypeInv, PcOK, HandlesOK, StateOK, TypeOK, ControlTypeOK, PcType, Returns,
         Locations, Places
<1>. QED BY <1>1, TypeInit, TypeStep, PTL DEF Spec, Safety

----------------------------------------------------------------------------
(* The invariant of one connection after the other.                        *)

\* The settings of the theorems below: obs_output_start is called once; if
\* the output reconnects then the delay outlasts the threads of the connection
\* that was lost, and a server that was reached answers.
Scope == /\ MaxStarts = 1
         /\ \/ RetryMax = 0
            \/ SlowTimer /\ Faults \subseteq {"connect", "send"}

In(t, places) == pc[t].at \in places
AllIn(kind, places) == \A t \in kind : In(t, places)
AllOff(kind) == AllIn(kind, {"off"})
Some(kind, places) == \E t \in kind : In(t, places)

Beginning    == {"actual_start", "can_begin", "initialize", "start_plugin"}
Stopping     == {"force_stop", "actual_stop", "stop_reconnect", "stop_plugin",
                 "join_connect", "stop_ts", "stop_event"}
ConnectQuiet == {"off", "signal_start", "connect_done", "connect_exit"}
RetryQuiet   == {"off", "reconnect_done", "reconnect_exit"}
SendEnded    == {"off", "send_done", "send_exit"}
Sending      == {"send", "send_end", "signal_stop", "end_capture", "end_data"}
Creating     == {"join_end", "create_end"}
Closing      == {"hear_stop", "output_reconnect", "create_reconnect"}

\* Where each thread can be, and what it will return to.
UserOK ==
  \/ In(UI, {"idle", "started"})
  \/ In(UI, Beginning) /\ pc[UI].ret = "started"
  \/ In(UI, Stopping) /\ pc[UI].ret = "idle"
  \/ At(UI, "signal_stop") /\ Arg(UI) = "SUCCESS" /\ pc[UI].ret = "idle"
  \/ At(UI, "end_capture") /\ Arg(UI) = "signal" /\ pc[UI].ret = "idle"

ConnectOK(c) ==
  \/ In(c, {"off", "init_connect", "try_connect", "send_meta", "connect_done",
            "connect_exit"})
  \/ /\ In(c, {"begin_capture", "activate", "signal_start", "output_reconnect",
               "create_reconnect"})
     /\ pc[c].ret = "connect_done"
  \/ /\ At(c, "signal_stop") /\ Arg(c) \in {"ERROR", "DISCONNECTED"}
     /\ pc[c].ret = "connect_done"
  \/ /\ At(c, "end_capture") /\ Arg(c) \in {"signal", "quiet"}
     /\ pc[c].ret = "connect_done"

SendOK(s) ==
  \/ In(s, {"off", "send", "send_end", "send_done", "send_exit"})
  \/ At(s, "signal_stop") /\ Arg(s) = "DISCONNECTED" /\ pc[s].ret = "send_done"
  \/ /\ In(s, {"end_capture", "end_data"} \cup Creating)
     /\ Arg(s) \in {"signal", "quiet"} /\ pc[s].ret = "send_done"
  \/ In(s, Closing) /\ pc[s].ret = "send_done"

RetryOK(r) ==
  \/ In(r, {"off", "reconnect", "reconnect_wait", "reconnect_done", "reconnect_exit"})
  \/ In(r, Beginning) /\ pc[r].ret = "reconnect_done"

EndOK(e) == In(e, {"off", "end", "end_inactive", "end_event", "end_exit"})

ThreadPlaces ==
  /\ UserOK
  /\ \A c \in Connects : ConnectOK(c)
  /\ \A s \in Sends : SendOK(s)
  /\ \A r \in Reconnects : RetryOK(r)
  /\ \A e \in Ends : EndOK(e)

Inactive  == ~output.active /\ ~output.data_active /\ ~output.hooked
Capturing == output.active /\ output.data_active /\ output.hooked
Ended     == ~output.data_active /\ (output.active => Some(Ends, {"end", "end_inactive"}))
Unasked   == heard.requests = 0

\* One thread of a kind at a time, and the send thread is the newest one.
Alone ==
  /\ OneAtATime(Connects) /\ OneAtATime(Sends) /\ OneAtATime(Ends)
  /\ \A s \in Sends : ~At(s, "off") => handle["send"] = s /\ stream.active

\* The user interface before the first start, and once it asked for the stop.
Before == In(UI, Beginning) \/ (At(UI, "idle") /\ heard.starts = 0)

UserInv ==
  /\ Before => /\ AllOff(Connects) /\ AllOff(Sends)
               /\ AllOff(Ends) /\ AllOff(Reconnects)
               /\ Inactive /\ ~output.reconnecting /\ Unasked
  /\ ~In(UI, {"idle", "started"} \cup Beginning) => ~Unasked
  /\ In(UI, {"signal_stop", "end_capture"}) => AllOff(Sends)
  /\ ~Unasked => /\ RetryMax = 0 /\ AllIn(Connects, ConnectQuiet)
                 /\ \A s \in Sends : At(s, "send") => Capturing
  /\ stream.stop_event \/ stream.posted => ~Unasked
  /\ ~At(UI, "idle") => heard.starts = 1
  /\ ~output.reconnect_stop

ConnectInv ==
  \A c \in Connects :
    /\ In(c, {"init_connect", "try_connect"}) => AllOff(Sends) /\ Inactive
    /\ In(c, {"send_meta", "begin_capture"}) => Some(Sends, {"send"}) /\ Inactive
    /\ At(c, "activate") => /\ Some(Sends, {"send"}) /\ ~output.active
                            /\ output.data_active /\ output.hooked
    /\ In(c, {"signal_stop", "end_capture", "output_reconnect", "create_reconnect"}) =>
         Inactive /\ (RetryMax # 0 => AllOff(Sends))
    /\ At(c, "end_capture") /\ Arg(c) = "signal" => ~output.reconnecting
    /\ At(c, "create_reconnect") => RetryMax # 0
    /\ ~In(c, ConnectQuiet) => /\ AllOff(Ends) /\ AllIn(Reconnects, RetryQuiet)
                               /\ AllIn(Sends, {"off", "send"})

SendInv ==
  \A s \in Sends :
    /\ At(s, "send") => AllOff(Ends) /\ (output.active => Capturing)
    /\ In(s, {"send_end", "signal_stop", "end_data"}) => AllOff(Ends) /\ Capturing
    /\ At(s, "end_capture") => (AllOff(Ends) /\ Capturing) \/ Ended
    /\ In(s, Creating) => /\ AllOff(Ends) /\ output.active /\ output.hooked
                          /\ ~output.data_active
    /\ In(s, Closing \cup {"send_done", "send_exit"}) => Ended
    /\ At(s, "create_reconnect") => RetryMax # 0
    /\ In(s, Sending \cup Creating \cup Closing) => AllIn(Reconnects, RetryQuiet)

EndInv ==
  \A e \in Ends :
    /\ ~At(e, "off") => ~output.data_active
    /\ At(e, "end_inactive") => ~output.hooked
    /\ In(e, {"end_event", "end_exit"}) => Inactive

RetryInv ==
  \A r \in Reconnects :
    /\ ~At(r, "off") => RetryMax # 0
    /\ ~In(r, RetryQuiet) => /\ AllIn(Connects, ConnectQuiet) /\ AllIn(Sends, SendEnded)
                             /\ Ended
                             /\ \A q \in Reconnects : q # r => In(q, RetryQuiet)
    /\ In(r, Beginning) => AllOff(Connects) /\ AllOff(Sends) /\ AllOff(Ends) /\ Inactive

\* What is active, fed or reconnecting has a thread that will end that.
ActiveEnds  == output.active =>
                 \/ Some(Ends, {"end", "end_inactive"})
                 \/ Some(Sends, Sending \cup Creating)
FedEnds     == output.data_active => Some(Connects, {"activate"}) \/ Some(Sends, Sending)
HookedEnds  == /\ output.hooked => output.active \/ Some(Connects, {"activate"})
               /\ output.active /\ ~output.hooked => Some(Ends, {"end_inactive"})
RetryingEnds == output.reconnecting =>
                 /\ RetryMax # 0
                 /\ \/ ~AllIn(Reconnects, RetryQuiet)
                    \/ ~AllIn(Connects, {"off", "connect_done", "connect_exit"})
                    \/ Some(Sends, {"create_reconnect"})

Live == ActiveEnds /\ FedEnds /\ HookedEnds /\ RetryingEnds

CodeInv ==
  /\ Unasked => heard.code # "SUCCESS"
  /\ \A c \in Connects :
       At(c, "end_capture") /\ Arg(c) = "signal" => output.stop_code # "SUCCESS"
  /\ \A s \in Sends :
       \/ In(s, {"end_capture", "end_data"} \cup Creating) /\ Arg(s) = "signal"
       \/ At(s, "hear_stop")
       => ~Unasked \/ output.stop_code # "SUCCESS"

Inv == /\ ThreadPlaces /\ Alone   /\ UserInv  /\ ConnectInv /\ SendInv
       /\ EndInv       /\ RetryInv /\ Live    /\ CodeInv

----------------------------------------------------------------------------
(* What the steps change.                                                  *)

\* Thread t goes to l, and no other thread moves.
Moves(t, l, a, r) ==
  /\ pc'[t].at = l /\ pc'[t].arg = a /\ pc'[t].ret = r
  /\ \A u \in Threads : u # t => pc'[u] = pc[u]

\* Thread t goes to l, and the thread n that it creates begins at k.
Spawns(t, l, a, r, n, k) ==
  /\ At(n, "off") /\ n # t
  /\ pc'[t].at = l /\ pc'[t].arg = a /\ pc'[t].ret = r
  /\ pc'[n].at = k /\ pc'[n].ret = "off"
  /\ \A u \in Threads : u # t /\ u # n => pc'[u] = pc[u]

\* How the steps of one thread move it.
LEMMA PcMoves ==
  ASSUME PcOK, NEW t \in Threads
  PROVE  /\ \A l : Goto(t, l) => Moves(t, l, Arg(t), pc[t].ret)
         /\ \A l, a, r : Call(t, l, a, r) => Moves(t, l, a, r)
         /\ \A a : Return(t, a) => Moves(t, pc[t].ret, a, "off")
         /\ Exit(t) => Moves(t, "off", None, "off")
  BY DEF PcOK, Goto, Call, Return, Exit, Off, Moves

\* How a step that creates a thread moves both.
LEMMA CreateSpawns ==
  ASSUME PcOK, HandlesOK, NEW t \in Threads, ~At(t, "off"), NEW l, NEW a, NEW r,
         NEW kind \in {"end", "reconnect", "connect", "send"},
         NEW pool \in SUBSET Threads, NEW k,
         Create(t, [at |-> l, arg |-> a, ret |-> r], kind, pool, k)
  PROVE  \E n \in pool : /\ Spawns(t, l, a, r, n, k) /\ handle'[kind] = n
                         /\ kind # "send" => handle'["send"] = handle["send"]
  BY DEF PcOK, HandlesOK, Create, Spawns

\* The flags that a step leaves alone.
SameCapture == /\ output'.active = output.active /\ output'.hooked = output.hooked
               /\ output'.data_active = output.data_active
SameRetries == /\ output'.reconnecting = output.reconnecting
               /\ output'.reconnect_stop = output.reconnect_stop
SameStream  == /\ stream'.active = stream.active /\ stream'.posted = stream.posted
               /\ stream'.stop_event = stream.stop_event

\* The sets of places and of flags are expanded in every proof from here on.
USE DEF In, AllIn, AllOff, Some, Beginning, Stopping, ConnectQuiet, RetryQuiet,
        SendEnded, Sending, Creating, Closing, Inactive, Capturing, Ended, Unasked,
        SameCapture, SameRetries, SameStream, OneAtATime, StateOK,
        ActiveEnds, FedEnds, HookedEnds, RetryingEnds, Live

----------------------------------------------------------------------------
(* The send thread.  Each lemma is about one step: what it moves (1) and    *)
(* changes (2), what the invariant says of where it is taken (3), and from *)
(* these that each part of the invariant holds after it.                   *)

\* output_reconnect goes on to a reconnect thread only when it may retry.
LEMMA ReconnectMoves ==
  ASSUME TypeInv, NEW t \in Threads, Reconnect(t)
  PROVE  \/ ~output'.reconnecting /\ Moves(t, "end_capture", "signal", pc[t].ret)
         \/ /\ RetryMax # 0 /\ output'.reconnecting
            /\ Moves(t, "create_reconnect", Arg(t), pc[t].ret)
<1>. DEFINE tried == IF output.reconnecting THEN output.retries ELSE 0
<1>1. tried \in Nat /\ RetryMax \in Nat
  BY RetryAssumption DEF TypeInv, OutputType
<1>2. CASE tried >= RetryMax
  <2>1. ~output'.reconnecting
    BY <1>2 DEF Reconnect, TypeInv, OutputType
  <2>. QED BY <1>2, <2>1, PcMoves DEF Reconnect, TypeInv
<1>3. CASE ~(tried >= RetryMax)
  <2>1. output'.reconnecting
    BY <1>3 DEF Reconnect, TypeInv, OutputType
  <2>2. RetryMax # 0
    BY <1>1, <1>3
  <2>. QED BY <1>3, <2>1, <2>2, PcMoves DEF Reconnect, TypeInv
<1>. QED BY <1>2, <1>3

LEMMA EndDataKeeps ==
  ASSUME TypeInv, Inv, Scope, NEW s \in Sends, EndData(s), UNCHANGED stream
  PROVE  Inv'
<1>1. /\ s \in Threads /\ Moves(s, "join_end", Arg(s), pc[s].ret)
      /\ handle' = handle /\ heard' = heard
  BY PcMoves, OthersAre DEF TypeInv, EndData
<1>2. /\ ~output'.data_active /\ output'.active = output.active
      /\ output'.hooked = output.hooked
      /\ SameRetries /\ SameStream /\ output'.stop_code = output.stop_code
  BY DEF EndData, TypeInv, OutputType, StreamType
<1>. USE DEF Inv
<1>3. /\ At(s, "end_data") /\ AllOff(Ends) /\ Capturing /\ AllIn(Reconnects, RetryQuiet)
      /\ \A u \in Sends : u # s => At(u, "off")
      /\ SendOK(s) /\ AllIn(Connects, ConnectQuiet)
  BY <1>1 DEF EndData, SendInv, ConnectInv, Alone, ThreadPlaces
<1>. USE <1>1, <1>2, <1>3, OthersAre DEF Moves
<1>4. ThreadPlaces'  BY DEF ThreadPlaces, UserOK, ConnectOK, SendOK, RetryOK, EndOK
<1>5. Alone'         BY DEF Alone
<1>6. UserInv'       BY DEF UserInv, Before
<1>7. ConnectInv'    BY DEF ConnectInv
<1>8. SendInv'       BY DEF SendInv
<1>9. EndInv'        BY DEF EndInv
<1>10. RetryInv'     BY DEF RetryInv
<1>11. ActiveEnds'   OBVIOUS
<1>12. FedEnds'      OBVIOUS
<1>13. HookedEnds'   OBVIOUS
<1>14. RetryingEnds' OBVIOUS
<1>15. CodeInv'      BY DEF CodeInv
<1>. QED BY <1>4, <1>5, <1>6, <1>7, <1>8, <1>9, <1>10, <1>11, <1>12, <1>13, <1>14, <1>15

LEMMA EndCaptureKeeps ==
  ASSUME TypeInv, Inv, Scope, NEW s \in Sends, EndCapture(s), UNCHANGED stream
  PROVE  Inv'
<1>1. /\ s \in Threads /\ Moves(s, "end_data", Arg(s), pc[s].ret)
      /\ handle' = handle /\ heard' = heard
  BY PcMoves, OthersAre DEF TypeInv, EndCapture
<1>2. SameCapture /\ SameRetries /\ SameStream /\ output'.stop_code = output.stop_code
  BY DEF EndCapture, TypeInv, OutputType, StreamType
<1>. USE DEF Inv
<1>3. /\ At(s, "end_capture") /\ AllOff(Ends) /\ Capturing
      /\ AllIn(Reconnects, RetryQuiet)
      /\ \A u \in Sends : u # s => At(u, "off")
      /\ SendOK(s) /\ AllIn(Connects, ConnectQuiet)
  BY <1>1 DEF EndCapture, SendInv, ConnectInv, Alone, ThreadPlaces
<1>. USE <1>1, <1>2, <1>3, OthersAre DEF Moves
<1>4. ThreadPlaces'  BY DEF ThreadPlaces, UserOK, ConnectOK, SendOK, RetryOK, EndOK
<1>5. Alone'         BY DEF Alone
<1>6. UserInv'       BY DEF UserInv, Before
<1>7. ConnectInv'    BY DEF ConnectInv
<1>8. SendInv'       BY DEF SendInv
<1>9. EndInv'        BY DEF EndInv
<1>10. RetryInv'     BY DEF RetryInv
<1>11. ActiveEnds'   OBVIOUS
<1>12. FedEnds'      OBVIOUS
<1>13. HookedEnds'   OBVIOUS
<1>14. RetryingEnds' OBVIOUS
<1>15. CodeInv'      BY DEF CodeInv
<1>. QED BY <1>4, <1>5, <1>6, <1>7, <1>8, <1>9, <1>10, <1>11, <1>12, <1>13, <1>14, <1>15

LEMMA JoinEndKeeps ==
  ASSUME TypeInv, Inv, Scope, NEW s \in Sends, JoinEnd(s), UNCHANGED stream
  PROVE  Inv'
<1>1. /\ s \in Threads /\ Moves(s, "create_end", Arg(s), pc[s].ret)
      /\ handle' = handle /\ heard' = heard
  BY PcMoves, OthersAre DEF TypeInv, JoinEnd
<1>2. SameCapture /\ SameRetries /\ SameStream /\ output'.stop_code = output.stop_code
  BY DEF JoinEnd, TypeInv, OutputType, StreamType
<1>. USE DEF Inv
<1>3. /\ At(s, "join_end") /\ AllOff(Ends) /\ output.active /\ output.hooked
      /\ ~output.data_active /\ AllIn(Reconnects, RetryQuiet)
      /\ \A u \in Sends : u # s => At(u, "off")
      /\ SendOK(s) /\ AllIn(Connects, ConnectQuiet)
  BY <1>1 DEF JoinEnd, SendInv, ConnectInv, Alone, ThreadPlaces
<1>. USE <1>1, <1>2, <1>3, OthersAre DEF Moves
<1>4. ThreadPlaces'  BY DEF ThreadPlaces, UserOK, ConnectOK, SendOK, RetryOK, EndOK
<1>5. Alone'         BY DEF Alone
<1>6. UserInv'       BY DEF UserInv, Before
<1>7. ConnectInv'    BY DEF ConnectInv
<1>8. SendInv'       BY DEF SendInv
<1>9. EndInv'        BY DEF EndInv
<1>10. RetryInv'     BY DEF RetryInv
<1>11. ActiveEnds'   OBVIOUS
<1>12. FedEnds'      OBVIOUS
<1>13. HookedEnds'   OBVIOUS
<1>14. RetryingEnds' OBVIOUS
<1>15. CodeInv'      BY DEF CodeInv
<1>. QED BY <1>4, <1>5, <1>6, <1>7, <1>8, <1>9, <1>10, <1>11, <1>12, <1>13, <1>14, <1>15

LEMMA SendStopKeeps ==
  ASSUME TypeInv, Inv, Scope, NEW s \in Sends, SendStop(s), UNCHANGED stream
  PROVE  Inv'
<1>1. /\ s \in Threads /\ Moves(s, "send_end", Arg(s), pc[s].ret)
      /\ handle' = handle /\ heard' = heard
  BY PcMoves, OthersAre DEF TypeInv, SendStop
<1>2. SameCapture /\ SameRetries /\ SameStream /\ output'.stop_code = output.stop_code
  BY DEF SendStop, TypeInv, OutputType, StreamType
<1>. USE DEF Inv
<1>3. /\ At(s, "send") /\ AllOff(Ends) /\ Capturing /\ AllIn(Reconnects, RetryQuiet)
      /\ \A u \in Sends : u # s => At(u, "off")
      /\ SendOK(s) /\ AllIn(Connects, ConnectQuiet)
  BY <1>1 DEF SendStop, SendInv, ConnectInv, Alone, ThreadPlaces, UserInv
<1>. USE <1>1, <1>2, <1>3, OthersAre DEF Moves
<1>4. ThreadPlaces'  BY DEF ThreadPlaces, UserOK, ConnectOK, SendOK, RetryOK, EndOK
<1>5. Alone'         BY DEF Alone
<1>6. UserInv'       BY DEF UserInv, Before
<1>7. ConnectInv'    BY DEF ConnectInv
<1>8. SendInv'       BY DEF SendInv
<1>9. EndInv'        BY DEF EndInv
<1>10. RetryInv'     BY DEF RetryInv
<1>11. ActiveEnds'   OBVIOUS
<1>12. FedEnds'      OBVIOUS
<1>13. HookedEnds'   OBVIOUS
<1>14. RetryingEnds' OBVIOUS
<1>15. CodeInv'      BY DEF CodeInv
<1>. QED BY <1>4, <1>5, <1>6, <1>7, <1>8, <1>9, <1>10, <1>11, <1>12, <1>13, <1>14, <1>15

LEMMA SendFailsKeeps ==
  ASSUME TypeInv, Inv, Scope, NEW s \in Sends, SendFails(s), UNCHANGED stream
  PROVE  Inv'
<1>1. /\ s \in Threads /\ Moves(s, "send_end", Arg(s), pc[s].ret)
      /\ handle' = handle /\ heard' = heard
  BY PcMoves, OthersAre DEF TypeInv, SendFails
<1>2. SameCapture /\ SameRetries /\ SameStream /\ output'.stop_code = output.stop_code
  BY DEF SendFails, TypeInv, OutputType, StreamType
<1>. USE DEF Inv
<1>3. /\ At(s, "send") /\ AllOff(Ends) /\ Capturing /\ AllIn(Reconnects, RetryQuiet)
      /\ \A u \in Sends : u # s => At(u, "off")
      /\ SendOK(s) /\ AllIn(Connects, ConnectQuiet)
  BY <1>1 DEF SendFails, SendInv, ConnectInv, Alone, ThreadPlaces, PacketSent, ConnectOK
<1>. USE <1>1, <1>2, <1>3, OthersAre DEF Moves
<1>4. ThreadPlaces'  BY DEF ThreadPlaces, UserOK, ConnectOK, SendOK, RetryOK, EndOK
<1>5. Alone'         BY DEF Alone
<1>6. UserInv'       BY DEF UserInv, Before
<1>7. ConnectInv'    BY DEF ConnectInv
<1>8. SendInv'       BY DEF SendInv
<1>9. EndInv'        BY DEF EndInv
<1>10. RetryInv'     BY DEF RetryInv
<1>11. ActiveEnds'   OBVIOUS
<1>12. FedEnds'      OBVIOUS
<1>13. HookedEnds'   OBVIOUS
<1>14. RetryingEnds' OBVIOUS
<1>15. CodeInv'      BY DEF CodeInv
<1>. QED BY <1>4, <1>5, <1>6, <1>7, <1>8, <1>9, <1>10, <1>11, <1>12, <1>13, <1>14, <1>15

LEMMA SendEndKeeps ==
  ASSUME TypeInv, Inv, Scope, NEW s \in Sends, SendEnd(s), UNCHANGED stream
  PROVE  Inv'
<1>1. /\ s \in Threads /\ handle' = handle /\ heard' = heard
      /\ \/ stream.stop_event /\ Moves(s, "end_capture", "signal", "send_done")
         \/ Moves(s, "signal_stop", "DISCONNECTED", "send_done")
  BY PcMoves, OthersAre DEF TypeInv, SendEnd
<1>2. SameCapture /\ SameRetries /\ SameStream /\ output'.stop_code = output.stop_code
  BY DEF SendEnd, TypeInv, OutputType, StreamType
<1>. USE DEF Inv
<1>3. /\ At(s, "send_end") /\ AllOff(Ends) /\ Capturing /\ AllIn(Reconnects, RetryQuiet)
      /\ stream.stop_event => ~Unasked
      /\ \A u \in Sends : u # s => At(u, "off")
      /\ SendOK(s) /\ AllIn(Connects, ConnectQuiet)
  BY <1>1 DEF SendEnd, SendInv, ConnectInv, Alone, ThreadPlaces, UserInv
<1>. USE <1>1, <1>2, <1>3, OthersAre DEF Moves
<1>4. ThreadPlaces'  BY DEF ThreadPlaces, UserOK, ConnectOK, SendOK, RetryOK, EndOK
<1>5. Alone'         BY DEF Alone
<1>6. UserInv'       BY DEF UserInv, Before
<1>7. ConnectInv'    BY DEF ConnectInv
<1>8. SendInv'       BY DEF SendInv
<1>9. EndInv'        BY DEF EndInv
<1>10. RetryInv'     BY DEF RetryInv
<1>11. ActiveEnds'   OBVIOUS
<1>12. FedEnds'      OBVIOUS
<1>13. HookedEnds'   OBVIOUS
<1>14. RetryingEnds' OBVIOUS
<1>15. CodeInv'      BY DEF CodeInv
<1>. QED BY <1>4, <1>5, <1>6, <1>7, <1>8, <1>9, <1>10, <1>11, <1>12, <1>13, <1>14, <1>15

LEMMA SendDoneKeeps ==
  ASSUME TypeInv, Inv, Scope, NEW s \in Sends, SendDone(s)
  PROVE  Inv'
<1>1. /\ s \in Threads /\ Moves(s, "send_exit", Arg(s), pc[s].ret)
      /\ handle' = handle /\ heard' = heard
  BY PcMoves, OthersAre DEF TypeInv, SendDone
<1>2. /\ SameCapture /\ SameRetries /\ output'.stop_code = output.stop_code
      /\ stream'.active = stream.active /\ stream'.posted = stream.posted
      /\ ~stream'.stop_event
  BY DEF SendDone, TypeInv, OutputType, StreamType
<1>. USE DEF Inv
<1>3. /\ At(s, "send_done") /\ Ended
      /\ \A u \in Sends : u # s => At(u, "off")
      /\ SendOK(s) /\ AllIn(Connects, ConnectQuiet)
  BY <1>1 DEF SendDone, SendInv, ConnectInv, Alone, ThreadPlaces
<1>. USE <1>1, <1>2, <1>3, OthersAre DEF Moves
<1>4. ThreadPlaces'  BY DEF ThreadPlaces, UserOK, ConnectOK, SendOK, RetryOK, EndOK
<1>5. Alone'         BY DEF Alone
<1>6. UserInv'       BY DEF UserInv, Before
<1>7. ConnectInv'    BY DEF ConnectInv
<1>8. SendInv'       BY DEF SendInv
<1>9. EndInv'        BY DEF EndInv
<1>10. RetryInv'     BY DEF RetryInv
<1>11. ActiveEnds'   OBVIOUS
<1>12. FedEnds'      OBVIOUS
<1>13. HookedEnds'   OBVIOUS
<1>14. RetryingEnds' OBVIOUS
<1>15. CodeInv'      BY DEF CodeInv
<1>. QED BY <1>4, <1>5, <1>6, <1>7, <1>8, <1>9, <1>10, <1>11, <1>12, <1>13, <1>14, <1>15

LEMMA SendExitKeeps ==
  ASSUME TypeInv, Inv, Scope, NEW s \in Sends, SendExit(s)
  PROVE  Inv'
<1>1. /\ s \in Threads /\ Moves(s, "off", None, "off")
      /\ handle' = handle /\ heard' = heard
  BY PcMoves, OthersAre DEF TypeInv, SendExit
<1>2. /\ SameCapture /\ SameRetries /\ output'.stop_code = output.stop_code
      /\ stream'.posted = stream.posted /\ stream'.stop_event = stream.stop_event
  BY DEF SendExit, TypeInv, OutputType, StreamType
<1>. USE DEF Inv
<1>3. /\ At(s, "send_exit") /\ Ended
      /\ \A u \in Sends : u # s => At(u, "off")
      /\ SendOK(s) /\ AllIn(Connects, ConnectQuiet)
  BY <1>1 DEF SendExit, SendInv, ConnectInv, Alone, ThreadPlaces
<1>. USE <1>1, <1>2, <1>3, OthersAre DEF Moves
<1>4. ThreadPlaces'  BY DEF ThreadPlaces, UserOK, ConnectOK, SendOK, RetryOK, EndOK
<1>5. Alone'         BY DEF Alone
<1>6. UserInv'       BY DEF UserInv, Before
<1>7. ConnectInv'    BY DEF ConnectInv
<1>8. SendInv'       BY DEF SendInv
<1>9. EndInv'        BY DEF EndInv
<1>10. RetryInv'     BY DEF RetryInv
<1>11. ActiveEnds'   OBVIOUS
<1>12. FedEnds'      OBVIOUS
<1>13. HookedEnds'   OBVIOUS
<1>14. RetryingEnds' OBVIOUS
<1>15. CodeInv'      BY DEF CodeInv
<1>. QED BY <1>4, <1>5, <1>6, <1>7, <1>8, <1>9, <1>10, <1>11, <1>12, <1>13, <1>14, <1>15

LEMMA SendSignalStopKeeps ==
  ASSUME TypeInv, Inv, Scope, NEW s \in Sends, SignalStop(s), UNCHANGED stream
  PROVE  Inv'
<1>1. /\ s \in Threads /\ handle' = handle /\ heard' = heard
      /\ \E a \in {"signal", "quiet"} : Moves(s, "end_capture", a, pc[s].ret)
  BY PcMoves, OthersAre DEF TypeInv, SignalStop
<1>2. SameCapture /\ SameRetries /\ SameStream /\ output'.stop_code = Arg(s)
  BY DEF SignalStop, TypeInv, OutputType, StreamType
<1>. USE DEF Inv
<1>3. /\ At(s, "signal_stop") /\ Arg(s) = "DISCONNECTED" /\ AllOff(Ends) /\ Capturing
      /\ AllIn(Reconnects, RetryQuiet)
      /\ \A u \in Sends : u # s => At(u, "off")
      /\ SendOK(s) /\ AllIn(Connects, ConnectQuiet)
  BY <1>1 DEF SignalStop, SendInv, ConnectInv, Alone, ThreadPlaces, SendOK
<1>. USE <1>1, <1>2, <1>3, OthersAre DEF Moves
<1>4. ThreadPlaces'  BY DEF ThreadPlaces, UserOK, ConnectOK, SendOK, RetryOK, EndOK
<1>5. Alone'         BY DEF Alone
<1>6. UserInv'       BY DEF UserInv, Before
<1>7. ConnectInv'    BY DEF ConnectInv
<1>8. SendInv'       BY DEF SendInv
<1>9. EndInv'        BY DEF EndInv
<1>10. RetryInv'     BY DEF RetryInv
<1>11. ActiveEnds'   OBVIOUS
<1>12. FedEnds'      OBVIOUS
<1>13. HookedEnds'   OBVIOUS
<1>14. RetryingEnds' OBVIOUS
<1>15. CodeInv'      BY DEF CodeInv
<1>. QED BY <1>4, <1>5, <1>6, <1>7, <1>8, <1>9, <1>10, <1>11, <1>12, <1>13, <1>14, <1>15

LEMMA SendInactiveKeeps ==
  ASSUME TypeInv, Inv, Scope, NEW s \in Sends, EndCaptureInactive(s), UNCHANGED stream
  PROVE  Inv'
<1>1. /\ s \in Threads /\ handle' = handle
      /\ \/ Moves(s, pc[s].ret, None, "off")
         \/ Arg(s) # "signal" /\ Moves(s, "output_reconnect", Arg(s), pc[s].ret)
  BY PcMoves, OthersAre DEF TypeInv, EndCaptureInactive
<1>2. /\ SameCapture /\ SameRetries /\ SameStream
      /\ Arg(s) # "signal" => heard' = heard /\ output'.stop_code = output.stop_code
      /\ heard'.starts = heard.starts /\ heard'.requests = heard.requests
      /\ heard'.code \in {heard.code, output.stop_code}
  BY DEF HeardType, HearStop, EndCaptureInactive, TypeInv, OutputType, StreamType
<1>. USE DEF Inv
<1>3. /\ At(s, "end_capture") /\ Ended /\ AllIn(Reconnects, RetryQuiet)
      /\ pc[s].ret = "send_done"
      /\ (Arg(s) = "signal" => ~Unasked \/ output.stop_code # "SUCCESS")
      /\ \A u \in Sends : u # s => At(u, "off")
      /\ SendOK(s) /\ AllIn(Connects, ConnectQuiet)
  BY <1>1
     DEF EndCaptureInactive, SendInv, ConnectInv, Alone, ThreadPlaces, SendOK,
         CodeInv
<1>. USE <1>1, <1>2, <1>3, OthersAre DEF Moves
<1>4. ThreadPlaces'  BY DEF ThreadPlaces, UserOK, ConnectOK, SendOK, RetryOK, EndOK
<1>5. Alone'         BY DEF Alone
<1>6. UserInv'       BY DEF UserInv, Before
<1>7. ConnectInv'    BY DEF ConnectInv
<1>8. SendInv'       BY DEF SendInv
<1>9. EndInv'        BY DEF EndInv
<1>10. RetryInv'     BY DEF RetryInv
<1>11. ActiveEnds'   OBVIOUS
<1>12. FedEnds'      OBVIOUS
<1>13. HookedEnds'   OBVIOUS
<1>14. RetryingEnds' OBVIOUS
<1>15. CodeInv'      BY DEF CodeInv
<1>. QED BY <1>4, <1>5, <1>6, <1>7, <1>8, <1>9, <1>10, <1>11, <1>12, <1>13, <1>14, <1>15

LEMMA SendSignalKeeps ==
  ASSUME TypeInv, Inv, Scope, NEW s \in Sends, EndSignal(s), UNCHANGED stream
  PROVE  Inv'
<1>1. /\ s \in Threads /\ handle' = handle
      /\ Moves(s, pc[s].ret, None, "off")
  BY PcMoves, OthersAre DEF TypeInv, EndSignal
<1>2. /\ SameCapture /\ SameRetries /\ SameStream
      /\ heard'.starts = heard.starts /\ heard'.requests = heard.requests
      /\ heard'.code = output.stop_code
  BY DEF HeardType, HearStop, EndSignal, TypeInv, OutputType, StreamType
<1>. USE DEF Inv
<1>3. /\ At(s, "hear_stop") /\ Ended /\ AllIn(Reconnects, RetryQuiet)
      /\ pc[s].ret = "send_done" /\ (~Unasked \/ output.stop_code # "SUCCESS")
      /\ \A u \in Sends : u # s => At(u, "off")
      /\ SendOK(s) /\ AllIn(Connects, ConnectQuiet)
  BY <1>1 DEF EndSignal, SendInv, ConnectInv, Alone, ThreadPlaces, SendOK, CodeInv
<1>. USE <1>1, <1>2, <1>3, OthersAre DEF Moves
<1>4. ThreadPlaces'  BY DEF ThreadPlaces, UserOK, ConnectOK, SendOK, RetryOK, EndOK
<1>5. Alone'         BY DEF Alone
<1>6. UserInv'       BY DEF UserInv, Before
<1>7. ConnectInv'    BY DEF ConnectInv
<1>8. SendInv'       BY DEF SendInv
<1>9. EndInv'        BY DEF EndInv
<1>10. RetryInv'     BY DEF RetryInv
<1>11. ActiveEnds'   OBVIOUS
<1>12. FedEnds'      OBVIOUS
<1>13. HookedEnds'   OBVIOUS
<1>14. RetryingEnds' OBVIOUS
<1>15. CodeInv'      BY DEF CodeInv
<1>. QED BY <1>4, <1>5, <1>6, <1>7, <1>8, <1>9, <1>10, <1>11, <1>12, <1>13, <1>14, <1>15

LEMMA SendReconnectKeeps ==
  ASSUME TypeInv, Inv, Scope, NEW s \in Sends, Reconnect(s), UNCHANGED stream
  PROVE  Inv'
<1>1. /\ s \in Threads /\ handle' = handle /\ heard' = heard
      /\ \/ ~output'.reconnecting /\ Moves(s, "end_capture", "signal", pc[s].ret)
         \/ RetryMax # 0 /\ Moves(s, "create_reconnect", Arg(s), pc[s].ret)
  BY PcMoves, ReconnectMoves, OthersAre DEF TypeInv, Reconnect
<1>2. /\ SameCapture /\ SameStream /\ output'.stop_code = "DISCONNECTED"
      /\ output'.reconnect_stop => output.reconnect_stop
  BY DEF Reconnect, TypeInv, OutputType, StreamType
<1>. USE DEF Inv
<1>3. /\ At(s, "output_reconnect") /\ Ended /\ AllIn(Reconnects, RetryQuiet)
      /\ pc[s].ret = "send_done"
      /\ \A u \in Sends : u # s => At(u, "off")
      /\ SendOK(s) /\ AllIn(Connects, ConnectQuiet)
  BY <1>1 DEF Reconnect, SendInv, ConnectInv, Alone, ThreadPlaces, SendOK
<1>. USE <1>1, <1>2, <1>3, OthersAre DEF Moves
<1>4. ThreadPlaces'  BY DEF ThreadPlaces, UserOK, ConnectOK, SendOK, RetryOK, EndOK
<1>5. Alone'         BY DEF Alone
<1>6. UserInv'       BY DEF UserInv, Before
<1>7. ConnectInv'    BY DEF ConnectInv
<1>8. SendInv'       BY DEF SendInv
<1>9. EndInv'        BY DEF EndInv
<1>10. RetryInv'     BY DEF RetryInv
<1>11. ActiveEnds'   OBVIOUS
<1>12. FedEnds'      OBVIOUS
<1>13. HookedEnds'   OBVIOUS
<1>14. RetryingEnds' OBVIOUS
<1>15. CodeInv'      BY DEF CodeInv
<1>. QED BY <1>4, <1>5, <1>6, <1>7, <1>8, <1>9, <1>10, <1>11, <1>12, <1>13, <1>14, <1>15

LEMMA SendCreateEndKeeps ==
  ASSUME TypeInv, Inv, Scope, NEW s \in Sends, CreateEnd(s), UNCHANGED stream
  PROVE  Inv'
<1>1. /\ s \in Threads /\ handle'["send"] = handle["send"] /\ heard' = heard
      /\ \E e \in Ends :
           \/ Spawns(s, "output_reconnect", Arg(s), pc[s].ret, e, "end")
           \/ Arg(s) = "signal" /\ Spawns(s, "hear_stop", Arg(s), pc[s].ret, e, "end")
  BY CreateSpawns, OthersAre DEF TypeInv, CreateEnd
<1>2. SameCapture /\ SameRetries /\ SameStream /\ output'.stop_code = output.stop_code
  BY DEF CreateEnd, TypeInv, OutputType, StreamType
<1>. USE DEF Inv
<1>3. /\ At(s, "create_end") /\ AllOff(Ends) /\ output.active /\ output.hooked
      /\ ~output.data_active
      /\ AllIn(Reconnects, RetryQuiet) /\ pc[s].ret = "send_done"
      /\ \A u \in Sends : u # s => At(u, "off")
      /\ SendOK(s) /\ AllIn(Connects, ConnectQuiet)
  BY <1>1 DEF CreateEnd, SendInv, ConnectInv, Alone, ThreadPlaces, SendOK
<1>. USE <1>1, <1>2, <1>3, OthersAre DEF Spawns
<1>4. ThreadPlaces'  BY DEF ThreadPlaces, UserOK, ConnectOK, SendOK, RetryOK, EndOK
<1>5. Alone'         BY DEF Alone
<1>6. UserInv'       BY DEF UserInv, Before
<1>7. ConnectInv'    BY DEF ConnectInv
<1>8. SendInv'       BY DEF SendInv
<1>9. EndInv'        BY DEF EndInv
<1>10. RetryInv'     BY DEF RetryInv
<1>11. ActiveEnds'   OBVIOUS
<1>12. FedEnds'      OBVIOUS
<1>13. HookedEnds'   OBVIOUS
<1>14. RetryingEnds' OBVIOUS
<1>15. CodeInv'      BY DEF CodeInv
<1>. QED BY <1>4, <1>5, <1>6, <1>7, <1>8, <1>9, <1>10, <1>11, <1>12, <1>13, <1>14, <1>15

LEMMA SendCreateReconnectKeeps ==
  ASSUME TypeInv, Inv, Scope, NEW s \in Sends, CreateReconnect(s), UNCHANGED stream
  PROVE  Inv'
<1>1. /\ s \in Threads /\ handle'["send"] = handle["send"] /\ heard' = heard
      /\ \E r \in Reconnects : Spawns(s, pc[s].ret, None, "off", r, "reconnect")
  BY CreateSpawns, OthersAre DEF TypeInv, CreateReconnect
<1>2. SameCapture /\ SameRetries /\ SameStream /\ output'.stop_code = output.stop_code
  BY DEF CreateReconnect, TypeInv, OutputType, StreamType
<1>. USE DEF Inv
<1>3. /\ At(s, "create_reconnect") /\ Ended /\ RetryMax # 0
      /\ AllIn(Reconnects, RetryQuiet) /\ pc[s].ret = "send_done"
      /\ \A u \in Sends : u # s => At(u, "off")
      /\ SendOK(s) /\ AllIn(Connects, ConnectQuiet)
  BY <1>1 DEF CreateReconnect, SendInv, ConnectInv, Alone, ThreadPlaces, SendOK
<1>. USE <1>1, <1>2, <1>3, OthersAre DEF Spawns
<1>4. ThreadPlaces'  BY DEF ThreadPlaces, UserOK, ConnectOK, SendOK, RetryOK, EndOK
<1>5. Alone'         BY DEF Alone
<1>6. UserInv'       BY DEF UserInv, Before
<1>7. ConnectInv'    BY DEF ConnectInv
<1>8. SendInv'       BY DEF SendInv
<1>9. EndInv'        BY DEF EndInv
<1>10. RetryInv'     BY DEF RetryInv
<1>11. ActiveEnds'   OBVIOUS
<1>12. FedEnds'      OBVIOUS
<1>13. HookedEnds'   OBVIOUS
<1>14. RetryingEnds' OBVIOUS
<1>15. CodeInv'      BY DEF CodeInv
<1>. QED BY <1>4, <1>5, <1>6, <1>7, <1>8, <1>9, <1>10, <1>11, <1>12, <1>13, <1>14, <1>15

----------------------------------------------------------------------------
(* The connect thread.                                                     *)

LEMMA InitConnectKeeps ==
  ASSUME TypeInv, Inv, Scope, NEW c \in Connects, InitConnect(c), UNCHANGED stream
  PROVE  Inv'
<1>1. /\ c \in Threads /\ handle' = handle /\ heard' = heard
      /\ Moves(c, "try_connect", Arg(c), pc[c].ret)
  BY PcMoves, OthersAre DEF TypeInv, InitConnect
<1>2. SameCapture /\ SameRetries /\ SameStream /\ output'.stop_code = output.stop_code
  BY DEF InitConnect, TypeInv, OutputType, StreamType
<1>. USE DEF Inv
<1>3. /\ At(c, "init_connect") /\ AllOff(Sends) /\ Inactive
      /\ \A u \in Connects : u # c => At(u, "off")
      /\ ConnectOK(c)
      /\ AllOff(Ends) /\ AllIn(Reconnects, RetryQuiet) /\ AllIn(Sends, {"off", "send"})
      /\ Unasked
  BY <1>1 DEF InitConnect, ConnectInv, UserInv, Alone, ThreadPlaces, ConnectOK
<1>. USE <1>1, <1>2, <1>3, OthersAre DEF Moves
<1>4. ThreadPlaces'  BY DEF ThreadPlaces, UserOK, ConnectOK, SendOK, RetryOK, EndOK
<1>5. Alone'         BY DEF Alone
<1>6. UserInv'       BY DEF UserInv, Before
<1>7. ConnectInv'    BY DEF ConnectInv
<1>8. SendInv'       BY DEF SendInv
<1>9. EndInv'        BY DEF EndInv
<1>10. RetryInv'     BY DEF RetryInv
<1>11. ActiveEnds'   OBVIOUS
<1>12. FedEnds'      OBVIOUS
<1>13. HookedEnds'   OBVIOUS
<1>14. RetryingEnds' OBVIOUS
<1>15. CodeInv'      BY DEF CodeInv
<1>. QED BY <1>4, <1>5, <1>6, <1>7, <1>8, <1>9, <1>10, <1>11, <1>12, <1>13, <1>14, <1>15

LEMMA TryConnectFailsKeeps ==
  ASSUME TypeInv, Inv, Scope, NEW c \in Connects, TryConnectFails(c), UNCHANGED stream
  PROVE  Inv'
<1>1. /\ c \in Threads /\ handle' = handle /\ heard' = heard
      /\ Moves(c, "signal_stop", "ERROR", "connect_done")
  BY PcMoves, OthersAre DEF TypeInv, TryConnectFails
<1>2. SameCapture /\ SameRetries /\ SameStream /\ output'.stop_code = output.stop_code
  BY DEF TryConnectFails, TypeInv, OutputType, StreamType
<1>. USE DEF Inv
<1>3. /\ At(c, "try_connect") /\ AllOff(Sends) /\ Inactive
      /\ \A u \in Connects : u # c => At(u, "off")
      /\ ConnectOK(c)
      /\ AllOff(Ends) /\ AllIn(Reconnects, RetryQuiet) /\ AllIn(Sends, {"off", "send"})
      /\ Unasked
  BY <1>1 DEF TryConnectFails, ConnectInv, UserInv, Alone, ThreadPlaces, ConnectOK
<1>. USE <1>1, <1>2, <1>3, OthersAre DEF Moves
<1>4. ThreadPlaces'  BY DEF ThreadPlaces, UserOK, ConnectOK, SendOK, RetryOK, EndOK
<1>5. Alone'         BY DEF Alone
<1>6. UserInv'       BY DEF UserInv, Before
<1>7. ConnectInv'    BY DEF ConnectInv
<1>8. SendInv'       BY DEF SendInv
<1>9. EndInv'        BY DEF EndInv
<1>10. RetryInv'     BY DEF RetryInv
<1>11. ActiveEnds'   OBVIOUS
<1>12. FedEnds'      OBVIOUS
<1>13. HookedEnds'   OBVIOUS
<1>14. RetryingEnds' OBVIOUS
<1>15. CodeInv'      BY DEF CodeInv
<1>. QED BY <1>4, <1>5, <1>6, <1>7, <1>8, <1>9, <1>10, <1>11, <1>12, <1>13, <1>14, <1>15

LEMMA InitSendKeeps ==
  ASSUME TypeInv, Inv, Scope, NEW c \in Connects, InitSend(c)
  PROVE  Inv'
<1>1. /\ c \in Threads /\ heard' = heard
      /\ \E s \in Sends : /\ Spawns(c, "send_meta", None, "off", s, "send")
                        /\ handle'["send"] = s
  BY CreateSpawns, OthersAre DEF TypeInv, InitSend
<1>2. /\ SameCapture /\ SameRetries /\ output'.stop_code = output.stop_code
      /\ stream'.active /\ stream'.stop_event = stream.stop_event /\ ~stream'.posted
  BY DEF InitSend, TypeInv, OutputType, StreamType
<1>. USE DEF Inv
<1>3. /\ At(c, "try_connect") /\ AllOff(Sends) /\ Inactive
      /\ \A u \in Connects : u # c => At(u, "off")
      /\ ConnectOK(c)
      /\ AllOff(Ends) /\ AllIn(Reconnects, RetryQuiet) /\ AllIn(Sends, {"off", "send"})
      /\ Unasked
  BY <1>1 DEF InitSend, ConnectInv, UserInv, Alone, ThreadPlaces, ConnectOK
<1>. USE <1>1, <1>2, <1>3, OthersAre DEF Spawns
<1>4. ThreadPlaces'  BY DEF ThreadPlaces, UserOK, ConnectOK, SendOK, RetryOK, EndOK
<1>5. Alone'         BY DEF Alone
<1>6. UserInv'       BY DEF UserInv, Before
<1>7. ConnectInv'    BY DEF ConnectInv
<1>8. SendInv'
  <2>1. PICK s \in Sends : Spawns(c, "send_meta", None, "off", s, "send")
    OBVIOUS
  <2>2. \A u \in Sends : u # s => At(u, "off")'
    BY <2>1
  <2>3. AllOff(Ends)' /\ AllIn(Reconnects, RetryQuiet)'
    BY <2>1
  <2>4. ~output'.active /\ At(s, "send")'
    BY <2>1
  <2>. QED BY <2>2, <2>3, <2>4 DEF SendInv
<1>9. EndInv'        BY DEF EndInv
<1>10. RetryInv'     BY DEF RetryInv
<1>11. ActiveEnds'   OBVIOUS
<1>12. FedEnds'      OBVIOUS
<1>13. HookedEnds'   OBVIOUS
<1>14. RetryingEnds' OBVIOUS
<1>15. CodeInv'      BY DEF CodeInv
<1>. QED BY <1>4, <1>5, <1>6, <1>7, <1>8, <1>9, <1>10, <1>11, <1>12, <1>13, <1>14, <1>15

LEMMA SendMetaKeeps ==
  ASSUME TypeInv, Inv, Scope, NEW c \in Connects, SendMeta(c), UNCHANGED stream
  PROVE  Inv'
<1>1. /\ c \in Threads /\ handle' = handle /\ heard' = heard
      /\ \/ Moves(c, "begin_capture", None, "connect_done")
         \/ RetryMax = 0 /\ Moves(c, "signal_stop", "DISCONNECTED", "connect_done")
  BY PcMoves, OthersAre DEF TypeInv, SendMeta, Scope
<1>2. SameCapture /\ SameRetries /\ SameStream /\ output'.stop_code = output.stop_code
  BY DEF SendMeta, TypeInv, OutputType, StreamType
<1>. USE DEF Inv
<1>3. /\ At(c, "send_meta") /\ Some(Sends, {"send"}) /\ Inactive
      /\ \A u \in Connects : u # c => At(u, "off")
      /\ ConnectOK(c)
      /\ AllOff(Ends) /\ AllIn(Reconnects, RetryQuiet) /\ AllIn(Sends, {"off", "send"})
      /\ Unasked
  BY <1>1 DEF SendMeta, ConnectInv, UserInv, Alone, ThreadPlaces, ConnectOK
<1>. USE <1>1, <1>2, <1>3, OthersAre DEF Moves
<1>4. ThreadPlaces'  BY DEF ThreadPlaces, UserOK, ConnectOK, SendOK, RetryOK, EndOK
<1>5. Alone'         BY DEF Alone
<1>6. UserInv'       BY DEF UserInv, Before
<1>7. ConnectInv'    BY DEF ConnectInv
<1>8. SendInv'       BY DEF SendInv
<1>9. EndInv'        BY DEF EndInv
<1>10. RetryInv'     BY DEF RetryInv
<1>11. ActiveEnds'   OBVIOUS
<1>12. FedEnds'      OBVIOUS
<1>13. HookedEnds'   OBVIOUS
<1>14. RetryingEnds' OBVIOUS
<1>15. CodeInv'      BY DEF CodeInv
<1>. QED BY <1>4, <1>5, <1>6, <1>7, <1>8, <1>9, <1>10, <1>11, <1>12, <1>13, <1>14, <1>15

LEMMA ConnectDoneKeeps ==
  ASSUME TypeInv, Inv, Scope, NEW c \in Connects, ConnectDone(c), UNCHANGED stream
  PROVE  Inv'
<1>1. /\ c \in Threads /\ handle' = handle /\ heard' = heard
      /\ Moves(c, "connect_exit", Arg(c), pc[c].ret)
  BY PcMoves, OthersAre DEF TypeInv, ConnectDone
<1>2. SameCapture /\ SameRetries /\ SameStream /\ output'.stop_code = output.stop_code
  BY DEF ConnectDone, TypeInv, OutputType, StreamType
<1>. USE DEF Inv
<1>3. /\ At(c, "connect_done")
      /\ \A u \in Connects : u # c => At(u, "off")
      /\ ConnectOK(c)
  BY <1>1 DEF ConnectDone, ConnectInv, UserInv, Alone, ThreadPlaces, ConnectOK
<1>. USE <1>1, <1>2, <1>3, OthersAre DEF Moves
<1>4. ThreadPlaces'  BY DEF ThreadPlaces, UserOK, ConnectOK, SendOK, RetryOK, EndOK
<1>5. Alone'         BY DEF Alone
<1>6. UserInv'       BY DEF UserInv, Before
<1>7. ConnectInv'    BY DEF ConnectInv
<1>8. SendInv'       BY DEF SendInv
<1>9. EndInv'        BY DEF EndInv
<1>10. RetryInv'     BY DEF RetryInv
<1>11. ActiveEnds'   OBVIOUS
<1>12. FedEnds'      OBVIOUS
<1>13. HookedEnds'   OBVIOUS
<1>14. RetryingEnds' OBVIOUS
<1>15. CodeInv'      BY DEF CodeInv
<1>. QED BY <1>4, <1>5, <1>6, <1>7, <1>8, <1>9, <1>10, <1>11, <1>12, <1>13, <1>14, <1>15

LEMMA ConnectExitKeeps ==
  ASSUME TypeInv, Inv, Scope, NEW c \in Connects, ConnectExit(c)
  PROVE  Inv'
<1>1. /\ c \in Threads /\ handle' = handle /\ heard' = heard
      /\ Moves(c, "off", None, "off")
  BY PcMoves, OthersAre DEF TypeInv, ConnectExit
<1>2. SameCapture /\ SameRetries /\ SameStream /\ output'.stop_code = output.stop_code
  BY DEF ConnectExit, TypeInv, OutputType, StreamType
<1>. USE DEF Inv
<1>3. /\ At(c, "connect_exit")
      /\ \A u \in Connects : u # c => At(u, "off")
      /\ ConnectOK(c)
  BY <1>1 DEF ConnectExit, ConnectInv, UserInv, Alone, ThreadPlaces, ConnectOK
<1>. USE <1>1, <1>2, <1>3, OthersAre DEF Moves
<1>4. ThreadPlaces'  BY DEF ThreadPlaces, UserOK, ConnectOK, SendOK, RetryOK, EndOK
<1>5. Alone'         BY DEF Alone
<1>6. UserInv'       BY DEF UserInv, Before
<1>7. ConnectInv'    BY DEF ConnectInv
<1>8. SendInv'       BY DEF SendInv
<1>9. EndInv'        BY DEF EndInv
<1>10. RetryInv'     BY DEF RetryInv
<1>11. ActiveEnds'   OBVIOUS
<1>12. FedEnds'      OBVIOUS
<1>13. HookedEnds'   OBVIOUS
<1>14. RetryingEnds' OBVIOUS
<1>15. CodeInv'      BY DEF CodeInv
<1>. QED BY <1>4, <1>5, <1>6, <1>7, <1>8, <1>9, <1>10, <1>11, <1>12, <1>13, <1>14, <1>15

LEMMA BeginCaptureKeeps ==
  ASSUME TypeInv, Inv, Scope, NEW c \in Connects, BeginCapture(c), UNCHANGED stream
  PROVE  Inv'
<1>1. /\ c \in Threads /\ handle' = handle /\ heard' = heard
      /\ (~output.active => Moves(c, "activate", Arg(c), pc[c].ret))
  BY PcMoves, OthersAre DEF TypeInv, BeginCapture
<1>2. /\ SameRetries /\ SameStream /\ output'.stop_code = output.stop_code
      /\ ~output.active => ~output'.active /\ output'.data_active /\ output'.hooked
  BY DEF BeginCapture, TypeInv, OutputType, StreamType
<1>. USE DEF Inv
<1>3. /\ At(c, "begin_capture") /\ Some(Sends, {"send"}) /\ ~output.active
      /\ \A u \in Connects : u # c => At(u, "off")
      /\ ConnectOK(c)
      /\ AllOff(Ends) /\ AllIn(Reconnects, RetryQuiet) /\ AllIn(Sends, {"off", "send"})
      /\ Unasked
  BY <1>1 DEF BeginCapture, ConnectInv, UserInv, Alone, ThreadPlaces, ConnectOK
<1>. USE <1>1, <1>2, <1>3, OthersAre DEF Moves
<1>4. ThreadPlaces'  BY DEF ThreadPlaces, UserOK, ConnectOK, SendOK, RetryOK, EndOK
<1>5. Alone'         BY DEF Alone
<1>6. UserInv'       BY DEF UserInv, Before
<1>7. ConnectInv'    BY DEF ConnectInv
<1>8. SendInv'       BY DEF SendInv
<1>9. EndInv'        BY DEF EndInv
<1>10. RetryInv'     BY DEF RetryInv
<1>11. ActiveEnds'   OBVIOUS
<1>12. FedEnds'      OBVIOUS
<1>13. HookedEnds'   OBVIOUS
<1>14. RetryingEnds' OBVIOUS
<1>15. CodeInv'      BY DEF CodeInv
<1>. QED BY <1>4, <1>5, <1>6, <1>7, <1>8, <1>9, <1>10, <1>11, <1>12, <1>13, <1>14, <1>15

LEMMA ActivateKeeps ==
  ASSUME TypeInv, Inv, Scope, NEW c \in Connects, Activate(c), UNCHANGED stream
  PROVE  Inv'
<1>1. /\ c \in Threads /\ handle' = handle /\ heard' = heard
      /\ Moves(c, "signal_start", Arg(c), pc[c].ret)
  BY PcMoves, OthersAre DEF TypeInv, Activate
<1>2. /\ SameRetries /\ SameStream /\ output'.stop_code = output.stop_code
      /\ output'.active /\ output'.data_active = output.data_active
      /\ output'.hooked = output.hooked
  BY DEF Activate, TypeInv, OutputType, StreamType
<1>. USE DEF Inv
<1>3. /\ At(c, "activate") /\ Some(Sends, {"send"}) /\ output.data_active
      /\ output.hooked
      /\ \A u \in Connects : u # c => At(u, "off")
      /\ ConnectOK(c)
      /\ AllOff(Ends) /\ AllIn(Reconnects, RetryQuiet) /\ AllIn(Sends, {"off", "send"})
      /\ Unasked
  BY <1>1 DEF Activate, ConnectInv, UserInv, Alone, ThreadPlaces, ConnectOK
<1>. USE <1>1, <1>2, <1>3, OthersAre DEF Moves
<1>4. ThreadPlaces'  BY DEF ThreadPlaces, UserOK, ConnectOK, SendOK, RetryOK, EndOK
<1>5. Alone'         BY DEF Alone
<1>6. UserInv'       BY DEF UserInv, Before
<1>7. ConnectInv'    BY DEF ConnectInv
<1>8. SendInv'       BY DEF SendInv
<1>9. EndInv'        BY DEF EndInv
<1>10. RetryInv'     BY DEF RetryInv
<1>11. ActiveEnds'   OBVIOUS
<1>12. FedEnds'      OBVIOUS
<1>13. HookedEnds'   OBVIOUS
<1>14. RetryingEnds' OBVIOUS
<1>15. CodeInv'      BY DEF CodeInv
<1>. QED BY <1>4, <1>5, <1>6, <1>7, <1>8, <1>9, <1>10, <1>11, <1>12, <1>13, <1>14, <1>15

LEMMA SignalStartKeeps ==
  ASSUME TypeInv, Inv, Scope, NEW c \in Connects, SignalStart(c), UNCHANGED stream
  PROVE  Inv'
<1>1. /\ c \in Threads /\ handle' = handle /\ Moves(c, pc[c].ret, "ok", "off")
  BY PcMoves, OthersAre DEF TypeInv, SignalStart
<1>2. /\ SameCapture /\ SameStream /\ output'.stop_code = output.stop_code
      /\ ~output'.reconnecting /\ output'.reconnect_stop = output.reconnect_stop
      /\ heard'.starts = heard.starts /\ heard'.requests = heard.requests
      /\ heard'.code = heard.code
  BY DEF HeardType, SignalStart, TypeInv, OutputType, StreamType
<1>. USE DEF Inv
<1>3. /\ At(c, "signal_start") /\ pc[c].ret = "connect_done"
      /\ \A u \in Connects : u # c => At(u, "off")
      /\ ConnectOK(c)
  BY <1>1 DEF SignalStart, ConnectInv, UserInv, Alone, ThreadPlaces, ConnectOK
<1>. USE <1>1, <1>2, <1>3, OthersAre DEF Moves
<1>4. ThreadPlaces'  BY DEF ThreadPlaces, UserOK, ConnectOK, SendOK, RetryOK, EndOK
<1>5. Alone'         BY DEF Alone
<1>6. UserInv'       BY DEF UserInv, Before
<1>7. ConnectInv'    BY DEF ConnectInv
<1>8. SendInv'       BY DEF SendInv
<1>9. EndInv'        BY DEF EndInv
<1>10. RetryInv'     BY DEF RetryInv
<1>11. ActiveEnds'   OBVIOUS
<1>12. FedEnds'      OBVIOUS
<1>13. HookedEnds'   OBVIOUS
<1>14. RetryingEnds' OBVIOUS
<1>15. CodeInv'      BY DEF CodeInv
<1>. QED BY <1>4, <1>5, <1>6, <1>7, <1>8, <1>9, <1>10, <1>11, <1>12, <1>13, <1>14, <1>15

LEMMA ConnectSignalStopKeeps ==
  ASSUME TypeInv, Inv, Scope, NEW c \in Connects, SignalStop(c), UNCHANGED stream
  PROVE  Inv'
<1>1. /\ c \in Threads /\ handle' = handle /\ heard' = heard
      /\ \/ Moves(c, "end_capture", "quiet", pc[c].ret)
         \/ /\ ~output.reconnecting \/ Arg(c) = "SUCCESS"
            /\ Moves(c, "end_capture", "signal", pc[c].ret)
  BY PcMoves, OthersAre DEF TypeInv, SignalStop, can_reconnect
<1>2. SameCapture /\ SameRetries /\ SameStream /\ output'.stop_code = Arg(c)
  BY DEF SignalStop, TypeInv, OutputType, StreamType
<1>. USE DEF Inv
<1>3. /\ At(c, "signal_stop") /\ Inactive /\ (RetryMax # 0 => AllOff(Sends))
      /\ Arg(c) \in {"ERROR", "DISCONNECTED"} /\ pc[c].ret = "connect_done"
      /\ \A u \in Connects : u # c => At(u, "off")
      /\ ConnectOK(c)
      /\ AllOff(Ends) /\ AllIn(Reconnects, RetryQuiet) /\ AllIn(Sends, {"off", "send"})
      /\ Unasked
  BY <1>1 DEF SignalStop, ConnectInv, UserInv, Alone, ThreadPlaces, ConnectOK
<1>. USE <1>1, <1>2, <1>3, OthersAre DEF Moves
<1>4. ThreadPlaces'  BY DEF ThreadPlaces, UserOK, ConnectOK, SendOK, RetryOK, EndOK
<1>5. Alone'         BY DEF Alone
<1>6. UserInv'       BY DEF UserInv, Before
<1>7. ConnectInv'    BY DEF ConnectInv
<1>8. SendInv'       BY DEF SendInv
<1>9. EndInv'        BY DEF EndInv
<1>10. RetryInv'     BY DEF RetryInv
<1>11. ActiveEnds'   OBVIOUS
<1>12. FedEnds'      OBVIOUS
<1>13. HookedEnds'   OBVIOUS
<1>14. RetryingEnds' OBVIOUS
<1>15. CodeInv'      BY DEF CodeInv
<1>. QED BY <1>4, <1>5, <1>6, <1>7, <1>8, <1>9, <1>10, <1>11, <1>12, <1>13, <1>14, <1>15

LEMMA ConnectInactiveKeeps ==
  ASSUME TypeInv, Inv, Scope, NEW c \in Connects, EndCaptureInactive(c), UNCHANGED stream
  PROVE  Inv'
<1>1. /\ c \in Threads /\ handle' = handle
      /\ \/ Arg(c) = "signal" /\ Moves(c, pc[c].ret, None, "off")
         \/ Arg(c) # "signal" /\ Moves(c, "output_reconnect", Arg(c), pc[c].ret)
  BY PcMoves, OthersAre DEF TypeInv, EndCaptureInactive
<1>2. /\ SameCapture /\ SameRetries /\ SameStream
      /\ Arg(c) # "signal" => heard' = heard /\ output'.stop_code = output.stop_code
      /\ heard'.starts = heard.starts /\ heard'.requests = heard.requests
      /\ heard'.code \in {heard.code, output.stop_code}
  BY DEF HeardType, HearStop, EndCaptureInactive, TypeInv, OutputType, StreamType
<1>. USE DEF Inv
<1>3. /\ At(c, "end_capture") /\ Inactive
      /\ (RetryMax # 0 => AllOff(Sends)) /\ pc[c].ret = "connect_done"
      /\ (Arg(c) = "signal" => ~output.reconnecting /\ output.stop_code # "SUCCESS")
      /\ \A u \in Connects : u # c => At(u, "off")
      /\ ConnectOK(c)
      /\ AllOff(Ends) /\ AllIn(Reconnects, RetryQuiet) /\ AllIn(Sends, {"off", "send"})
      /\ Unasked
  BY <1>1
     DEF EndCaptureInactive, ConnectInv, UserInv, Alone, ThreadPlaces, ConnectOK,
         CodeInv
<1>. USE <1>1, <1>2, <1>3, OthersAre DEF Moves
<1>4. ThreadPlaces'  BY DEF ThreadPlaces, UserOK, ConnectOK, SendOK, RetryOK, EndOK
<1>5. Alone'         BY DEF Alone
<1>6. UserInv'       BY DEF UserInv, Before
<1>7. ConnectInv'    BY DEF ConnectInv
<1>8. SendInv'       BY DEF SendInv
<1>9. EndInv'        BY DEF EndInv
<1>10. RetryInv'     BY DEF RetryInv
<1>11. ActiveEnds'   OBVIOUS
<1>12. FedEnds'      OBVIOUS
<1>13. HookedEnds'   OBVIOUS
<1>14. RetryingEnds' OBVIOUS
<1>15. CodeInv'      BY DEF CodeInv
<1>. QED BY <1>4, <1>5, <1>6, <1>7, <1>8, <1>9, <1>10, <1>11, <1>12, <1>13, <1>14, <1>15

LEMMA ConnectReconnectKeeps ==
  ASSUME TypeInv, Inv, Scope, NEW c \in Connects, Reconnect(c), UNCHANGED stream
  PROVE  Inv'
<1>1. /\ c \in Threads /\ handle' = handle /\ heard' = heard
      /\ \/ ~output'.reconnecting /\ Moves(c, "end_capture", "signal", pc[c].ret)
         \/ RetryMax # 0 /\ Moves(c, "create_reconnect", Arg(c), pc[c].ret)
  BY PcMoves, ReconnectMoves, OthersAre DEF TypeInv, Reconnect
<1>2. /\ SameCapture /\ SameStream /\ output'.stop_code = "DISCONNECTED"
      /\ output'.reconnect_stop => output.reconnect_stop
  BY DEF Reconnect, TypeInv, OutputType, StreamType
<1>. USE DEF Inv
<1>3. /\ At(c, "output_reconnect") /\ Inactive
      /\ (RetryMax # 0 => AllOff(Sends)) /\ pc[c].ret = "connect_done"
      /\ \A u \in Connects : u # c => At(u, "off")
      /\ ConnectOK(c)
      /\ AllOff(Ends) /\ AllIn(Reconnects, RetryQuiet) /\ AllIn(Sends, {"off", "send"})
      /\ Unasked
  BY <1>1 DEF Reconnect, ConnectInv, UserInv, Alone, ThreadPlaces, ConnectOK
<1>. USE <1>1, <1>2, <1>3, OthersAre DEF Moves
<1>4. ThreadPlaces'  BY DEF ThreadPlaces, UserOK, ConnectOK, SendOK, RetryOK, EndOK
<1>5. Alone'         BY DEF Alone
<1>6. UserInv'       BY DEF UserInv, Before
<1>7. ConnectInv'    BY DEF ConnectInv
<1>8. SendInv'       BY DEF SendInv
<1>9. EndInv'        BY DEF EndInv
<1>10. RetryInv'     BY DEF RetryInv
<1>11. ActiveEnds'   OBVIOUS
<1>12. FedEnds'      OBVIOUS
<1>13. HookedEnds'   OBVIOUS
<1>14. RetryingEnds' OBVIOUS
<1>15. CodeInv'      BY DEF CodeInv
<1>. QED BY <1>4, <1>5, <1>6, <1>7, <1>8, <1>9, <1>10, <1>11, <1>12, <1>13, <1>14, <1>15

LEMMA ConnectCreateReconnectKeeps ==
  ASSUME TypeInv, Inv, Scope, NEW c \in Connects, CreateReconnect(c), UNCHANGED stream
  PROVE  Inv'
<1>1. /\ c \in Threads /\ handle'["send"] = handle["send"] /\ heard' = heard
      /\ \E r \in Reconnects : Spawns(c, pc[c].ret, None, "off", r, "reconnect")
  BY CreateSpawns, OthersAre DEF TypeInv, CreateReconnect
<1>2. SameCapture /\ SameRetries /\ SameStream /\ output'.stop_code = output.stop_code
  BY DEF CreateReconnect, TypeInv, OutputType, StreamType
<1>. USE DEF Inv
<1>3. /\ At(c, "create_reconnect") /\ Inactive /\ RetryMax # 0 /\ AllOff(Sends)
      /\ pc[c].ret = "connect_done"
      /\ \A u \in Connects : u # c => At(u, "off")
      /\ ConnectOK(c)
      /\ AllOff(Ends) /\ AllIn(Reconnects, RetryQuiet) /\ AllIn(Sends, {"off", "send"})
      /\ Unasked
  BY <1>1 DEF CreateReconnect, ConnectInv, UserInv, Alone, ThreadPlaces, ConnectOK
<1>. USE <1>1, <1>2, <1>3, OthersAre DEF Spawns
<1>4. ThreadPlaces'  BY DEF ThreadPlaces, UserOK, ConnectOK, SendOK, RetryOK, EndOK
<1>5. Alone'         BY DEF Alone
<1>6. UserInv'       BY DEF UserInv, Before
<1>7. ConnectInv'    BY DEF ConnectInv
<1>8. SendInv'       BY DEF SendInv
<1>9. EndInv'        BY DEF EndInv
<1>10. RetryInv'     BY DEF RetryInv
<1>11. ActiveEnds'   OBVIOUS
<1>12. FedEnds'      OBVIOUS
<1>13. HookedEnds'   OBVIOUS
<1>14. RetryingEnds' OBVIOUS
<1>15. CodeInv'      BY DEF CodeInv
<1>. QED BY <1>4, <1>5, <1>6, <1>7, <1>8, <1>9, <1>10, <1>11, <1>12, <1>13, <1>14, <1>15

----------------------------------------------------------------------------
(* The reconnect thread.                                                   *)

\* Once the threads of the lost connection have gone nothing is active.
LEMMA SettledAlone ==
  ASSUME Inv, Settled, AllIn(Sends, SendEnded)
  PROVE  AllOff(Connects) /\ AllOff(Sends) /\ AllOff(Ends) /\ Inactive
<1>. USE DEF Inv
<1>1. AllOff(Ends) /\ AllOff(Sends)
  BY StreamAssumption DEF Settled, ThreadPlaces, EndOK
<1>2. AllOff(Connects)
  BY StreamAssumption DEF Settled, ThreadPlaces, ConnectOK
<1>3. Inactive
  BY <1>1, <1>2
<1>. QED BY <1>1, <1>2, <1>3

LEMMA ReconnectActiveKeeps ==
  ASSUME TypeInv, Inv, Scope, NEW r \in Reconnects, ReconnectActive(r), UNCHANGED stream
  PROVE  Inv'
<1>1. /\ r \in Threads /\ handle' = handle /\ heard' = heard
      /\ Moves(r, "reconnect_wait", Arg(r), pc[r].ret)
  BY PcMoves, OthersAre DEF TypeInv, ReconnectActive
<1>2. SameCapture /\ SameRetries /\ SameStream /\ output'.stop_code = output.stop_code
  BY DEF ReconnectActive, TypeInv, OutputType, StreamType
<1>. USE DEF Inv
<1>3. /\ At(r, "reconnect")
      /\ RetryMax # 0 /\ RetryOK(r) /\ Unasked /\ ~output.reconnect_stop
      /\ AllIn(Connects, ConnectQuiet) /\ AllIn(Sends, SendEnded)
      /\ Ended /\ \A q \in Reconnects : q # r => In(q, RetryQuiet)
  BY <1>1 DEF ReconnectActive, RetryInv, UserInv, ThreadPlaces, RetryOK
<1>. USE <1>1, <1>2, <1>3, OthersAre DEF Moves
<1>4. ThreadPlaces'  BY DEF ThreadPlaces, UserOK, ConnectOK, SendOK, RetryOK, EndOK
<1>5. Alone'         BY DEF Alone
<1>6. UserInv'       BY DEF UserInv, Before
<1>7. ConnectInv'    BY DEF ConnectInv
<1>8. SendInv'       BY DEF SendInv
<1>9. EndInv'        BY DEF EndInv
<1>10. RetryInv'     BY DEF RetryInv
<1>11. ActiveEnds'   OBVIOUS
<1>12. FedEnds'      OBVIOUS
<1>13. HookedEnds'   OBVIOUS
<1>14. RetryingEnds' OBVIOUS
<1>15. CodeInv'      BY DEF CodeInv
<1>. QED BY <1>4, <1>5, <1>6, <1>7, <1>8, <1>9, <1>10, <1>11, <1>12, <1>13, <1>14, <1>15

LEMMA ReconnectWaitKeeps ==
  ASSUME TypeInv, Inv, Scope, NEW r \in Reconnects, ReconnectWait(r), UNCHANGED stream
  PROVE  Inv'
<1>1. /\ r \in Threads /\ handle' = handle /\ heard' = heard
      /\ (~output.reconnect_stop => Moves(r, "actual_start", None, "reconnect_done"))
  BY PcMoves, OthersAre DEF TypeInv, ReconnectWait
<1>2. SameCapture /\ SameRetries /\ SameStream /\ output'.stop_code = output.stop_code
  BY DEF ReconnectWait, TypeInv, OutputType, StreamType
<1>. USE DEF Inv
<1>3. /\ At(r, "reconnect_wait") /\ AllOff(Connects) /\ AllOff(Sends) /\ AllOff(Ends)
      /\ Inactive
      /\ RetryMax # 0 /\ RetryOK(r) /\ Unasked /\ ~output.reconnect_stop
      /\ AllIn(Connects, ConnectQuiet) /\ AllIn(Sends, SendEnded)
      /\ Ended /\ \A q \in Reconnects : q # r => In(q, RetryQuiet)
  BY <1>1, SettledAlone
     DEF ReconnectWait, RetryInv, UserInv, ThreadPlaces, RetryOK, Scope
<1>. USE <1>1, <1>2, <1>3, OthersAre DEF Moves
<1>4. ThreadPlaces'  BY DEF ThreadPlaces, UserOK, ConnectOK, SendOK, RetryOK, EndOK
<1>5. Alone'         BY DEF Alone
<1>6. UserInv'       BY DEF UserInv, Before
<1>7. ConnectInv'    BY DEF ConnectInv
<1>8. SendInv'       BY DEF SendInv
<1>9. EndInv'        BY DEF EndInv
<1>10. RetryInv'     BY DEF RetryInv
<1>11. ActiveEnds'   OBVIOUS
<1>12. FedEnds'      OBVIOUS
<1>13. HookedEnds'   OBVIOUS
<1>14. RetryingEnds' OBVIOUS
<1>15. CodeInv'      BY DEF CodeInv
<1>. QED BY <1>4, <1>5, <1>6, <1>7, <1>8, <1>9, <1>10, <1>11, <1>12, <1>13, <1>14, <1>15

LEMMA ReconnectDoneKeeps ==
  ASSUME TypeInv, Inv, Scope, NEW r \in Reconnects, ReconnectDone(r), UNCHANGED stream
  PROVE  Inv'
<1>1. /\ r \in Threads /\ handle' = handle /\ heard' = heard
      /\ Moves(r, "reconnect_exit", Arg(r), pc[r].ret)
  BY PcMoves, OthersAre DEF TypeInv, ReconnectDone
<1>2. ~output.reconnect_stop =>
        /\ SameCapture /\ SameRetries /\ SameStream
        /\ output'.stop_code = output.stop_code
  BY DEF ReconnectDone, TypeInv, OutputType, StreamType
<1>. USE DEF Inv
<1>3. /\ At(r, "reconnect_done")
      /\ RetryMax # 0 /\ RetryOK(r) /\ Unasked /\ ~output.reconnect_stop
  BY <1>1 DEF ReconnectDone, RetryInv, UserInv, ThreadPlaces, RetryOK
<1>. USE <1>1, <1>2, <1>3, OthersAre DEF Moves
<1>4. ThreadPlaces'  BY DEF ThreadPlaces, UserOK, ConnectOK, SendOK, RetryOK, EndOK
<1>5. Alone'         BY DEF Alone
<1>6. UserInv'       BY DEF UserInv, Before
<1>7. ConnectInv'    BY DEF ConnectInv
<1>8. SendInv'       BY DEF SendInv
<1>9. EndInv'        BY DEF EndInv
<1>10. RetryInv'     BY DEF RetryInv
<1>11. ActiveEnds'   OBVIOUS
<1>12. FedEnds'      OBVIOUS
<1>13. HookedEnds'   OBVIOUS
<1>14. RetryingEnds' OBVIOUS
<1>15. CodeInv'      BY DEF CodeInv
<1>. QED BY <1>4, <1>5, <1>6, <1>7, <1>8, <1>9, <1>10, <1>11, <1>12, <1>13, <1>14, <1>15

LEMMA ReconnectExitKeeps ==
  ASSUME TypeInv, Inv, Scope, NEW r \in Reconnects, ReconnectExit(r), UNCHANGED stream
  PROVE  Inv'
<1>1. /\ r \in Threads /\ handle' = handle /\ heard' = heard
      /\ Moves(r, "off", None, "off")
  BY PcMoves, OthersAre DEF TypeInv, ReconnectExit
<1>2. SameCapture /\ SameRetries /\ SameStream /\ output'.stop_code = output.stop_code
  BY DEF ReconnectExit, TypeInv, OutputType, StreamType
<1>. USE DEF Inv
<1>3. /\ At(r, "reconnect_exit")
      /\ RetryMax # 0 /\ RetryOK(r) /\ Unasked /\ ~output.reconnect_stop
  BY <1>1 DEF ReconnectExit, RetryInv, UserInv, ThreadPlaces, RetryOK
<1>. USE <1>1, <1>2, <1>3, OthersAre DEF Moves
<1>4. ThreadPlaces'  BY DEF ThreadPlaces, UserOK, ConnectOK, SendOK, RetryOK, EndOK
<1>5. Alone'         BY DEF Alone
<1>6. UserInv'       BY DEF UserInv, Before
<1>7. ConnectInv'    BY DEF ConnectInv
<1>8. SendInv'       BY DEF SendInv
<1>9. EndInv'        BY DEF EndInv
<1>10. RetryInv'     BY DEF RetryInv
<1>11. ActiveEnds'   OBVIOUS
<1>12. FedEnds'      OBVIOUS
<1>13. HookedEnds'   OBVIOUS
<1>14. RetryingEnds' OBVIOUS
<1>15. CodeInv'      BY DEF CodeInv
<1>. QED BY <1>4, <1>5, <1>6, <1>7, <1>8, <1>9, <1>10, <1>11, <1>12, <1>13, <1>14, <1>15

LEMMA RetryActualStartKeeps ==
  ASSUME TypeInv, Inv, Scope, NEW r \in Reconnects, ActualStart(r), UNCHANGED stream
  PROVE  Inv'
<1>1. /\ r \in Threads /\ handle' = handle /\ heard' = heard
      /\ Moves(r, "can_begin", Arg(r), pc[r].ret)
  BY PcMoves, OthersAre DEF TypeInv, ActualStart
<1>2. SameCapture /\ SameRetries /\ SameStream
  BY DEF ActualStart, TypeInv, OutputType, StreamType
<1>. USE DEF Inv
<1>3. /\ At(r, "actual_start") /\ pc[r].ret = "reconnect_done"
      /\ AllOff(Connects) /\ AllOff(Sends) /\ AllOff(Ends) /\ Inactive
      /\ RetryMax # 0 /\ RetryOK(r) /\ Unasked /\ ~output.reconnect_stop
      /\ AllIn(Connects, ConnectQuiet) /\ AllIn(Sends, SendEnded)
      /\ Ended /\ \A q \in Reconnects : q # r => In(q, RetryQuiet)
  BY <1>1 DEF ActualStart, RetryInv, UserInv, ThreadPlaces, RetryOK
<1>. USE <1>1, <1>2, <1>3, OthersAre DEF Moves
<1>4. ThreadPlaces'  BY DEF ThreadPlaces, UserOK, ConnectOK, SendOK, RetryOK, EndOK
<1>5. Alone'         BY DEF Alone
<1>6. UserInv'       BY DEF UserInv, Before
<1>7. ConnectInv'    BY DEF ConnectInv
<1>8. SendInv'       BY DEF SendInv
<1>9. EndInv'        BY DEF EndInv
<1>10. RetryInv'     BY DEF RetryInv
<1>11. ActiveEnds'   OBVIOUS
<1>12. FedEnds'      OBVIOUS
<1>13. HookedEnds'   OBVIOUS
<1>14. RetryingEnds' OBVIOUS
<1>15. CodeInv'      BY DEF CodeInv
<1>. QED BY <1>4, <1>5, <1>6, <1>7, <1>8, <1>9, <1>10, <1>11, <1>12, <1>13, <1>14, <1>15

LEMMA RetryCanBeginKeeps ==
  ASSUME TypeInv, Inv, Scope, NEW r \in Reconnects, CanBegin(r), UNCHANGED stream
  PROVE  Inv'
<1>1. /\ r \in Threads /\ handle' = handle /\ heard' = heard
      /\ (~output.active => Moves(r, "initialize", Arg(r), pc[r].ret))
  BY PcMoves, OthersAre DEF TypeInv, CanBegin
<1>2. SameCapture /\ SameRetries /\ SameStream /\ output'.stop_code = output.stop_code
  BY DEF CanBegin, TypeInv, OutputType, StreamType
<1>. USE DEF Inv
<1>3. /\ At(r, "can_begin") /\ pc[r].ret = "reconnect_done"
      /\ ~output.active /\ AllOff(Connects) /\ AllOff(Sends) /\ AllOff(Ends) /\ Inactive
      /\ RetryMax # 0 /\ RetryOK(r) /\ Unasked /\ ~output.reconnect_stop
      /\ AllIn(Connects, ConnectQuiet) /\ AllIn(Sends, SendEnded)
      /\ Ended /\ \A q \in Reconnects : q # r => In(q, RetryQuiet)
  BY <1>1 DEF CanBegin, RetryInv, UserInv, ThreadPlaces, RetryOK
<1>. USE <1>1, <1>2, <1>3, OthersAre DEF Moves
<1>4. ThreadPlaces'  BY DEF ThreadPlaces, UserOK, ConnectOK, SendOK, RetryOK, EndOK
<1>5. Alone'         BY DEF Alone
<1>6. UserInv'       BY DEF UserInv, Before
<1>7. ConnectInv'    BY DEF ConnectInv
<1>8. SendInv'       BY DEF SendInv
<1>9. EndInv'        BY DEF EndInv
<1>10. RetryInv'     BY DEF RetryInv
<1>11. ActiveEnds'   OBVIOUS
<1>12. FedEnds'      OBVIOUS
<1>13. HookedEnds'   OBVIOUS
<1>14. RetryingEnds' OBVIOUS
<1>15. CodeInv'      BY DEF CodeInv
<1>. QED BY <1>4, <1>5, <1>6, <1>7, <1>8, <1>9, <1>10, <1>11, <1>12, <1>13, <1>14, <1>15

LEMMA RetryInitializeKeeps ==
  ASSUME TypeInv, Inv, Scope, NEW r \in Reconnects, Initialize(r), UNCHANGED stream
  PROVE  Inv'
<1>1. /\ r \in Threads /\ handle' = handle /\ heard' = heard
      /\ ("initialize" \notin Faults /\ ~output.active =>
            Moves(r, "start_plugin", Arg(r), pc[r].ret))
  BY PcMoves, OthersAre DEF TypeInv, Initialize
<1>2. SameCapture /\ SameRetries /\ SameStream /\ output'.stop_code = output.stop_code
  BY DEF Initialize, TypeInv, OutputType, StreamType
<1>. USE DEF Inv
<1>3. /\ At(r, "initialize") /\ pc[r].ret = "reconnect_done"
      /\ "initialize" \notin Faults
      /\ ~output.active /\ AllOff(Connects) /\ AllOff(Sends) /\ AllOff(Ends) /\ Inactive
      /\ RetryMax # 0 /\ RetryOK(r) /\ Unasked /\ ~output.reconnect_stop
      /\ AllIn(Connects, ConnectQuiet) /\ AllIn(Sends, SendEnded)
      /\ Ended /\ \A q \in Reconnects : q # r => In(q, RetryQuiet)
  BY <1>1 DEF Initialize, RetryInv, UserInv, ThreadPlaces, RetryOK, Scope
<1>. USE <1>1, <1>2, <1>3, OthersAre DEF Moves
<1>4. ThreadPlaces'  BY DEF ThreadPlaces, UserOK, ConnectOK, SendOK, RetryOK, EndOK
<1>5. Alone'         BY DEF Alone
<1>6. UserInv'       BY DEF UserInv, Before
<1>7. ConnectInv'    BY DEF ConnectInv
<1>8. SendInv'       BY DEF SendInv
<1>9. EndInv'        BY DEF EndInv
<1>10. RetryInv'     BY DEF RetryInv
<1>11. ActiveEnds'   OBVIOUS
<1>12. FedEnds'      OBVIOUS
<1>13. HookedEnds'   OBVIOUS
<1>14. RetryingEnds' OBVIOUS
<1>15. CodeInv'      BY DEF CodeInv
<1>. QED BY <1>4, <1>5, <1>6, <1>7, <1>8, <1>9, <1>10, <1>11, <1>12, <1>13, <1>14, <1>15

LEMMA RetryStartKeeps ==
  ASSUME TypeInv, Inv, Scope, NEW r \in Reconnects, StreamStart(r)
  PROVE  Inv'
<1>1. /\ r \in Threads /\ handle'["send"] = handle["send"] /\ heard' = heard
      /\ \E c \in Connects : Spawns(r, pc[r].ret, "ok", "off", c, "init_connect")
  BY CreateSpawns, OthersAre DEF TypeInv, StreamStart
<1>2. SameCapture /\ SameRetries /\ SameStream /\ output'.stop_code = output.stop_code
  BY DEF StreamStart, TypeInv, OutputType, StreamType
<1>. USE DEF Inv
<1>3. /\ At(r, "start_plugin") /\ pc[r].ret = "reconnect_done"
      /\ AllOff(Connects) /\ AllOff(Sends) /\ AllOff(Ends) /\ Inactive
      /\ RetryMax # 0 /\ RetryOK(r) /\ Unasked /\ ~output.reconnect_stop
      /\ AllIn(Connects, ConnectQuiet) /\ AllIn(Sends, SendEnded)
      /\ Ended /\ \A q \in Reconnects : q # r => In(q, RetryQuiet)
  BY <1>1 DEF StreamStart, RetryInv, UserInv, ThreadPlaces, RetryOK
<1>. USE <1>1, <1>2, <1>3, OthersAre DEF Spawns
<1>4. ThreadPlaces'  BY DEF ThreadPlaces, UserOK, ConnectOK, SendOK, RetryOK, EndOK
<1>5. Alone'         BY DEF Alone
<1>6. UserInv'       BY DEF UserInv, Before
<1>7. ConnectInv'    BY DEF ConnectInv
<1>8. SendInv'       BY DEF SendInv
<1>9. EndInv'        BY DEF EndInv
<1>10. RetryInv'     BY DEF RetryInv
<1>11. ActiveEnds'   OBVIOUS
<1>12. FedEnds'      OBVIOUS
<1>13. HookedEnds'   OBVIOUS
<1>14. RetryingEnds' OBVIOUS
<1>15. CodeInv'      BY DEF CodeInv
<1>. QED BY <1>4, <1>5, <1>6, <1>7, <1>8, <1>9, <1>10, <1>11, <1>12, <1>13, <1>14, <1>15

----------------------------------------------------------------------------
(* The thread that ends a data capture.                                    *)

LEMMA EndStopKeeps ==
  ASSUME TypeInv, Inv, Scope, NEW e \in Ends, EndStop(e), UNCHANGED stream
  PROVE  Inv'
<1>1. /\ e \in Threads /\ handle' = handle /\ heard' = heard
      /\ Moves(e, "end_inactive", Arg(e), pc[e].ret)
  BY PcMoves, OthersAre DEF TypeInv, EndStop
<1>2. /\ SameRetries /\ SameStream /\ output'.stop_code = output.stop_code
      /\ output'.data_active = output.data_active /\ output'.active = output.active
      /\ ~output'.hooked
  BY DEF EndStop, TypeInv, OutputType, StreamType
<1>. USE DEF Inv
<1>3. /\ At(e, "end")
      /\ \A d \in Ends : d # e => At(d, "off")
      /\ AllIn(Connects, ConnectQuiet) /\ ~output.data_active
      /\ AllIn(Sends, SendEnded \cup Closing \cup {"end_capture"})
  BY <1>1 DEF EndStop, EndInv, ConnectInv, SendInv, ThreadPlaces, SendOK, Alone
<1>. USE <1>1, <1>2, <1>3, OthersAre DEF Moves
<1>4. ThreadPlaces'  BY DEF ThreadPlaces, UserOK, ConnectOK, SendOK, RetryOK, EndOK
<1>5. Alone'         BY DEF Alone
<1>6. UserInv'       BY DEF UserInv, Before
<1>7. ConnectInv'    BY DEF ConnectInv
<1>8. SendInv'       BY DEF SendInv
<1>9. EndInv'        BY DEF EndInv
<1>10. RetryInv'     BY DEF RetryInv
<1>11. ActiveEnds'   OBVIOUS
<1>12. FedEnds'      OBVIOUS
<1>13. HookedEnds'   OBVIOUS
<1>14. RetryingEnds' OBVIOUS
<1>15. CodeInv'      BY DEF CodeInv
<1>. QED BY <1>4, <1>5, <1>6, <1>7, <1>8, <1>9, <1>10, <1>11, <1>12, <1>13, <1>14, <1>15

LEMMA EndInactiveKeeps ==
  ASSUME TypeInv, Inv, Scope, NEW e \in Ends, EndInactive(e), UNCHANGED stream
  PROVE  Inv'
<1>1. /\ e \in Threads /\ handle' = handle /\ heard' = heard
      /\ Moves(e, "end_event", Arg(e), pc[e].ret)
  BY PcMoves, OthersAre DEF TypeInv, EndInactive
<1>2. /\ SameRetries /\ SameStream /\ output'.stop_code = output.stop_code
      /\ output'.data_active = output.data_active /\ ~output'.active
      /\ output'.hooked = output.hooked
  BY DEF EndInactive, TypeInv, OutputType, StreamType
<1>. USE DEF Inv
<1>3. /\ At(e, "end_inactive") /\ ~output.hooked
      /\ \A d \in Ends : d # e => At(d, "off")
      /\ AllIn(Connects, ConnectQuiet) /\ ~output.data_active
      /\ AllIn(Sends, SendEnded \cup Closing \cup {"end_capture"})
  BY <1>1 DEF EndInactive, EndInv, ConnectInv, SendInv, ThreadPlaces, SendOK, Alone
<1>. USE <1>1, <1>2, <1>3, OthersAre DEF Moves
<1>4. ThreadPlaces'  BY DEF ThreadPlaces, UserOK, ConnectOK, SendOK, RetryOK, EndOK
<1>5. Alone'         BY DEF Alone
<1>6. UserInv'       BY DEF UserInv, Before
<1>7. ConnectInv'    BY DEF ConnectInv
<1>8. SendInv'       BY DEF SendInv
<1>9. EndInv'        BY DEF EndInv
<1>10. RetryInv'     BY DEF RetryInv
<1>11. ActiveEnds'   OBVIOUS
<1>12. FedEnds'      OBVIOUS
<1>13. HookedEnds'   OBVIOUS
<1>14. RetryingEnds' OBVIOUS
<1>15. CodeInv'      BY DEF CodeInv
<1>. QED BY <1>4, <1>5, <1>6, <1>7, <1>8, <1>9, <1>10, <1>11, <1>12, <1>13, <1>14, <1>15

LEMMA EndEventKeeps ==
  ASSUME TypeInv, Inv, Scope, NEW e \in Ends, EndEvent(e), UNCHANGED stream
  PROVE  Inv'
<1>1. /\ e \in Threads /\ handle' = handle /\ heard' = heard
      /\ Moves(e, "end_exit", Arg(e), pc[e].ret)
  BY PcMoves, OthersAre DEF TypeInv, EndEvent
<1>2. SameCapture /\ SameRetries /\ SameStream /\ output'.stop_code = output.stop_code
  BY DEF EndEvent, TypeInv, OutputType, StreamType
<1>. USE DEF Inv
<1>3. /\ At(e, "end_event") /\ Inactive
      /\ \A d \in Ends : d # e => At(d, "off")
      /\ AllIn(Connects, ConnectQuiet) /\ ~output.data_active
      /\ AllIn(Sends, SendEnded \cup Closing \cup {"end_capture"})
  BY <1>1 DEF EndEvent, EndInv, ConnectInv, SendInv, ThreadPlaces, SendOK, Alone
<1>. USE <1>1, <1>2, <1>3, OthersAre DEF Moves
<1>4. ThreadPlaces'  BY DEF ThreadPlaces, UserOK, ConnectOK, SendOK, RetryOK, EndOK
<1>5. Alone'         BY DEF Alone
<1>6. UserInv'       BY DEF UserInv, Before
<1>7. ConnectInv'    BY DEF ConnectInv
<1>8. SendInv'       BY DEF SendInv
<1>9. EndInv'        BY DEF EndInv
<1>10. RetryInv'     BY DEF RetryInv
<1>11. ActiveEnds'   OBVIOUS
<1>12. FedEnds'      OBVIOUS
<1>13. HookedEnds'   OBVIOUS
<1>14. RetryingEnds' OBVIOUS
<1>15. CodeInv'      BY DEF CodeInv
<1>. QED BY <1>4, <1>5, <1>6, <1>7, <1>8, <1>9, <1>10, <1>11, <1>12, <1>13, <1>14, <1>15

LEMMA EndExitKeeps ==
  ASSUME TypeInv, Inv, Scope, NEW e \in Ends, EndExit(e), UNCHANGED stream
  PROVE  Inv'
<1>1. /\ e \in Threads /\ handle' = handle /\ heard' = heard
      /\ Moves(e, "off", None, "off")
  BY PcMoves, OthersAre DEF TypeInv, EndExit
<1>2. SameCapture /\ SameRetries /\ SameStream /\ output'.stop_code = output.stop_code
  BY DEF EndExit, TypeInv, OutputType, StreamType
<1>. USE DEF Inv
<1>3. /\ At(e, "end_exit") /\ Inactive
      /\ \A d \in Ends : d # e => At(d, "off")
      /\ AllIn(Connects, ConnectQuiet) /\ ~output.data_active
      /\ AllIn(Sends, SendEnded \cup Closing \cup {"end_capture"})
  BY <1>1 DEF EndExit, EndInv, ConnectInv, SendInv, ThreadPlaces, SendOK, Alone
<1>. USE <1>1, <1>2, <1>3, OthersAre DEF Moves
<1>4. ThreadPlaces'  BY DEF ThreadPlaces, UserOK, ConnectOK, SendOK, RetryOK, EndOK
<1>5. Alone'         BY DEF Alone
<1>6. UserInv'       BY DEF UserInv, Before
<1>7. ConnectInv'    BY DEF ConnectInv
<1>8. SendInv'       BY DEF SendInv
<1>9. EndInv'        BY DEF EndInv
<1>10. RetryInv'     BY DEF RetryInv
<1>11. ActiveEnds'   OBVIOUS
<1>12. FedEnds'      OBVIOUS
<1>13. HookedEnds'   OBVIOUS
<1>14. RetryingEnds' OBVIOUS
<1>15. CodeInv'      BY DEF CodeInv
<1>. QED BY <1>4, <1>5, <1>6, <1>7, <1>8, <1>9, <1>10, <1>11, <1>12, <1>13, <1>14, <1>15

----------------------------------------------------------------------------
(* The user interface.                                                     *)

\* A call of the user moves no other thread, and what the others go by stays.
UserCall == /\ handle' = handle /\ SameCapture /\ SameRetries /\ stream'.active = stream.active
            /\ \A u \in Threads : u # UI => pc'[u] = pc[u]

\* So of the invariant only what is about the user interface needs a proof.
LEMMA UserFrame ==
  ASSUME TypeInv, Inv, UserCall, UserOK', UserInv', CodeInv' PROVE Inv'
<1>. USE DEF Inv, UserCall
<1>1. ThreadPlaces'
  BY OthersAre DEF ThreadPlaces, ConnectOK, SendOK, RetryOK, EndOK
<1>2. Alone'
  BY OthersAre DEF Alone
<1>3. ConnectInv'
  BY OthersAre DEF ConnectInv
<1>4. SendInv'
  BY OthersAre DEF SendInv
<1>5. EndInv'
  BY OthersAre DEF EndInv
<1>6. RetryInv'
  BY OthersAre DEF RetryInv
<1>7. Live'
  BY OthersAre
<1>. QED BY <1>1, <1>2, <1>3, <1>4, <1>5, <1>6, <1>7

LEMMA StartKeeps ==
  ASSUME TypeInv, Inv, Scope, Start, UNCHANGED stream
  PROVE  Inv'
<1>1. /\ handle' = handle /\ Moves(UI, "actual_start", None, "started")
  BY PcMoves, OthersAre DEF TypeInv, Start
<1>2. /\ SameCapture /\ SameRetries /\ SameStream
      /\ heard'.starts = heard.starts + 1 /\ heard'.requests = 0 /\ heard'.code = None
  BY DEF HeardType, Start, TypeInv, OutputType, StreamType
<1>. USE DEF Inv
<1>3. /\ At(UI, "idle") /\ heard.starts = 0
      /\ AllOff(Connects) /\ AllOff(Sends) /\ AllOff(Ends) /\ AllOff(Reconnects)
      /\ Inactive /\ ~output.reconnecting
  BY <1>1
     DEF Start, UserInv, ThreadPlaces, UserOK, Scope, Before, TypeInv, OutputType,
         HeardType
<1>. USE <1>1, <1>2, <1>3, OthersAre DEF Moves
<1>4. UserCall  BY DEF UserCall
<1>5. UserOK'   BY DEF UserOK
<1>6. UserInv'  BY DEF UserInv, Before
<1>7. CodeInv'  BY DEF UserInv, CodeInv, None
<1>. QED BY <1>4, <1>5, <1>6, <1>7, UserFrame

LEMMA StartedKeeps ==
  ASSUME TypeInv, Inv, Scope, Started, UNCHANGED stream
  PROVE  Inv'
<1>1. /\ handle' = handle /\ Moves(UI, "idle", None, "off")
  BY PcMoves, OthersAre DEF TypeInv, Started
<1>2. /\ SameCapture /\ SameRetries /\ SameStream
      /\ output'.stop_code = output.stop_code
      /\ heard'.starts = heard.starts /\ heard'.requests = heard.requests
      /\ heard'.code = heard.code
  BY DEF HeardType, Started, TypeInv, OutputType, StreamType
<1>. USE DEF Inv
<1>3. At(UI, "started") /\ heard.starts = 1
  BY <1>1 DEF Started, UserInv, ThreadPlaces, UserOK
<1>. USE <1>1, <1>2, <1>3, OthersAre DEF Moves
<1>4. UserCall  BY DEF UserCall
<1>5. UserOK'   BY DEF UserOK
<1>6. UserInv'  BY DEF UserInv, Before
<1>7. CodeInv'  BY DEF UserInv, CodeInv, None
<1>. QED BY <1>4, <1>5, <1>6, <1>7, UserFrame

\* A stop is only asked for of a capture that began.
LEMMA RequestOf ==
  ASSUME TypeInv, Inv, Scope, RetryMax = 0, Request
  PROVE  /\ At(UI, "idle") /\ heard.starts = 1 /\ AllIn(Connects, ConnectQuiet)
         /\ ~output.reconnecting /\ \A s \in Sends : At(s, "send") => Capturing
<1>. USE DEF Inv
<1>1. At(UI, "idle") /\ output.active /\ ~output.reconnecting
  BY DEF Request, obs_output_active
<1>2. AllIn(Connects, ConnectQuiet)
  BY <1>1 DEF ConnectInv, ThreadPlaces, ConnectOK
<1>3. heard.starts = 1
  <2>1. heard.starts # 0
    BY <1>1 DEF UserInv, Before
  <2>. QED BY <2>1 DEF Scope, TypeInv, HeardType
<1>. QED BY <1>1, <1>2, <1>3 DEF SendInv

LEMMA StopKeeps ==
  ASSUME TypeInv, Inv, Scope, RetryMax = 0, Stop, UNCHANGED stream
  PROVE  Inv'
<1>1. /\ handle' = handle
      /\ ~output.reconnecting => Moves(UI, "actual_stop", "stop", "idle")
  BY PcMoves, OthersAre DEF TypeInv, Stop
<1>2. /\ SameCapture /\ SameRetries /\ SameStream
      /\ output'.stop_code = output.stop_code
      /\ heard'.starts = heard.starts /\ heard'.requests # 0 /\ heard'.code = heard.code
  BY DEF HeardType, Request, Stop, TypeInv, OutputType, StreamType
<1>. USE DEF Inv
<1>3. /\ At(UI, "idle") /\ heard.starts = 1 /\ RetryMax = 0
      /\ AllIn(Connects, ConnectQuiet)
      /\ ~output.reconnecting /\ \A s \in Sends : At(s, "send") => Capturing
  BY <1>1, RequestOf DEF Stop, UserInv, ThreadPlaces, UserOK
<1>. USE <1>1, <1>2, <1>3, OthersAre DEF Moves
<1>4. UserCall  BY DEF UserCall
<1>5. UserOK'   BY DEF UserOK
<1>6. UserInv'  BY DEF UserInv, Before
<1>7. CodeInv'  BY DEF UserInv, CodeInv, None
<1>. QED BY <1>4, <1>5, <1>6, <1>7, UserFrame

LEMMA ForceStopKeeps ==
  ASSUME TypeInv, Inv, Scope, RetryMax = 0, ForceStop, UNCHANGED stream
  PROVE  Inv'
<1>1. /\ handle' = handle /\ Moves(UI, "force_stop", None, "idle")
  BY PcMoves, OthersAre DEF TypeInv, ForceStop
<1>2. /\ SameCapture /\ SameRetries /\ SameStream
      /\ output'.stop_code = output.stop_code
      /\ heard'.starts = heard.starts /\ heard'.requests # 0 /\ heard'.code = heard.code
  BY DEF HeardType, Request, ForceStop, TypeInv, OutputType, StreamType
<1>. USE DEF Inv
<1>3. /\ At(UI, "idle") /\ heard.starts = 1 /\ RetryMax = 0
      /\ AllIn(Connects, ConnectQuiet)
      /\ ~output.reconnecting /\ \A s \in Sends : At(s, "send") => Capturing
  BY <1>1, RequestOf DEF ForceStop, UserInv, ThreadPlaces, UserOK
<1>. USE <1>1, <1>2, <1>3, OthersAre DEF Moves
<1>4. UserCall  BY DEF UserCall
<1>5. UserOK'   BY DEF UserOK
<1>6. UserInv'  BY DEF UserInv, Before
<1>7. CodeInv'  BY DEF UserInv, CodeInv, None
<1>. QED BY <1>4, <1>5, <1>6, <1>7, UserFrame

LEMMA ForceStopCodeKeeps ==
  ASSUME TypeInv, Inv, Scope, ForceStopCode, UNCHANGED stream
  PROVE  Inv'
<1>1. /\ handle' = handle /\ heard' = heard /\ Moves(UI, "actual_stop", "force", "idle")
  BY PcMoves, OthersAre DEF TypeInv, ForceStopCode
<1>2. SameCapture /\ SameRetries /\ SameStream
  BY DEF ForceStopCode, TypeInv, OutputType, StreamType
<1>. USE DEF Inv
<1>3. At(UI, "force_stop") /\ ~Unasked /\ pc[UI].ret = "idle"
  BY <1>1 DEF ForceStopCode, UserInv, ThreadPlaces, UserOK
<1>. USE <1>1, <1>2, <1>3, OthersAre DEF Moves
<1>4. UserCall  BY DEF UserCall
<1>5. UserOK'   BY DEF UserOK
<1>6. UserInv'  BY DEF UserInv, Before
<1>7. CodeInv'  BY DEF UserInv, CodeInv, None
<1>. QED BY <1>4, <1>5, <1>6, <1>7, UserFrame

LEMMA ActualStopKeeps ==
  ASSUME TypeInv, Inv, Scope, ActualStop, UNCHANGED stream
  PROVE  Inv'
<1>1. /\ handle' = handle /\ heard' = heard
      /\ \/ Moves(UI, pc[UI].ret, None, "off")
         \/ Moves(UI, "stop_reconnect", Arg(UI), pc[UI].ret)
  BY PcMoves, OthersAre DEF TypeInv, ActualStop
<1>2. SameCapture /\ SameRetries /\ SameStream /\ output'.stop_code = output.stop_code
  BY DEF ActualStop, TypeInv, OutputType, StreamType
<1>. USE DEF Inv
<1>3. At(UI, "actual_stop") /\ ~Unasked /\ pc[UI].ret = "idle"
  BY <1>1 DEF ActualStop, UserInv, ThreadPlaces, UserOK
<1>. USE <1>1, <1>2, <1>3, OthersAre DEF Moves
<1>4. UserCall  BY DEF UserCall
<1>5. UserOK'   BY DEF UserOK
<1>6. UserInv'  BY DEF UserInv, Before
<1>7. CodeInv'  BY DEF UserInv, CodeInv, None
<1>. QED BY <1>4, <1>5, <1>6, <1>7, UserFrame

LEMMA StopReconnectKeeps ==
  ASSUME TypeInv, Inv, Scope, StopReconnect, UNCHANGED stream
  PROVE  Inv'
<1>1. /\ handle' = handle /\ heard' = heard
      /\ ~output.reconnecting => Moves(UI, "stop_plugin", Arg(UI), pc[UI].ret)
  BY PcMoves, OthersAre DEF TypeInv, StopReconnect
<1>2. ~output.reconnecting =>
        /\ SameCapture /\ SameRetries /\ SameStream
        /\ output'.stop_code = output.stop_code
  BY DEF StopReconnect, TypeInv, OutputType, StreamType
<1>. USE DEF Inv
<1>3. /\ At(UI, "stop_reconnect") /\ ~output.reconnecting /\ ~Unasked
      /\ pc[UI].ret = "idle"
  BY <1>1 DEF StopReconnect, UserInv, ThreadPlaces, UserOK
<1>. USE <1>1, <1>2, <1>3, OthersAre DEF Moves
<1>4. UserCall  BY DEF UserCall
<1>5. UserOK'   BY DEF UserOK
<1>6. UserInv'  BY DEF UserInv, Before
<1>7. CodeInv'  BY DEF UserInv, CodeInv, None
<1>. QED BY <1>4, <1>5, <1>6, <1>7, UserFrame

LEMMA StreamStopKeeps ==
  ASSUME TypeInv, Inv, Scope, StreamStop
  PROVE  Inv'
<1>1. /\ handle' = handle /\ heard' = heard
      /\ \/ Moves(UI, pc[UI].ret, None, "off")
         \/ Moves(UI, "join_connect", Arg(UI), pc[UI].ret)
         \/ Moves(UI, "stop_ts", Arg(UI), pc[UI].ret)
  BY PcMoves, OthersAre DEF TypeInv, StreamStop
<1>2. SameCapture /\ SameRetries /\ SameStream /\ output'.stop_code = output.stop_code
  BY DEF StreamStop, TypeInv, OutputType, StreamType
<1>. USE DEF Inv
<1>3. At(UI, "stop_plugin") /\ ~Unasked /\ pc[UI].ret = "idle"
  BY <1>1 DEF StreamStop, UserInv, ThreadPlaces, UserOK
<1>. USE <1>1, <1>2, <1>3, OthersAre DEF Moves
<1>4. UserCall  BY DEF UserCall
<1>5. UserOK'   BY DEF UserOK
<1>6. UserInv'  BY DEF UserInv, Before
<1>7. CodeInv'  BY DEF UserInv, CodeInv, None
<1>. QED BY <1>4, <1>5, <1>6, <1>7, UserFrame

LEMMA JoinConnectKeeps ==
  ASSUME TypeInv, Inv, Scope, JoinConnect
  PROVE  Inv'
<1>1. /\ handle' = handle /\ heard' = heard /\ Moves(UI, "stop_ts", Arg(UI), pc[UI].ret)
  BY PcMoves, OthersAre DEF TypeInv, JoinConnect
<1>2. SameCapture /\ SameRetries /\ SameStream /\ output'.stop_code = output.stop_code
  BY DEF JoinConnect, TypeInv, OutputType, StreamType
<1>. USE DEF Inv
<1>3. At(UI, "join_connect") /\ ~Unasked /\ pc[UI].ret = "idle"
  BY <1>1 DEF JoinConnect, UserInv, ThreadPlaces, UserOK
<1>. USE <1>1, <1>2, <1>3, OthersAre DEF Moves
<1>4. UserCall  BY DEF UserCall
<1>5. UserOK'   BY DEF UserOK
<1>6. UserInv'  BY DEF UserInv, Before
<1>7. CodeInv'  BY DEF UserInv, CodeInv, None
<1>. QED BY <1>4, <1>5, <1>6, <1>7, UserFrame

LEMMA StopTsKeeps ==
  ASSUME TypeInv, Inv, Scope, StopTs
  PROVE  Inv'
<1>1. /\ handle' = handle /\ heard' = heard
      /\ \/ Moves(UI, "stop_event", Arg(UI), pc[UI].ret)
         \/ ~stream.active /\ Moves(UI, "signal_stop", "SUCCESS", pc[UI].ret)
  BY PcMoves, OthersAre DEF TypeInv, StopTs
<1>2. SameCapture /\ SameRetries /\ SameStream /\ output'.stop_code = output.stop_code
  BY DEF StopTs, TypeInv, OutputType, StreamType
<1>. USE DEF Inv
<1>3. At(UI, "stop_ts") /\ ~Unasked /\ pc[UI].ret = "idle"
      /\ (~stream.active => AllOff(Sends))
  BY <1>1 DEF StopTs, UserInv, ThreadPlaces, UserOK, Alone
<1>. USE <1>1, <1>2, <1>3, OthersAre DEF Moves
<1>4. UserCall  BY DEF UserCall
<1>5. UserOK'   BY DEF UserOK
<1>6. UserInv'  BY DEF UserInv, Before
<1>7. CodeInv'  BY DEF UserInv, CodeInv, None
<1>. QED BY <1>4, <1>5, <1>6, <1>7, UserFrame

LEMMA StopEventKeeps ==
  ASSUME TypeInv, Inv, Scope, StopEvent
  PROVE  Inv'
<1>1. /\ handle' = handle /\ heard' = heard /\ Moves(UI, pc[UI].ret, None, "off")
  BY PcMoves, OthersAre DEF TypeInv, StopEvent
<1>2. /\ SameCapture /\ SameRetries /\ output'.stop_code = output.stop_code
      /\ stream'.active = stream.active
  BY DEF StopEvent, TypeInv, OutputType, StreamType
<1>. USE DEF Inv
<1>3. At(UI, "stop_event") /\ ~Unasked /\ pc[UI].ret = "idle"
  BY <1>1 DEF StopEvent, UserInv, ThreadPlaces, UserOK
<1>. USE <1>1, <1>2, <1>3, OthersAre DEF Moves
<1>4. UserCall  BY DEF UserCall
<1>5. UserOK'   BY DEF UserOK
<1>6. UserInv'  BY DEF UserInv, Before
<1>7. CodeInv'  BY DEF UserInv, CodeInv, None
<1>. QED BY <1>4, <1>5, <1>6, <1>7, UserFrame

LEMMA UserActualStartKeeps ==
  ASSUME TypeInv, Inv, Scope, ActualStart(UI), UNCHANGED stream
  PROVE  Inv'
<1>1. /\ handle' = handle /\ heard' = heard
      /\ Moves(UI, "can_begin", Arg(UI), pc[UI].ret)
  BY PcMoves, OthersAre DEF TypeInv, ActualStart
<1>2. SameCapture /\ SameRetries /\ SameStream
  BY DEF ActualStart, TypeInv, OutputType, StreamType
<1>. USE DEF Inv
<1>3. /\ At(UI, "actual_start") /\ pc[UI].ret = "started" /\ heard.starts = 1
      /\ AllOff(Connects) /\ AllOff(Sends)
  BY <1>1 DEF ActualStart, UserInv, ThreadPlaces, UserOK, Before
<1>. USE <1>1, <1>2, <1>3, OthersAre DEF Moves
<1>4. UserCall  BY DEF UserCall
<1>5. UserOK'   BY DEF UserOK
<1>6. UserInv'  BY DEF UserInv, Before
<1>7. CodeInv'  BY DEF UserInv, CodeInv, None
<1>. QED BY <1>4, <1>5, <1>6, <1>7, UserFrame

LEMMA UserCanBeginKeeps ==
  ASSUME TypeInv, Inv, Scope, CanBegin(UI), UNCHANGED stream
  PROVE  Inv'
<1>1. /\ handle' = handle /\ heard' = heard
      /\ \/ Moves(UI, pc[UI].ret, "failed", "off")
         \/ Moves(UI, "initialize", Arg(UI), pc[UI].ret)
  BY PcMoves, OthersAre DEF TypeInv, CanBegin
<1>2. SameCapture /\ SameRetries /\ SameStream /\ output'.stop_code = output.stop_code
  BY DEF CanBegin, TypeInv, OutputType, StreamType
<1>. USE DEF Inv
<1>3. At(UI, "can_begin") /\ pc[UI].ret = "started" /\ heard.starts = 1
  BY <1>1 DEF CanBegin, UserInv, ThreadPlaces, UserOK
<1>. USE <1>1, <1>2, <1>3, OthersAre DEF Moves
<1>4. UserCall  BY DEF UserCall
<1>5. UserOK'   BY DEF UserOK
<1>6. UserInv'  BY DEF UserInv, Before
<1>7. CodeInv'  BY DEF UserInv, CodeInv, None
<1>. QED BY <1>4, <1>5, <1>6, <1>7, UserFrame

LEMMA UserInitializeKeeps ==
  ASSUME TypeInv, Inv, Scope, Initialize(UI), UNCHANGED stream
  PROVE  Inv'
<1>1. /\ handle' = handle /\ heard' = heard
      /\ \/ Moves(UI, pc[UI].ret, "failed", "off")
         \/ Moves(UI, "start_plugin", Arg(UI), pc[UI].ret)
  BY PcMoves, OthersAre DEF TypeInv, Initialize
<1>2. SameCapture /\ SameRetries /\ SameStream /\ output'.stop_code = output.stop_code
  BY DEF Initialize, TypeInv, OutputType, StreamType
<1>. USE DEF Inv
<1>3. At(UI, "initialize") /\ pc[UI].ret = "started" /\ heard.starts = 1
  BY <1>1 DEF Initialize, UserInv, ThreadPlaces, UserOK
<1>. USE <1>1, <1>2, <1>3, OthersAre DEF Moves
<1>4. UserCall  BY DEF UserCall
<1>5. UserOK'   BY DEF UserOK
<1>6. UserInv'  BY DEF UserInv, Before
<1>7. CodeInv'  BY DEF UserInv, CodeInv, None
<1>. QED BY <1>4, <1>5, <1>6, <1>7, UserFrame

LEMMA UserSignalStopKeeps ==
  ASSUME TypeInv, Inv, Scope, SignalStop(UI), UNCHANGED stream
  PROVE  Inv'
<1>1. /\ handle' = handle /\ heard' = heard
      /\ (Arg(UI) = "SUCCESS" => Moves(UI, "end_capture", "signal", pc[UI].ret))
  BY PcMoves, OthersAre DEF TypeInv, SignalStop, can_reconnect
<1>2. SameCapture /\ SameRetries /\ SameStream
  BY DEF SignalStop, can_reconnect, TypeInv, OutputType, StreamType
<1>. USE DEF Inv
<1>3. /\ At(UI, "signal_stop") /\ Arg(UI) = "SUCCESS" /\ AllOff(Sends) /\ ~Unasked
      /\ pc[UI].ret = "idle"
  BY <1>1 DEF SignalStop, UserInv, ThreadPlaces, UserOK
<1>. USE <1>1, <1>2, <1>3, OthersAre DEF Moves
<1>4. UserCall  BY DEF UserCall
<1>5. UserOK'   BY DEF UserOK
<1>6. UserInv'  BY DEF UserInv, Before
<1>7. CodeInv'  BY DEF UserInv, CodeInv, None
<1>. QED BY <1>4, <1>5, <1>6, <1>7, UserFrame

LEMMA UserInactiveKeeps ==
  ASSUME TypeInv, Inv, Scope, EndCaptureInactive(UI), UNCHANGED stream
  PROVE  Inv'
<1>1. /\ handle' = handle /\ (Arg(UI) = "signal" => Moves(UI, pc[UI].ret, None, "off"))
  BY PcMoves, OthersAre DEF TypeInv, EndCaptureInactive
<1>2. /\ SameCapture /\ SameRetries /\ SameStream /\ heard'.starts = heard.starts
      /\ heard'.requests = heard.requests
  BY DEF HeardType, HearStop, EndCaptureInactive, TypeInv, OutputType, StreamType
<1>. USE DEF Inv
<1>3. At(UI, "end_capture") /\ Arg(UI) = "signal" /\ ~Unasked /\ pc[UI].ret = "idle"
  BY <1>1 DEF EndCaptureInactive, UserInv, ThreadPlaces, UserOK
<1>. USE <1>1, <1>2, <1>3, OthersAre DEF Moves
<1>4. UserCall  BY DEF UserCall
<1>5. UserOK'   BY DEF UserOK
<1>6. UserInv'  BY DEF UserInv, Before
<1>7. CodeInv'  BY DEF UserInv, CodeInv, None
<1>. QED BY <1>4, <1>5, <1>6, <1>7, UserFrame

LEMMA UserStartKeeps ==
  ASSUME TypeInv, Inv, Scope, StreamStart(UI)
  PROVE  Inv'
<1>1. /\ UI \in Threads /\ handle'["send"] = handle["send"] /\ heard' = heard
      /\ \E c \in Connects : Spawns(UI, pc[UI].ret, "ok", "off", c, "init_connect")
  BY CreateSpawns, OthersAre DEF TypeInv, StreamStart
<1>2. SameCapture /\ SameRetries /\ SameStream /\ output'.stop_code = output.stop_code
  BY DEF StreamStart, TypeInv, OutputType, StreamType
<1>. USE DEF Inv
<1>3. /\ At(UI, "start_plugin") /\ pc[UI].ret = "started" /\ Unasked
      /\ AllOff(Connects) /\ AllOff(Sends) /\ AllOff(Ends) /\ AllOff(Reconnects)
      /\ Inactive
      /\ ~output.reconnecting /\ heard.starts = 1
  BY <1>1 DEF StreamStart, UserInv, ThreadPlaces, UserOK, Before
<1>. USE <1>1, <1>2, <1>3, OthersAre DEF Spawns
<1>4. ThreadPlaces'  BY DEF ThreadPlaces, UserOK, ConnectOK, SendOK, RetryOK, EndOK
<1>5. Alone'         BY DEF Alone
<1>6. UserInv'       BY DEF UserInv, Before
<1>7. ConnectInv'    BY DEF ConnectInv
<1>8. SendInv'       BY DEF SendInv
<1>9. EndInv'        BY DEF EndInv
<1>10. RetryInv'     BY DEF RetryInv
<1>11. ActiveEnds'   OBVIOUS
<1>12. FedEnds'      OBVIOUS
<1>13. HookedEnds'   OBVIOUS
<1>14. RetryingEnds' OBVIOUS
<1>15. CodeInv'      BY DEF CodeInv
<1>. QED BY <1>4, <1>5, <1>6, <1>7, <1>8, <1>9, <1>10, <1>11, <1>12, <1>13, <1>14, <1>15

----------------------------------------------------------------------------
(* The invariant holds, and the properties follow.                         *)

LEMMA UserStep ==
  ASSUME TypeInv, Inv, Scope, UserThread, Request => RetryMax = 0
  PROVE  Inv'
<1>. USE DEF Inv, ThreadPlaces, UserOK
<1>1. ~At(UI, "join_reconnect") /\ ~In(UI, Creating \cup Closing \cup {"end_data"})
  OBVIOUS
<1>2. At(UI, "end_capture") => ~output.data_active
  BY DEF UserInv
<1>3. \/ StreamStart(UI) \/ StreamStop \/ JoinConnect \/ StopTs \/ StopEvent
      \/ /\ UNCHANGED stream
         /\ \/ Start \/ Started \/ Stop \/ ForceStop \/ ForceStopCode \/ ActualStop
            \/ StopReconnect \/ ActualStart(UI) \/ CanBegin(UI) \/ Initialize(UI)
            \/ SignalStop(UI) \/ EndCaptureInactive(UI)
  <2>1. ~JoinReconnect
    BY <1>1 DEF JoinReconnect
  <2>2. ~EndCapture(UI)
    BY <1>2 DEF EndCapture
  <2>3. ~EndData(UI) /\ ~JoinEnd(UI) /\ ~CreateEnd(UI) /\ ~EndSignal(UI) /\ ~Reconnecting(UI)
    BY <1>1
       DEF EndData, JoinEnd, CreateEnd, EndSignal, Reconnecting, Reconnect,
           CreateReconnect
  <2>. HIDE DEF Inv
  <2>. QED BY <2>1, <2>2, <2>3 DEF UserThread, User, Starting, Ending
<1>4. Stop \/ ForceStop => RetryMax = 0
  BY DEF Stop, ForceStop
<1>. HIDE DEF Inv
<1>. QED BY <1>3, <1>4, UserStartKeeps, StreamStopKeeps, JoinConnectKeeps, StopTsKeeps,
         StopEventKeeps, StartKeeps, StartedKeeps, StopKeeps, ForceStopKeeps,
         ForceStopCodeKeeps, ActualStopKeeps, StopReconnectKeeps, UserActualStartKeeps,
         UserCanBeginKeeps, UserInitializeKeeps, UserSignalStopKeeps, UserInactiveKeeps

LEMMA ConnectStep ==
  ASSUME TypeInv, Inv, Scope, NEW c \in Connects, ConnectThread(c) PROVE Inv'
<1>. USE DEF Inv
<1>1. ConnectOK(c) /\ (At(c, "end_capture") => ~output.active)
  BY DEF ThreadPlaces, ConnectInv
<1>2. \/ InitConnect(c) \/ TryConnectFails(c) \/ InitSend(c)
      \/ SendMeta(c)    \/ ConnectDone(c)     \/ ConnectExit(c)
      \/ /\ UNCHANGED stream
         /\ \/ BeginCapture(c) \/ Activate(c) \/ SignalStart(c) \/ SignalStop(c)
            \/ EndCaptureInactive(c) \/ Reconnect(c) \/ CreateReconnect(c)
  <2>1. ~EndCapture(c)
    BY <1>1 DEF EndCapture
  <2>2. ~EndData(c) /\ ~JoinEnd(c) /\ ~CreateEnd(c) /\ ~EndSignal(c)
    BY <1>1 DEF ConnectOK, EndData, JoinEnd, CreateEnd, EndSignal
  <2>. HIDE DEF Inv
  <2>. QED BY <2>1, <2>2 DEF ConnectThread, Begin, Ending, Reconnecting
<1>. HIDE DEF Inv
<1>. QED BY <1>2, InitConnectKeeps, TryConnectFailsKeeps, InitSendKeeps, SendMetaKeeps,
         ConnectDoneKeeps, ConnectExitKeeps, BeginCaptureKeeps, ActivateKeeps,
         SignalStartKeeps, ConnectSignalStopKeeps, ConnectInactiveKeeps,
         ConnectReconnectKeeps, ConnectCreateReconnectKeeps
         DEF InitConnect, TryConnectFails, SendMeta, ConnectDone

LEMMA SendStep ==
  ASSUME TypeInv, Inv, Scope, NEW s \in Sends, SendThread(s) PROVE Inv'
<1>1. \/ SendStop(s) \/ SendFails(s) \/ SendEnd(s) \/ SendDone(s) \/ SendExit(s)
      \/ /\ UNCHANGED stream
         /\ \/ SignalStop(s) \/ EndCaptureInactive(s) \/ EndCapture(s) \/ EndData(s)
            \/ JoinEnd(s) \/ CreateEnd(s) \/ EndSignal(s) \/ Reconnect(s)
            \/ CreateReconnect(s)
  BY DEF SendThread, Ending, Reconnecting
<1>. QED BY <1>1, SendStopKeeps, SendFailsKeeps, SendEndKeeps, SendDoneKeeps,
            SendExitKeeps, SendSignalStopKeeps, SendInactiveKeeps, EndCaptureKeeps,
            EndDataKeeps, JoinEndKeeps, SendCreateEndKeeps, SendSignalKeeps,
            SendReconnectKeeps, SendCreateReconnectKeeps
            DEF SendStop, SendFails, SendEnd

LEMMA RetryStep ==
  ASSUME TypeInv, Inv, Scope, NEW r \in Reconnects, RetryThread(r) PROVE Inv'
<1>1. \/ StreamStart(r)
      \/ /\ UNCHANGED stream
         /\ \/ ReconnectActive(r) \/ ReconnectWait(r) \/ ReconnectDone(r) \/ ReconnectExit(r)
            \/ ActualStart(r) \/ CanBegin(r) \/ Initialize(r)
  BY DEF RetryThread, ReconnectThread, Starting
<1>. QED BY <1>1, RetryStartKeeps, ReconnectActiveKeeps, ReconnectWaitKeeps,
         ReconnectDoneKeeps, ReconnectExitKeeps, RetryActualStartKeeps, RetryCanBeginKeeps,
         RetryInitializeKeeps

LEMMA EndStep ==
  ASSUME TypeInv, Inv, Scope, NEW e \in Ends, EndThread(e) PROVE Inv'
<1>. QED BY EndStopKeeps, EndInactiveKeeps, EndEventKeeps, EndExitKeeps
         DEF EndThread, EndFinish

LEMMA InvStep ==
  ASSUME TypeInv, Inv, Scope, [Next]_vars, Request => RetryMax = 0
  PROVE  Inv'
<1>1. CASE UNCHANGED vars
  <2>. USE <1>1 DEF vars, control, Inv
  <2>1. ThreadPlaces' /\ Alone'
    BY DEF ThreadPlaces, UserOK, ConnectOK, SendOK, RetryOK, EndOK, Alone
  <2>2. UserInv' /\ CodeInv'
    BY DEF UserInv, CodeInv, Before
  <2>3. ConnectInv' /\ SendInv' /\ EndInv'
    BY DEF ConnectInv, SendInv, EndInv
  <2>4. RetryInv' /\ Live'
    BY DEF RetryInv
  <2>. QED BY <2>1, <2>2, <2>3, <2>4
<1>2. CASE Next
  BY <1>2, UserStep, ConnectStep, SendStep, RetryStep, EndStep DEF Next
<1>. QED BY <1>1, <1>2

LEMMA InvInit ==
  ASSUME Init, Scope PROVE Inv
<1>1. \A t \in Threads : pc[t].at = IF t = UI THEN "idle" ELSE "off"
  BY DEF Init, InitControl, Off
<1>2. /\ ~output.active /\ ~output.data_active /\ ~output.hooked /\ ~output.reconnecting
      /\ ~output.reconnect_stop /\ ~stream.stop_event /\ ~stream.posted
      /\ heard.starts = 0 /\ heard.requests = 0 /\ heard.code = None
  BY DEF Init, InitControl
<1>. USE <1>1, <1>2, OthersAre
<1>3. ThreadPlaces /\ Alone
  BY DEF ThreadPlaces, UserOK, ConnectOK, SendOK, RetryOK, EndOK, Alone
<1>4. UserInv /\ CodeInv
  BY DEF UserInv, CodeInv, Before, None
<1>5. ConnectInv /\ SendInv /\ EndInv /\ RetryInv
  BY DEF ConnectInv, SendInv, EndInv, RetryInv
<1>6. Live
  OBVIOUS
<1>. QED BY <1>3, <1>4, <1>5, <1>6 DEF Inv

\* What the user has asked for stays asked for: only obs_output_start forgets it.
LEMMA HeardKept ==
  ASSUME TypeInv, Next, ~Start
  PROVE  heard'.starts = heard.starts /\ heard'.requests >= heard.requests
<1>. USE DEF TypeInv, HeardType
<1>1. ASSUME NEW t \in Threads, Starting(t) \/ Begin(t) \/ Ending(t) \/ Reconnecting(t)
      PROVE  heard'.starts = heard.starts /\ heard'.requests = heard.requests
  <2>1. CASE Starting(t) \/ Begin(t)
    BY <2>1
       DEF Starting, ActualStart, CanBegin, Initialize, Begin, BeginCapture,
           Activate, SignalStart
  <2>2. CASE Ending(t)
    BY <2>2 DEF Ending, SignalStop, EndCaptureInactive, EndCapture, EndData, JoinEnd,
       CreateEnd, EndSignal, HearStop
  <2>3. CASE Reconnecting(t)
    BY <2>3 DEF Reconnecting, Reconnect, CreateReconnect
  <2>. QED BY <1>1, <2>1, <2>2, <2>3
<1>2. CASE UserThread
  <2>1. CASE Stop \/ ForceStop
    BY <2>1, BoundsAssumption DEF Stop, ForceStop, Request
  <2>2. CASE User /\ ~Stop /\ ~ForceStop
    BY <2>2, BoundsAssumption
       DEF User, Started, ForceStopCode, ActualStop, StopReconnect, JoinReconnect
  <2>. QED BY <1>1, <1>2, <2>1, <2>2, OthersAre, BoundsAssumption
           DEF UserThread, StreamStart, StreamStop, JoinConnect, StopTs, StopEvent
<1>3. ASSUME NEW c \in Connects, ConnectThread(c)
      PROVE  heard'.starts = heard.starts /\ heard'.requests = heard.requests
  BY <1>1, <1>3, OthersAre
     DEF ConnectThread, InitConnect, TryConnectFails, InitSend, SendMeta,
         ConnectDone, ConnectExit
<1>4. ASSUME NEW s \in Sends, SendThread(s)
      PROVE  heard'.starts = heard.starts /\ heard'.requests = heard.requests
  BY <1>1, <1>4, OthersAre
     DEF SendThread, SendStop, SendFails, SendEnd, SendDone, SendExit
<1>5. ASSUME NEW r \in Reconnects, RetryThread(r)
      PROVE  heard'.starts = heard.starts /\ heard'.requests = heard.requests
  BY <1>1, <1>5, OthersAre
     DEF RetryThread, StreamStart, ReconnectThread, ReconnectActive, ReconnectWait,
         ReconnectDone, ReconnectExit
<1>6. ASSUME NEW e \in Ends, EndThread(e)
      PROVE  heard'.starts = heard.starts /\ heard'.requests = heard.requests
  BY <1>6 DEF EndThread, EndStop, EndFinish, EndInactive, EndEvent, EndExit
<1>. QED BY <1>2, <1>3, <1>4, <1>5, <1>6, BoundsAssumption DEF Next

\* The user has stopped an output that may be reconnecting.
Asked == RetryMax # 0 /\ ~Unasked /\ heard.starts = 1

\* The first request comes from the invariant's states.
LEMMA AskedFirst ==
  ASSUME TypeInv, Inv, Scope, RetryMax # 0, Request PROVE Asked'
<1>1. /\ heard.starts \in 0 .. 1 /\ heard.requests \in Nat
      /\ heard'.requests = heard.requests + 1 /\ heard'.starts = heard.starts
  BY BoundsAssumption DEF Request, TypeInv, HeardType, Scope
<1>2. heard.starts # 0
  BY DEF Request, Inv, UserInv, Before, obs_output_active
<1>. QED BY <1>1, <1>2 DEF Asked

LEMMA AskedKept ==
  ASSUME TypeInv, Asked, Scope, [Next]_vars PROVE Asked'
<1>1. CASE UNCHANGED vars
  BY <1>1 DEF vars, control, Asked
<1>2. CASE Next
  <2>1. ~Start
    BY DEF Start, Asked, Scope
  <2>2. heard.requests \in Nat /\ heard'.requests \in Nat
    BY TypeStep, BoundsAssumption DEF TypeInv, HeardType
  <2>. QED BY <1>2, <2>1, <2>2, HeardKept DEF Asked
<1>. QED BY <1>1, <1>2

\* In the settings of Scope the threads of a stream follow one another, up to
\* the stop of an output that may be reconnecting: what each of them is doing
\* says what the others and the flags of the output can be.
THEOREM InvHolds ==
  ASSUME Scope PROVE Spec => [](TypeInv /\ (Inv \/ Asked))
<1>1. Init => TypeInv /\ Inv
  BY TypeInit, InvInit
<1>2. TypeInv /\ (Inv \/ Asked) /\ [Next]_vars => (TypeInv /\ (Inv \/ Asked))'
  BY TypeStep, InvStep, AskedFirst, AskedKept
<1>. QED BY <1>1, <1>2, PTL DEF Spec, Safety

\* Where the user does not stop an output that can reconnect, to the end.
QuietScope == Scope /\ (RetryMax = 0 \/ MaxStops = 0)

LEMMA QuietInv ==
  ASSUME QuietScope PROVE Spec => []Inv
<1>1. TypeInv => ~Asked
  BY DEF QuietScope, Asked, TypeInv, HeardType
<1>. QED BY <1>1, InvHolds, PTL DEF QuietScope

\* One thread at a time ends a data capture (output control's join, as the
\* streaming output uses it).
THEOREM OneEndingHolds ==
  ASSUME QuietScope PROVE Spec => []OneEnding
<1>1. Inv => OneEnding
  BY DEF Inv, Alone, OneEnding
<1>. QED BY <1>1, QuietInv, PTL

\* The flags of the output and what the encoders do agree, but for the steps
\* that some thread is in the middle of.
THEOREM CapturePairedHolds ==
  ASSUME QuietScope PROVE Spec => []CapturePaired
<1>1. Inv => CapturePaired
  <2>. SUFFICES ASSUME Inv PROVE CapturePaired
    OBVIOUS
  <2>. USE OthersAre DEF Inv
  <2>1. output.hooked /\ ~output.active => \E t \in Threads : At(t, "activate")
    OBVIOUS
  <2>2. output.active /\ ~output.hooked => \E t \in Ends : At(t, "end_inactive")
    OBVIOUS
  <2>3. ASSUME output.active, ~output.data_active
        PROVE  \E t \in Threads : \/ At(t, "join_end") \/ At(t, "create_end")
                                  \/ At(t, "end")      \/ At(t, "end_inactive")
    <3>1. CASE Some(Ends, {"end", "end_inactive"})
      BY <3>1
    <3>2. CASE Some(Sends, Sending \cup Creating)
      BY <2>3, <3>2 DEF SendInv
    <3>. QED BY <2>3, <3>1, <3>2
  <2>. QED BY <2>1, <2>2, <2>3 DEF CapturePaired
<1>. QED BY <1>1, QuietInv, PTL

\* While the listeners take the output for streaming or reconnecting, packets
\* reach the server or some thread is at work to end the stream or to connect.
THEOREM StreamGoesOnHolds ==
  ASSUME QuietScope PROVE Spec => []StreamGoesOn
<1>1. Inv => StreamGoesOn
  <2>. SUFFICES ASSUME Inv, obs_output_active
                PROVE  \E t \in Threads \ {UI} :
                         /\ ~At(t, "off")
                         /\ At(t, "send") => t = handle["send"] /\ PacketSent
    BY DEF StreamGoesOn
  <2>. USE OthersAre DEF Inv
  <2>1. CASE output.active
    <3>1. CASE Some(Ends, {"end", "end_inactive"})
      BY <3>1
    <3>2. CASE Some(Sends, Sending \cup Creating)
      BY <2>1, <3>2 DEF SendInv, Alone, PacketSent
    <3>. QED BY <2>1, <3>1, <3>2
  <2>2. CASE output.reconnecting
    <3>1. CASE ~AllIn(Reconnects, RetryQuiet)
      BY <3>1 DEF ThreadPlaces, RetryOK
    <3>2. CASE ~AllIn(Connects, {"off", "connect_done", "connect_exit"})
      BY <3>2 DEF ThreadPlaces, ConnectOK
    <3>3. CASE Some(Sends, {"create_reconnect"})
      BY <3>3
    <3>. QED BY <2>2, <3>1, <3>2, <3>3
  <2>. QED BY <2>1, <2>2 DEF obs_output_active
<1>. QED BY <1>1, QuietInv, PTL

\* A stream that ends without the user asking for it ends with an error code:
\* the SUCCESS that obs_output_actual_start resets stop_code to at every attempt
\* to reconnect is not what the listeners of "stop" hear.
THEOREM NoSilentLossHolds ==
  ASSUME Scope PROVE Spec => []NoSilentLoss
<1>1. TypeInv /\ (Inv \/ Asked) => NoSilentLoss
  BY BoundsAssumption DEF TypeInv, HeardType, Inv, CodeInv, NoSilentLoss, Asked
<1>. QED BY <1>1, InvHolds, PTL

----------------------------------------------------------------------------
(* One connection.  The turn to begin one is handed on: from the user      *)
(* interface to the connect thread, from it to the send thread, from       *)
(* either, once it has nothing else to do, to the reconnect thread, and    *)
(* from there to the next connect thread.                                  *)

\* The settings: obs_output_start is called once; if the output reconnects then
\* the delay outlasts the threads of the connection that was lost, and a server
\* that was reached takes the metadata.  The user may stop the stream at any time.
OneScope == MaxStarts = 1 /\ (RetryMax = 0 \/ (SlowTimer /\ "meta" \notin Faults))

ConnectEarly == {"init_connect", "try_connect", "send_meta", "begin_capture", "activate"}
ConnectFails == {"signal_stop", "end_capture", "output_reconnect", "create_reconnect"}
RetryBusy    == {"reconnect", "reconnect_wait"} \cup Beginning
DataEnding   == {"end_capture", "end_data", "join_end", "create_end"}
NeverConnect == {"send", "end_data", "join_end", "create_end", "hear_stop"}
SendFinish   == {"signal_stop", "hear_stop", "output_reconnect", "create_reconnect"}
                  \cup DataEnding

\* A connect thread or a reconnect thread that has the turn.
Connecting(c) == In(c, ConnectEarly \cup ConnectFails)
Retrying(r)   == In(r, RetryBusy)

\* The send thread that is going to reconnect, as far as it knows.
Lost(s) == \/ In(s, {"signal_stop", "output_reconnect", "create_reconnect"})
           \/ In(s, DataEnding) /\ Arg(s) # "signal"
           \/ At(s, "send_end") /\ ~stream.stop_event

UserTurn ==
  /\ Before => /\ AllOff(Connects) /\ AllOff(Sends) /\ AllOff(Reconnects)
               /\ ~output.active /\ ~output.reconnecting
  /\ At(UI, "start_plugin") => ~output.active
  /\ ~At(UI, "idle") => heard.starts = 1
  /\ At(UI, "signal_stop") => Arg(UI) = "SUCCESS"
  /\ In(UI, DataEnding) => Arg(UI) = "signal"
  /\ ~In(UI, {"output_reconnect", "create_reconnect"})

ConnectTurn ==
  \A c \in Connects :
    /\ In(c, {"init_connect", "try_connect"}) => AllOff(Sends)
    /\ In(c, ConnectFails) => (RetryMax # 0 => AllOff(Sends))
    /\ Connecting(c) => ~output.active /\ \A r \in Reconnects : ~Retrying(r)
    /\ At(c, "create_reconnect") => RetryMax # 0
    /\ ~In(c, NeverConnect)

SendTurn ==
  \A s \in Sends :
    /\ In(s, SendEnded) \/ \A r \in Reconnects : ~Retrying(r)
    /\ Lost(s) => \A c \in Connects : ~Connecting(c)
    /\ At(s, "create_reconnect") => RetryMax # 0
    /\ In(s, SendFinish) => pc[s].ret = "send_done"

RetryTurn ==
  \A r \in Reconnects :
    /\ ~At(r, "off") => RetryMax # 0
    /\ Retrying(r) => \A q \in Reconnects : q # r => ~Retrying(q)
    /\ In(r, Beginning) => AllOff(Connects) /\ AllOff(Sends)
    /\ At(r, "start_plugin") => ~output.active

Turns == /\ OneAtATime(Connects) /\ OneAtATime(Sends)
         /\ UserTurn /\ ConnectTurn /\ SendTurn /\ RetryTurn

USE DEF Connecting, Retrying, ConnectEarly, ConnectFails, RetryBusy, DataEnding,
        NeverConnect, SendFinish, Before

\* What Turns is about changes in thread t alone.
Only(t) == /\ \A u \in Threads \ Ends : u # t => pc'[u] = pc[u]
           /\ heard'.starts = heard.starts

\* A step of the send thread keeps the turn, unless it takes it.
LEMMA SendFrame ==
  ASSUME Turns, NEW s \in Sends, ~At(s, "off"), Only(s), output'.active = output.active,
         In(s, SendEnded) => In(s, SendEnded)',
         Lost(s)' => \A c \in Connects : ~Connecting(c),
         At(s, "create_reconnect")' => RetryMax # 0,
         In(s, SendFinish)' => pc'[s].ret = "send_done"
  PROVE  Turns'
<1>1. \A u \in Sends : u # s => At(u, "off") /\ At(u, "off")'
  BY OthersAre DEF Only, Turns
<1>. USE <1>1, OthersAre DEF Turns, Only
<1>2. OneAtATime(Connects)' /\ OneAtATime(Sends)'  OBVIOUS
<1>3. UserTurn'     BY DEF UserTurn
<1>4. ConnectTurn'  BY DEF ConnectTurn
<1>5. SendTurn'     BY DEF SendTurn, Lost
<1>6. RetryTurn'    BY DEF RetryTurn
<1>. QED BY <1>2, <1>3, <1>4, <1>5, <1>6

\* A step of the connect thread that creates none.
LEMMA ConnectFrame ==
  ASSUME Turns, NEW c \in Connects, ~At(c, "off"), Only(c),
         stream'.stop_event = stream.stop_event,
         output'.active => output.active \/ (Connecting(c) /\ ~Connecting(c)'),
         In(c, {"init_connect", "try_connect"})' => In(c, {"init_connect", "try_connect"}),
         In(c, ConnectFails)' => (RetryMax # 0 => AllOff(Sends)),
         Connecting(c)' => Connecting(c),
         At(c, "create_reconnect")' => RetryMax # 0,
         ~In(c, NeverConnect)'
  PROVE  Turns'
<1>1. \A u \in Connects : u # c => At(u, "off") /\ At(u, "off")'
  BY OthersAre DEF Only, Turns
<1>. USE <1>1, OthersAre DEF Turns, Only
<1>2. OneAtATime(Connects)' /\ OneAtATime(Sends)'  OBVIOUS
<1>3. UserTurn'     BY DEF UserTurn
<1>4. ConnectTurn'  BY DEF ConnectTurn
<1>5. SendTurn'     BY DEF SendTurn, Lost
<1>6. RetryTurn'    BY DEF RetryTurn
<1>. QED BY <1>2, <1>3, <1>4, <1>5, <1>6

\* A step of the reconnect thread that creates none.
LEMMA RetryFrame ==
  ASSUME Turns, NEW r \in Reconnects, ~At(r, "off"), Only(r),
         stream'.stop_event = stream.stop_event,
         output'.active = output.active, Retrying(r)' => Retrying(r),
         In(r, Beginning)' => AllOff(Connects) /\ AllOff(Sends),
         At(r, "start_plugin")' => ~output.active
  PROVE  Turns'
<1>. USE OthersAre DEF Turns, Only
<1>1. OneAtATime(Connects)' /\ OneAtATime(Sends)'  OBVIOUS
<1>2. UserTurn'     BY DEF UserTurn
<1>3. ConnectTurn'  BY DEF ConnectTurn
<1>4. SendTurn'     BY DEF SendTurn, Lost
<1>5. RetryTurn'    BY DEF RetryTurn
<1>. QED BY <1>1, <1>2, <1>3, <1>4, <1>5

\* A step of the user interface that creates none but a thread that ends.
LEMMA UserTurnFrame ==
  ASSUME Turns, \A u \in Threads \ Ends : u # UI => pc'[u] = pc[u],
         output'.active = output.active, stream.stop_event => stream'.stop_event, UserTurn'
  PROVE  Turns'
<1>. USE OthersAre DEF Turns
<1>1. OneAtATime(Connects)' /\ OneAtATime(Sends)'  OBVIOUS
<1>2. ConnectTurn'  BY DEF ConnectTurn
<1>3. SendTurn'     BY DEF SendTurn, Lost
<1>4. RetryTurn'    BY DEF RetryTurn
<1>. QED BY <1>1, <1>2, <1>3, <1>4

\* The thread that ends a data capture.
LEMMA EndTurns ==
  ASSUME TypeInv, Turns, NEW e \in Ends, EndThread(e) PROVE Turns'
<1>1. /\ \A u \in Threads \ Ends : pc'[u] = pc[u]
      /\ heard' = heard /\ stream' = stream
  BY PcMoves, OthersAre
     DEF TypeInv, EndThread, EndFinish, EndStop, EndInactive, EndEvent, EndExit,
         Moves
<1>2. (output'.active => output.active) /\ output'.reconnecting = output.reconnecting
  BY
     DEF TypeInv, OutputType, EndThread, EndFinish, EndStop, EndInactive, EndEvent,
         EndExit
<1>. USE <1>1, <1>2, OthersAre DEF Turns
<1>3. OneAtATime(Connects)' /\ OneAtATime(Sends)'  OBVIOUS
<1>4. UserTurn'     BY DEF UserTurn
<1>5. ConnectTurn'  BY DEF ConnectTurn
<1>6. SendTurn'     BY DEF SendTurn, Lost
<1>7. RetryTurn'    BY DEF RetryTurn
<1>. QED BY <1>3, <1>4, <1>5, <1>6, <1>7

\* What a thread does that ends a data capture or reconnects.
LEMMA EndingMoves ==
  ASSUME TypeInv, NEW t \in Threads, Ending(t) \/ Reconnect(t)
  PROVE  /\ Only(t) /\ output'.active = output.active /\ ~At(t, "off")
         /\ \/ /\ At(t, "signal_stop") /\ In(t, {"end_capture"})' /\ pc'[t].ret = pc[t].ret
               /\ Arg(t) = "SUCCESS" => pc'[t].arg = "signal"
            \/ /\ (At(t, "end_capture") /\ Arg(t) = "signal") \/ At(t, "hear_stop")
               /\ pc'[t].at = pc[t].ret
            \/ /\ At(t, "end_capture") \/ At(t, "create_end")
               /\ Arg(t) # "signal" /\ At(t, "output_reconnect")' /\ pc'[t].ret = pc[t].ret
            \/ /\ At(t, "end_capture") /\ output.active
               /\ At(t, "end_data")' /\ pc'[t].arg = Arg(t) /\ pc'[t].ret = pc[t].ret
            \/ /\ \/ At(t, "end_data") /\ At(t, "join_end")'
                  \/ At(t, "join_end") /\ At(t, "create_end")'
               /\ pc'[t].arg = Arg(t) /\ pc'[t].ret = pc[t].ret
            \/ At(t, "create_end") /\ At(t, "hear_stop")' /\ pc'[t].ret = pc[t].ret
            \/ /\ At(t, "output_reconnect") /\ pc'[t].ret = pc[t].ret
               /\ \/ In(t, {"end_capture"})' /\ pc'[t].arg = "signal"
                  \/ At(t, "create_reconnect")' /\ RetryMax # 0
<1>1. CASE SignalStop(t)
  <2>1. PICK a \in {"signal", "quiet"} :
          /\ Moves(t, "end_capture", a, pc[t].ret)
          /\ Arg(t) = "SUCCESS" => a = "signal"
    BY <1>1, PcMoves DEF TypeInv, SignalStop, can_reconnect
  <2>2. /\ At(t, "signal_stop") /\ heard' = heard
        /\ output'.active = output.active
    BY <1>1 DEF SignalStop, TypeInv, OutputType
  <2>. QED BY <2>1, <2>2 DEF Moves, Only
<1>2. CASE EndCaptureInactive(t)
  <2>1. \/ Arg(t) = "signal" /\ Moves(t, pc[t].ret, None, "off")
        \/ Arg(t) # "signal" /\ Moves(t, "output_reconnect", Arg(t), pc[t].ret)
    BY <1>2, PcMoves DEF TypeInv, EndCaptureInactive
  <2>2. output'.active = output.active /\ heard'.starts = heard.starts
    BY <1>2 DEF EndCaptureInactive, HearStop, TypeInv, OutputType, HeardType
  <2>. QED BY <1>2, <2>1, <2>2 DEF EndCaptureInactive, Moves, Only
<1>3. CASE EndCapture(t) \/ JoinEnd(t)
  <2>1. \/ EndCapture(t) /\ Moves(t, "end_data", Arg(t), pc[t].ret)
        \/ JoinEnd(t) /\ Moves(t, "create_end", Arg(t), pc[t].ret)
    BY <1>3, PcMoves DEF TypeInv, EndCapture, JoinEnd
  <2>. QED BY <1>3, <2>1 DEF EndCapture, JoinEnd, Moves, Only
<1>4. CASE EndData(t)
  <2>1. Moves(t, "join_end", Arg(t), pc[t].ret)
    BY <1>4, PcMoves DEF TypeInv, EndData
  <2>2. output'.active = output.active /\ heard' = heard
    BY <1>4 DEF EndData, TypeInv, OutputType
  <2>. QED BY <1>4, <2>1, <2>2 DEF EndData, Moves, Only
<1>5. CASE CreateEnd(t)
  <2>1. \E e \in Ends :
          \/ Arg(t) # "signal" /\ Spawns(t, "output_reconnect", Arg(t), pc[t].ret, e, "end")
          \/ Arg(t) = "signal" /\ Spawns(t, "hear_stop", Arg(t), pc[t].ret, e, "end")
    BY <1>5, CreateSpawns, OthersAre DEF TypeInv, CreateEnd
  <2>2. output'.active = output.active /\ heard' = heard
    BY <1>5 DEF CreateEnd, TypeInv, OutputType
  <2>. QED BY <1>5, <2>1, <2>2 DEF CreateEnd, Spawns, Only
<1>6. CASE EndSignal(t)
  <2>1. Moves(t, pc[t].ret, None, "off")
    BY <1>6, PcMoves DEF TypeInv, EndSignal
  <2>2. output'.active = output.active /\ heard'.starts = heard.starts
    BY <1>6 DEF EndSignal, HearStop, TypeInv, OutputType, HeardType
  <2>. QED BY <1>6, <2>1, <2>2 DEF EndSignal, Moves, Only
<1>7. CASE Reconnect(t)
  <2>1. \/ Moves(t, "end_capture", "signal", pc[t].ret)
        \/ RetryMax # 0 /\ Moves(t, "create_reconnect", Arg(t), pc[t].ret)
    BY <1>7, ReconnectMoves
  <2>2. output'.active = output.active /\ heard' = heard
    BY <1>7 DEF Reconnect, TypeInv, OutputType
  <2>. QED BY <1>7, <2>1, <2>2 DEF Reconnect, Moves, Only
<1>. QED BY <1>1, <1>2, <1>3, <1>4, <1>5, <1>6, <1>7 DEF Ending

\* A thread returns to a place where it has not got the turn.
LEMMA ReturnsAre ==
  ASSUME TypeInv, NEW t \in Threads
  PROVE  pc[t].ret \in {"off", "idle", "started", "connect_done", "send_done",
                        "reconnect_done"}
  BY DEF TypeInv, PcOK, Returns

\* The send thread takes the turn when sending fails, and only when no
\* connect thread is at work any more.
LEMMA SendTurns ==
  ASSUME TypeInv, Turns, NEW s \in Sends, SendThread(s) PROVE Turns'
<1>. s \in Threads
  BY OthersAre
<1>1. /\ In(s, SendEnded) \/ \A r \in Reconnects : ~Retrying(r)
      /\ Lost(s) => \A c \in Connects : ~Connecting(c)
      /\ In(s, SendFinish) => pc[s].ret = "send_done"
      /\ output.active => \A c \in Connects : ~Connecting(c)
      /\ \A u \in Sends : u # s /\ ~At(s, "off") => At(u, "off")
  BY DEF Turns, SendTurn, ConnectTurn
<1>2. CASE SendStop(s) \/ SendFails(s)
  <2>1. At(s, "send") /\ Moves(s, "send_end", Arg(s), pc[s].ret)
    BY <1>2, PcMoves DEF TypeInv, SendStop, SendFails
  <2>2. Only(s) /\ output' = output /\ stream' = stream
    BY <1>2, <2>1 DEF SendStop, SendFails, Moves, Only
  <2>3. Lost(s)' => \A c \in Connects : ~Connecting(c)
    BY <1>1, <1>2, <2>1, <2>2 DEF SendStop, SendFails, PacketSent, Moves, Lost
  <2>. QED BY <1>2, <2>1, <2>2, <2>3, SendFrame DEF Moves
<1>3. CASE SendEnd(s)
  <2>1. \/ stream.stop_event /\ Moves(s, "end_capture", "signal", "send_done")
        \/ ~stream.stop_event /\ Moves(s, "signal_stop", "DISCONNECTED", "send_done")
    BY <1>3, PcMoves DEF TypeInv, SendEnd
  <2>2. At(s, "send_end") /\ Only(s) /\ output' = output
    BY <1>3, <2>1 DEF SendEnd, Moves, Only
  <2>3. Lost(s)' => Lost(s)
    BY <2>1, <2>2 DEF Moves, Lost
  <2>. QED BY <1>1, <2>1, <2>2, <2>3, SendFrame DEF Moves
<1>4. CASE SendDone(s) \/ SendExit(s)
  <2>1. \/ At(s, "send_done") /\ Moves(s, "send_exit", Arg(s), pc[s].ret)
        \/ At(s, "send_exit") /\ Moves(s, "off", None, "off")
    BY <1>4, PcMoves DEF TypeInv, SendDone, SendExit
  <2>2. Only(s) /\ output' = output
    BY <1>4, <2>1 DEF SendDone, SendExit, Moves, Only
  <2>3. ~Lost(s)'
    BY <2>1 DEF Moves, Lost
  <2>. QED BY <2>1, <2>2, <2>3, SendFrame DEF Moves
<1>5. CASE (Ending(s) \/ Reconnect(s)) /\ stream' = stream
  <2>1. Lost(s)' => Lost(s)
    BY <1>5, <1>1, EndingMoves, ReturnsAre DEF Lost
  <2>. QED BY <1>5, <1>1, <2>1, EndingMoves, ReturnsAre, SendFrame
<1>6. CASE CreateReconnect(s) /\ stream' = stream
  <2>1. At(s, "create_reconnect") /\ heard' = heard /\ output' = output
    BY <1>6 DEF CreateReconnect
  <2>2. \E r \in Reconnects : Spawns(s, pc[s].ret, None, "off", r, "reconnect")
    BY <1>6, CreateSpawns, OthersAre DEF TypeInv, CreateReconnect
  <2>3. /\ pc[s].ret = "send_done" /\ \A c \in Connects : ~Connecting(c)
        /\ RetryMax # 0 /\ \A r \in Reconnects : ~Retrying(r)
        /\ \A u \in Sends : u # s => At(u, "off")
    BY <1>1, <2>1 DEF Lost, Turns, SendTurn
  <2>. USE <1>6, <2>1, <2>2, <2>3, OthersAre DEF Spawns, Turns
  <2>4. OneAtATime(Connects)' /\ OneAtATime(Sends)'  OBVIOUS
  <2>5. UserTurn'     BY DEF UserTurn
  <2>6. ConnectTurn'  BY DEF ConnectTurn
  <2>7. SendTurn'     BY DEF SendTurn, Lost
  <2>8. RetryTurn'    BY DEF RetryTurn
  <2>. QED BY <2>4, <2>5, <2>6, <2>7, <2>8
<1>. QED BY <1>2, <1>3, <1>4, <1>5, <1>6
         DEF SendThread, Reconnecting, SendStop, SendFails, SendEnd

\* A connect thread has the turn until the capture has begun or it has told
\* the reconnect thread that it failed.
LEMMA ConnectTurns ==
  ASSUME TypeInv, Turns, OneScope, NEW c \in Connects, ConnectThread(c) PROVE Turns'
<1>. c \in Threads
  BY OthersAre
<1>1. /\ In(c, {"init_connect", "try_connect"}) => AllOff(Sends)
      /\ In(c, ConnectFails) => (RetryMax # 0 => AllOff(Sends))
      /\ Connecting(c) => ~output.active /\ \A r \in Reconnects : ~Retrying(r)
      /\ At(c, "create_reconnect") => RetryMax # 0
      /\ ~In(c, NeverConnect)
      /\ \A u \in Connects : u # c /\ ~At(c, "off") => At(u, "off")
  BY DEF Turns, ConnectTurn
<1>2. CASE InitConnect(c) \/ TryConnectFails(c) \/ ConnectDone(c)
  <2>1. \/ At(c, "init_connect") /\ Moves(c, "try_connect", Arg(c), pc[c].ret)
        \/ At(c, "try_connect") /\ Moves(c, "signal_stop", "ERROR", "connect_done")
        \/ At(c, "connect_done") /\ Moves(c, "connect_exit", Arg(c), pc[c].ret)
    BY <1>2, PcMoves DEF TypeInv, InitConnect, TryConnectFails, ConnectDone
  <2>2. Only(c) /\ output' = output /\ stream' = stream
    BY <1>2, <2>1 DEF InitConnect, TryConnectFails, ConnectDone, Moves, Only
  <2>. QED BY <1>1, <2>1, <2>2, ConnectFrame DEF Moves
<1>3. CASE SendMeta(c)
  <2>1. /\ At(c, "send_meta")
        /\ \/ Moves(c, "begin_capture", None, "connect_done")
           \/ RetryMax = 0 /\ Moves(c, "signal_stop", "DISCONNECTED", "connect_done")
    BY <1>3, PcMoves DEF TypeInv, SendMeta, OneScope
  <2>2. Only(c) /\ output' = output /\ stream' = stream
    BY <1>3, <2>1 DEF SendMeta, Moves, Only
  <2>. QED BY <1>1, <2>1, <2>2, ConnectFrame DEF Moves
<1>4. CASE ConnectExit(c)
  <2>1. At(c, "connect_exit") /\ Moves(c, "off", None, "off")
    BY <1>4, PcMoves DEF TypeInv, ConnectExit
  <2>2. Only(c) /\ output' = output
    BY <1>4, <2>1 DEF ConnectExit, Moves, Only
  <2>3. stream'.stop_event = stream.stop_event
    BY <1>4 DEF ConnectExit, TypeInv, StreamType
  <2>. QED BY <1>1, <2>1, <2>2, <2>3, ConnectFrame DEF Moves
<1>5. CASE Begin(c) /\ stream' = stream
  <2>1. \/ BeginCapture(c) /\ In(c, {"begin_capture"}) /\ Moves(c, "activate", Arg(c), pc[c].ret)
        \/ Activate(c) /\ At(c, "activate") /\ Moves(c, "signal_start", Arg(c), pc[c].ret)
        \/ SignalStart(c) /\ At(c, "signal_start") /\ Moves(c, pc[c].ret, "ok", "off")
    BY <1>1, <1>5, PcMoves DEF TypeInv, Begin, BeginCapture, Activate, SignalStart
  <2>2. heard'.starts = heard.starts
    BY <1>5 DEF Begin, BeginCapture, Activate, SignalStart, TypeInv, HeardType
  <2>3. output'.active = output.active \/ Activate(c)
    BY <1>5 DEF Begin, BeginCapture, SignalStart, TypeInv, OutputType
  <2>4. Only(c) /\ ~At(c, "off")
    BY <2>1, <2>2 DEF Moves, Only
  <2>. QED BY <1>1, <1>5, <2>1, <2>3, <2>4, ReturnsAre, ConnectFrame DEF Moves, Activate
<1>6. CASE (Ending(c) \/ Reconnect(c)) /\ stream' = stream
  BY <1>6, <1>1, EndingMoves, ReturnsAre, ConnectFrame
<1>7. CASE InitSend(c)
  <2>1. At(c, "try_connect") /\ heard' = heard /\ output' = output
    BY <1>7 DEF InitSend
  <2>2. stream'.stop_event = stream.stop_event
    BY <1>7 DEF InitSend, TypeInv, StreamType
  <2>3. \E s \in Sends : Spawns(c, "send_meta", None, "off", s, "send")
    BY <1>7, CreateSpawns, OthersAre DEF TypeInv, InitSend
  <2>. USE <1>1, <2>1, <2>2, <2>3, OthersAre DEF Spawns, Turns
  <2>4. OneAtATime(Connects)' /\ OneAtATime(Sends)'  OBVIOUS
  <2>5. UserTurn'     BY DEF UserTurn
  <2>6. ConnectTurn'  BY DEF ConnectTurn
  <2>7. SendTurn'     BY DEF SendTurn, Lost
  <2>8. RetryTurn'    BY DEF RetryTurn
  <2>. QED BY <2>4, <2>5, <2>6, <2>7, <2>8
<1>8. CASE CreateReconnect(c) /\ stream' = stream
  <2>1. At(c, "create_reconnect") /\ heard' = heard /\ output' = output
    BY <1>8 DEF CreateReconnect
  <2>2. \E r \in Reconnects : Spawns(c, pc[c].ret, None, "off", r, "reconnect")
    BY <1>8, CreateSpawns, OthersAre DEF TypeInv, CreateReconnect
  <2>. USE <1>1, <1>8, <2>1, <2>2, ReturnsAre, OthersAre DEF Spawns, Turns
  <2>3. OneAtATime(Connects)' /\ OneAtATime(Sends)'  OBVIOUS
  <2>4. UserTurn'     BY DEF UserTurn
  <2>5. ConnectTurn'  BY DEF ConnectTurn
  <2>6. SendTurn'     BY DEF SendTurn, Lost
  <2>7. RetryTurn'    BY DEF RetryTurn
  <2>. QED BY <2>3, <2>4, <2>5, <2>6, <2>7
<1>. QED BY <1>2, <1>3, <1>4, <1>5, <1>6, <1>7, <1>8
         DEF ConnectThread, Reconnecting, InitConnect, TryConnectFails, SendMeta, ConnectDone

\* The reconnect thread starts a connection after a delay that outlasts the
\* threads of the last one.
LEMMA RetryTurns ==
  ASSUME TypeInv, Turns, OneScope, NEW r \in Reconnects, RetryThread(r) PROVE Turns'
<1>. r \in Threads
  BY OthersAre
<1>1. /\ ~At(r, "off") => RetryMax # 0
      /\ In(r, Beginning) => AllOff(Connects) /\ AllOff(Sends)
      /\ Retrying(r) => \A q \in Reconnects : q # r => ~Retrying(q)
      /\ Retrying(r) => AllIn(Sends, SendEnded)
      /\ At(r, "start_plugin") => ~output.active
  BY DEF Turns, RetryTurn, SendTurn
<1>2. CASE (ReconnectActive(r) \/ ReconnectDone(r) \/ ReconnectExit(r)) /\ stream' = stream
  <2>1. \/ At(r, "reconnect") /\ Moves(r, "reconnect_wait", Arg(r), pc[r].ret)
        \/ At(r, "reconnect_done") /\ Moves(r, "reconnect_exit", Arg(r), pc[r].ret)
        \/ At(r, "reconnect_exit") /\ Moves(r, "off", None, "off")
    BY <1>2, PcMoves DEF TypeInv, ReconnectActive, ReconnectDone, ReconnectExit
  <2>2. output'.active = output.active /\ heard' = heard
    BY <1>2 DEF ReconnectActive, ReconnectDone, ReconnectExit, TypeInv, OutputType
  <2>. QED BY <1>1, <1>2, <2>1, <2>2, RetryFrame DEF Moves, Only
<1>3. CASE ReconnectWait(r) /\ stream' = stream
  <2>1. /\ At(r, "reconnect_wait") /\ output' = output /\ heard' = heard
        /\ \/ Moves(r, "reconnect_done", Arg(r), pc[r].ret)
           \/ (SlowTimer => Settled) /\ Moves(r, "actual_start", None, "reconnect_done")
    BY <1>3, PcMoves DEF TypeInv, ReconnectWait
  <2>2. Settled => AllOff(Sends) /\ AllOff(Connects)
    BY <1>1, <2>1, StreamAssumption DEF Settled, Turns, ConnectTurn
  <2>. QED BY <1>1, <1>3, <2>1, <2>2, RetryFrame DEF Moves, Only, OneScope
<1>4. CASE Starting(r) /\ stream' = stream
  <2>1. /\ In(r, Beginning) /\ heard' = heard
        /\ \/ Moves(r, "can_begin", Arg(r), pc[r].ret)
           \/ Moves(r, pc[r].ret, "failed", "off")
           \/ Moves(r, "initialize", Arg(r), pc[r].ret)
           \/ ~output.active /\ Moves(r, "start_plugin", Arg(r), pc[r].ret)
    BY <1>4, PcMoves DEF TypeInv, Starting, ActualStart, CanBegin, Initialize
  <2>2. output'.active = output.active
    BY <1>4 DEF TypeInv, OutputType, Starting, ActualStart, CanBegin, Initialize
  <2>3. Only(r) /\ ~At(r, "off")
    BY <2>1 DEF Moves, Only
  <2>. QED BY <1>1, <1>4, <2>1, <2>2, <2>3, ReturnsAre, RetryFrame DEF Moves
<1>5. CASE StreamStart(r)
  <2>1. At(r, "start_plugin") /\ heard' = heard /\ output' = output
    BY <1>5 DEF StreamStart
  <2>2. stream'.stop_event = stream.stop_event
    BY <1>5 DEF StreamStart, TypeInv, StreamType
  <2>3. \E c \in Connects : Spawns(r, pc[r].ret, "ok", "off", c, "init_connect")
    BY <1>5, CreateSpawns, OthersAre DEF TypeInv, StreamStart
  <2>. USE <1>1, <2>1, <2>2, <2>3, ReturnsAre, OthersAre DEF Spawns, Turns
  <2>4. OneAtATime(Connects)' /\ OneAtATime(Sends)'  OBVIOUS
  <2>5. UserTurn'     BY DEF UserTurn
  <2>6. ConnectTurn'  BY DEF ConnectTurn
  <2>7. SendTurn'     BY DEF SendTurn, Lost
  <2>8. RetryTurn'    BY DEF RetryTurn
  <2>. QED BY <2>4, <2>5, <2>6, <2>7, <2>8
<1>. QED BY <1>2, <1>3, <1>4, <1>5
         DEF RetryThread, ReconnectThread, ReconnectActive, ReconnectDone, ReconnectExit

\* The user interface begins the first connection and ends captures, but it
\* never reconnects.
LEMMA UserTurns ==
  ASSUME TypeInv, Turns, OneScope, UserThread PROVE Turns'
<1>. UI \in Threads /\ UI \notin Ends
  BY OthersAre
<1>1. UserTurn
  BY DEF Turns
<1>2. CASE Start /\ stream' = stream
  <2>1. At(UI, "idle") /\ heard.starts = 0 /\ Moves(UI, "actual_start", None, "started")
    BY <1>2, PcMoves DEF TypeInv, Start, OneScope, HeardType
  <2>2. heard'.starts = 1 /\ output' = output
    BY <1>2, <2>1 DEF Start
  <2>. QED BY <1>1, <1>2, <2>1, <2>2, OthersAre, UserTurnFrame DEF Moves, UserTurn
<1>3. CASE Starting(UI) /\ stream' = stream
  <2>1. /\ In(UI, Beginning) /\ heard' = heard
        /\ \/ Moves(UI, "can_begin", Arg(UI), pc[UI].ret)
           \/ Moves(UI, pc[UI].ret, "failed", "off")
           \/ Moves(UI, "initialize", Arg(UI), pc[UI].ret)
           \/ ~output.active /\ Moves(UI, "start_plugin", Arg(UI), pc[UI].ret)
    BY <1>3, PcMoves DEF TypeInv, Starting, ActualStart, CanBegin, Initialize
  <2>2. output'.active = output.active /\ output'.reconnecting = output.reconnecting
    BY <1>3 DEF TypeInv, OutputType, Starting, ActualStart, CanBegin, Initialize
  <2>3. UserTurn'
    BY <1>1, <2>1, <2>2, OthersAre, ReturnsAre DEF Moves, UserTurn
  <2>. QED BY <1>3, <2>1, <2>2, <2>3, UserTurnFrame DEF Moves
<1>4. CASE (Ending(UI) \/ Reconnect(UI)) /\ stream' = stream
  <2>1. UserTurn'
    BY <1>1, <1>4, EndingMoves, ReturnsAre, OthersAre DEF UserTurn, Only
  <2>. QED BY <1>4, <2>1, EndingMoves, UserTurnFrame DEF Only
<1>5. CASE (Stop \/ ForceStop) /\ stream' = stream
  <2>1. At(UI, "idle") /\ ~Before /\ heard'.starts = heard.starts /\ output' = output
    BY <1>1, <1>5, OthersAre
       DEF Stop, ForceStop, Request, obs_output_active, UserTurn, TypeInv, HeardType
  <2>2. heard.starts = 1
    BY <2>1 DEF TypeInv, HeardType, OneScope
  <2>3. \/ Moves(UI, "force_stop", None, "idle")
        \/ Moves(UI, "actual_stop", "stop", "idle")
    BY <1>5, <2>1, PcMoves DEF TypeInv, Stop, ForceStop
  <2>4. UserTurn'
    BY <2>1, <2>2, <2>3 DEF Moves, UserTurn
  <2>. QED BY <1>5, <2>1, <2>3, <2>4, OthersAre, UserTurnFrame DEF Moves
<1>6. CASE \/ /\ Started \/ ForceStopCode \/ ActualStop \/ StopReconnect \/ JoinReconnect
              /\ stream' = stream
           \/ StreamStop \/ JoinConnect \/ StopTs \/ StopEvent
  <2>1. /\ ~At(UI, "idle") /\ output'.active = output.active
        /\ heard'.starts = heard.starts
    BY <1>6 DEF Started, ForceStopCode, ActualStop, StopReconnect, JoinReconnect,
       StreamStop, JoinConnect, StopTs, StopEvent, TypeInv, OutputType, HeardType
  <2>2. \/ Moves(UI, "idle", None, "off")
        \/ \E l \in {"actual_stop", "stop_reconnect", "join_reconnect", "stop_plugin",
                     "join_connect", "stop_ts", "stop_event"} :
             Moves(UI, l, pc'[UI].arg, pc'[UI].ret)
        \/ Moves(UI, pc[UI].ret, None, "off")
        \/ Moves(UI, "signal_stop", "SUCCESS", pc[UI].ret)
    BY <1>6, PcMoves DEF TypeInv, Started, ForceStopCode, ActualStop,
       StopReconnect, JoinReconnect, StreamStop, JoinConnect, StopTs, StopEvent, Moves
  <2>3. UserTurn'
    BY <1>1, <2>1, <2>2, ReturnsAre DEF Moves, UserTurn
  <2>4. stream.stop_event => stream'.stop_event
    BY <1>6 DEF StreamStop, JoinConnect, StopTs, StopEvent, TypeInv, StreamType
  <2>. QED BY <2>1, <2>2, <2>3, <2>4, OthersAre, UserTurnFrame DEF Moves
<1>7. CASE StreamStart(UI)
  <2>1. At(UI, "start_plugin") /\ heard' = heard /\ output' = output
    BY <1>7 DEF StreamStart
  <2>2. stream'.stop_event = stream.stop_event
    BY <1>7 DEF StreamStart, TypeInv, StreamType
  <2>3. \E c \in Connects : Spawns(UI, pc[UI].ret, "ok", "off", c, "init_connect")
    BY <1>7, CreateSpawns, OthersAre DEF TypeInv, StreamStart
  <2>4. /\ AllOff(Connects) /\ AllOff(Sends) /\ AllOff(Reconnects)
        /\ heard.starts = 1 /\ ~output.active
    BY <1>1, <2>1 DEF UserTurn
  <2>. USE <1>1, <2>1, <2>2, <2>3, <2>4, ReturnsAre, OthersAre DEF Spawns, Turns
  <2>5. OneAtATime(Connects)' /\ OneAtATime(Sends)'  OBVIOUS
  <2>6. UserTurn'     BY DEF UserTurn
  <2>7. ConnectTurn'  BY DEF ConnectTurn
  <2>8. SendTurn'     BY DEF SendTurn, Lost
  <2>9. RetryTurn'    BY DEF RetryTurn
  <2>. QED BY <2>5, <2>6, <2>7, <2>8, <2>9
<1>8. ~CreateReconnect(UI)
  BY <1>1 DEF UserTurn, CreateReconnect
<1>9. CASE User /\ stream' = stream
  BY <1>2, <1>5, <1>6, <1>9 DEF User
<1>. QED BY <1>3, <1>4, <1>6, <1>7, <1>8, <1>9 DEF UserThread, Reconnecting

\* Every step keeps the turn.
LEMMA TurnsKept ==
  ASSUME TypeInv, Turns, OneScope, [Next]_vars PROVE Turns'
<1>1. CASE UNCHANGED vars
  BY <1>1 DEF vars, control, Turns, UserTurn, ConnectTurn, SendTurn, RetryTurn, Lost
<1>. QED BY <1>1, UserTurns, ConnectTurns, SendTurns, RetryTurns, EndTurns DEF Next

\* At first no thread runs.
LEMMA TurnsInit ==
  ASSUME Init PROVE Turns
<1>1. /\ At(UI, "idle") /\ heard.starts = 0 /\ ~output.active /\ ~output.reconnecting
      /\ \A t \in Threads \ {UI} : At(t, "off")
  BY OthersAre DEF Init, InitControl, Off
<1>. QED BY <1>1, OthersAre DEF Turns, UserTurn, ConnectTurn, SendTurn, RetryTurn, Lost

\* One connection at a time, whenever the user stops the stream: no
\* connect_thread or send_thread of a connection that was lost, refused or
\* stopped is left when the next one begins to use the struct rtmp_stream.
THEOREM OneConnectionHolds ==
  ASSUME OneScope PROVE Spec => []OneConnection
<1>1. Init => TypeInv /\ Turns
  BY TypeInit, TurnsInit
<1>2. TypeInv /\ Turns /\ [Next]_vars => (TypeInv /\ Turns)'
  BY TypeStep, TurnsKept
<1>3. Turns => OneConnection
  BY DEF Turns, OneConnection
<1>. QED BY <1>1, <1>2, <1>3, PTL DEF Spec, Safety

=============================================================================
