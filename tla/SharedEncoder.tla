--------------------------- MODULE SharedEncoder ---------------------------
(***************************************************************************)
(* A video encoder (libobs/obs-encoder.c) that several outputs use: the    *)
(* recording takes the encoder of the stream when the settings say so.     *)
(* It has a list of packet callbacks and is an input of the video output   *)
(* while the list is not empty.  The thread that starts or stops an output *)
(* calls obs_encoder_initialize, _start and _stop; the video thread calls  *)
(* receive_video with every frame.                                         *)
(*                                                                         *)
(* Three mutexes: init_mutex (of the encoder, held during a call),         *)
(* callbacks_mutex (around the list) and input_mutex (of the video output, *)
(* held while its inputs are called).  All are recursive.  A step is what  *)
(* a thread does between waiting for one of them and for the next.  The    *)
(* encoder is not destroyed.                                               *)
(***************************************************************************)
EXTENDS Naturals

CONSTANTS Outputs,          \* each with the thread that starts and stops it
          Faults,           \* what may fail: "create", "encode"
          MaxStarts,        \* bound: starts of an output
          MaxPackets,       \* bound: packets of an encoder between two creations
          None

ASSUME OutputsAssumption == None \notin Outputs \cup {"video"} /\ "video" \notin Outputs
ASSUME FaultsAssumption == Faults \subseteq {"create", "encode"}
ASSUME BoundsAssumption == MaxStarts \in Nat /\ MaxPackets \in Nat

VARIABLES
  encoder,                  \* the fields of struct obs_encoder
  owner,                    \* who holds each mutex
  pc,                       \* where the thread of each output is
  video,                    \* where the video thread is
  packet,                   \* the last packet the encoder produced
  got,                      \* history: number of the last packet an output got
  starts,                   \* history: how often an output was started
  failed                    \* history: encoding has failed

vars == <<encoder, owner, pc, video, packet, got, starts, failed>>

Init ==
  /\ encoder = [data |-> FALSE,             \* context.data # NULL
                initialized |-> FALSE, active |-> FALSE,
                connected |-> FALSE,        \* an input of the video output
                callbacks |-> {},           \* the outputs in the list,
                sent_first |-> {}]          \* those that had a packet
  /\ owner = [init |-> None, callbacks |-> None, input |-> None]
  /\ pc = [o \in Outputs |-> "off"]
  /\ video = "idle"
  /\ packet = [number |-> 0, keyframe |-> FALSE]
  /\ got = [o \in Outputs |-> 0]
  /\ starts = [o \in Outputs |-> 0]
  /\ failed = FALSE

Goto(o, place) == pc' = [pc EXCEPT ![o] = place]
Free(mutex) == owner[mutex] = None

----------------------------------------------------------------------------
(* The thread of an output.                                                *)

\* obs_encoder_initialize: an encoder that is in use, or was initialized for
\* another output, is taken as it is.
Initialize(o) ==
  /\ pc[o] = "off" /\ starts[o] < MaxStarts
  /\ Free("init")
  /\ \/ /\ encoder.active \/ encoder.initialized
        /\ Goto(o, "initialized")
        /\ UNCHANGED <<encoder, packet>>
     \/ /\ ~encoder.active /\ ~encoder.initialized
        /\ encoder' = [encoder EXCEPT !.data = TRUE, !.initialized = TRUE]
        /\ packet' = [number |-> 0, keyframe |-> FALSE]
        /\ Goto(o, "initialized")
     \/ /\ "create" \in Faults
        /\ ~encoder.active /\ ~encoder.initialized
        /\ encoder' = [encoder EXCEPT !.data = FALSE]
        /\ UNCHANGED <<pc, packet>>
  /\ starts' = [starts EXCEPT ![o] = @ + 1]
  /\ UNCHANGED <<owner, video, got, failed>>

\* obs_encoder_start: nothing happens if there is no encoder.
Start(o) ==
  /\ pc[o] = "initialized" /\ Free("init")
  /\ got' = [got EXCEPT ![o] = 0]
  /\ IF encoder.data
     THEN owner' = [owner EXCEPT !.init = o] /\ Goto(o, "start")
     ELSE UNCHANGED owner /\ Goto(o, "on")
  /\ UNCHANGED <<encoder, video, packet, starts, failed>>

\* Mutant: the new callback takes over what is left of an old one.
AddCallbackOld(o) ==
  /\ pc[o] = "start" /\ Free("callbacks")
  /\ encoder' = [encoder EXCEPT !.callbacks = @ \cup {o}]
  /\ IF encoder.callbacks = {}
     THEN UNCHANGED owner /\ Goto(o, "connect")
     ELSE owner' = [owner EXCEPT !.init = None] /\ Goto(o, "on")
  /\ UNCHANGED <<video, packet, got, starts, failed>>

AddCallback(o) ==
  /\ pc[o] = "start" /\ Free("callbacks")
  /\ encoder' = [encoder EXCEPT !.callbacks = @ \cup {o}, !.sent_first = @ \ {o}]
  /\ IF encoder.callbacks = {}
     THEN UNCHANGED owner /\ Goto(o, "connect")
     ELSE owner' = [owner EXCEPT !.init = None] /\ Goto(o, "on")
  /\ UNCHANGED <<video, packet, got, starts, failed>>

\* add_connection.
Connect(o) ==
  /\ pc[o] = "connect" /\ Free("input")
  /\ encoder' = [encoder EXCEPT !.connected = TRUE, !.active = TRUE]
  /\ owner' = [owner EXCEPT !.init = None]
  /\ Goto(o, "on")
  /\ UNCHANGED <<video, packet, got, starts, failed>>

\* obs_encoder_stop.
Stop(o) ==
  /\ pc[o] = "on" /\ Free("init")
  /\ owner' = [owner EXCEPT !.init = o]
  /\ Goto(o, "stop")
  /\ UNCHANGED <<encoder, video, packet, got, starts, failed>>

\* Mutant: init_mutex is unlocked only with the last callback.
RemoveCallbackLocked(o) ==
  /\ pc[o] = "stop" /\ Free("callbacks")
  /\ encoder' = [encoder EXCEPT !.callbacks = @ \ {o}]
  /\ IF encoder.callbacks = {o} THEN Goto(o, "disconnect") ELSE Goto(o, "off")
  /\ UNCHANGED <<owner, video, packet, got, starts, failed>>

RemoveCallback(o) ==
  /\ pc[o] = "stop" /\ Free("callbacks")
  /\ encoder' = [encoder EXCEPT !.callbacks = @ \ {o}]
  /\ IF encoder.callbacks = {o}
     THEN UNCHANGED owner /\ Goto(o, "disconnect")
     ELSE owner' = [owner EXCEPT !.init = None] /\ Goto(o, "off")
  /\ UNCHANGED <<video, packet, got, starts, failed>>

\* Mutant: the encoder is shut down before the video output lets go of it.
DisconnectLate(o) ==
  /\ pc[o] = "disconnect"
  /\ encoder' = [encoder EXCEPT !.data = FALSE]
  /\ Goto(o, "shutdown")
  /\ UNCHANGED <<owner, video, packet, got, starts, failed>>

\* remove_connection waits for the video thread to be out of receive_video.
Disconnect(o) ==
  /\ pc[o] = "disconnect" /\ Free("input")
  /\ encoder' = [encoder EXCEPT !.connected = FALSE]
  /\ Goto(o, "shutdown")
  /\ UNCHANGED <<owner, video, packet, got, starts, failed>>

\* Mutant: the encoder stays marked as active.
ShutdownActive(o) ==
  /\ pc[o] = "shutdown"
  /\ encoder' = [encoder EXCEPT !.data = FALSE, !.initialized = FALSE]
  /\ owner' = [owner EXCEPT !.init = None]
  /\ Goto(o, "off")
  /\ UNCHANGED <<video, packet, got, starts, failed>>

Shutdown(o) ==
  /\ pc[o] = "shutdown"
  /\ encoder' = [encoder EXCEPT !.data = FALSE, !.active = FALSE, !.initialized = FALSE]
  /\ owner' = [owner EXCEPT !.init = None]
  /\ Goto(o, "off")
  /\ UNCHANGED <<video, packet, got, starts, failed>>

----------------------------------------------------------------------------
(* The video thread.                                                       *)

\* receive_video.
ReceiveVideo ==
  /\ video = "idle" /\ Free("input") /\ encoder.connected
  /\ owner' = [owner EXCEPT !.input = "video"]
  /\ video' = "encode"
  /\ UNCHANGED <<encoder, pc, packet, got, starts, failed>>

\* do_encode: the frame may give no packet yet, or one.
Encode ==
  /\ video = "encode"
  /\ \/ /\ video' = "idle" /\ owner' = [owner EXCEPT !.input = None]
        /\ UNCHANGED packet
     \/ /\ packet.number < MaxPackets
        /\ \E key \in BOOLEAN : packet' = [number |-> packet.number + 1, keyframe |-> key]
        /\ video' = "send" /\ UNCHANGED owner
  /\ UNCHANGED <<encoder, pc, got, starts, failed>>

EncodeFails ==
  /\ video = "encode" /\ "encode" \in Faults
  /\ video' = "full_stop"
  /\ failed' = TRUE
  /\ UNCHANGED <<encoder, owner, pc, packet, got, starts>>

\* send_packet, to every output; an output's first packet is a keyframe.
SendPacket ==
  /\ video = "send" /\ Free("callbacks")
  /\ LET to == IF packet.keyframe THEN encoder.callbacks
               ELSE encoder.callbacks \cap encoder.sent_first
     IN /\ encoder' = [encoder EXCEPT !.sent_first = @ \cup to]
        /\ got' = [o \in Outputs |-> IF o \in to THEN packet.number ELSE got[o]]
  /\ video' = "idle" /\ owner' = [owner EXCEPT !.input = None]
  /\ UNCHANGED <<pc, packet, starts, failed>>

\* full_stop: the callbacks go, and the connection, while callbacks_mutex and
\* input_mutex are held; shutting down the encoder waits for init_mutex.
FullStop ==
  /\ video = "full_stop" /\ Free("callbacks")
  /\ encoder' = [encoder EXCEPT !.callbacks = {}, !.connected = FALSE]
  /\ owner' = [owner EXCEPT !.callbacks = "video"]
  /\ video' = "full_shutdown"
  /\ UNCHANGED <<pc, packet, got, starts, failed>>

FullShutdown ==
  /\ video = "full_shutdown" /\ Free("init")
  /\ encoder' = [encoder EXCEPT !.data = FALSE, !.active = FALSE]
  /\ owner' = [owner EXCEPT !.callbacks = None, !.input = None]
  /\ video' = "idle"
  /\ UNCHANGED <<pc, packet, got, starts, failed>>

Video == ReceiveVideo \/ Encode \/ EncodeFails \/ SendPacket \/ FullStop \/ FullShutdown

\* What a thread does once its call has begun.
Call(o) == \/ AddCallback(o) \/ Connect(o)
           \/ RemoveCallback(o) \/ Disconnect(o) \/ Shutdown(o)

Next == Video \/ \E o \in Outputs : Initialize(o) \/ Start(o) \/ Stop(o) \/ Call(o)

\* Calls go on, and the video thread does while it is called.  It waits for a
\* frame without input_mutex, so whoever wants that mutex gets it.
Fairness ==
  /\ WF_vars(Encode \/ SendPacket \/ FullStop \/ FullShutdown)
  /\ \A o \in Outputs : /\ WF_vars(Call(o))
                        /\ SF_vars(Connect(o)) /\ SF_vars(Disconnect(o))

Spec == Init /\ [][Next]_vars /\ Fairness

----------------------------------------------------------------------------
(* Properties.                                                             *)

EncoderType == [data : BOOLEAN, initialized : BOOLEAN, active : BOOLEAN,
                connected : BOOLEAN, callbacks : SUBSET Outputs,
                sent_first : SUBSET Outputs]
OwnerType   == [init : Outputs \cup {None}, callbacks : {"video", None},
                input : {"video", None}]
PacketType  == [number : 0 .. MaxPackets, keyframe : BOOLEAN]
Places      == {"off", "initialized", "start", "connect", "on",
                "stop", "disconnect", "shutdown"}

TypeOK ==
  /\ encoder \in EncoderType /\ owner \in OwnerType
  /\ pc \in [Outputs -> Places]
  /\ video \in {"idle", "encode", "send", "full_stop", "full_shutdown"}
  /\ packet \in PacketType
  /\ got \in [Outputs -> 0 .. MaxPackets]
  /\ starts \in [Outputs -> 0 .. MaxStarts]
  /\ failed \in BOOLEAN

\* Outside the calls the encoder is connected to the video output, marked as
\* active and in existence exactly as long as some output has a callback.
ConnectedIffCalled ==
  Free("init") /\ Free("callbacks") =>
    /\ encoder.connected <=> encoder.callbacks # {}
    /\ encoder.active <=> encoder.connected
    /\ encoder.connected => encoder.data

\* The video thread never encodes with an encoder that was shut down.
EncoderIsOpen == video = "encode" => encoder.data

\* An output gets the packets from a keyframe on, and none is left out.
Started(o) == got[o] # 0
PacketsInOrder ==
  [][\A o \in Outputs : got'[o] # got[o] /\ got'[o] # 0 =>
       IF Started(o) THEN got'[o] = got[o] + 1 ELSE packet.keyframe]_vars

\* obs_encoder_start and obs_encoder_stop return, and give init_mutex back.
\* (When encoding fails they may not: full_stop waits for init_mutex with
\* callbacks_mutex and input_mutex held.)
CallsReturn ==
  \A o \in Outputs : (owner.init = o) ~> (owner.init # o \/ failed)

----------------------------------------------------------------------------
(* The inductive invariant.                                                *)

InCall(o) == pc[o] \in {"start", "connect", "stop", "disconnect", "shutdown"}

\* Who holds which mutex is where he is.
Locks ==
  /\ \A o \in Outputs : owner.init = o <=> InCall(o)
  /\ owner.callbacks = "video" <=> video = "full_shutdown"
  /\ owner.input = "video" <=> video # "idle"

\* The encoder is connected but for what a thread is in the middle of.
Connection ==
  /\ video \in {"encode", "send", "full_stop"} => encoder.connected
  /\ video = "full_shutdown" => ~encoder.connected /\ encoder.callbacks = {}
  /\ encoder.connected => encoder.data /\ encoder.active
  /\ encoder.active =>
       encoder.connected \/ video = "full_shutdown" \/ \E o \in Outputs : pc[o] = "shutdown"
  /\ (\A o \in Outputs : pc[o] \notin {"connect", "disconnect"}) =>
       (encoder.connected <=> encoder.callbacks # {})

\* What the thread in a call has found and done so far.
Calls ==
  \A o \in Outputs :
    /\ pc[o] \in {"start", "connect"} => encoder.data
    /\ pc[o] = "connect" => ~encoder.connected /\ encoder.callbacks # {}
    /\ pc[o] = "disconnect" =>
         encoder.callbacks = {} /\ (encoder.connected \/ video = "full_shutdown")
    /\ pc[o] = "shutdown" => ~encoder.connected /\ encoder.callbacks = {}

IInv == TypeOK /\ Locks /\ Connection /\ Calls

----------------------------------------------------------------------------
(* What begin_data_capture promises and does not keep.                     *)

\* obs_output_begin_data_capture: "true if successful, false otherwise".  An
\* output that was started gets the packets of the encoder.
StartIsServed ==
  \A o \in Outputs : pc[o] = "on" => o \in encoder.callbacks \/ failed
=============================================================================
