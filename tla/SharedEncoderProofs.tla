------------------------ MODULE SharedEncoderProofs ------------------------
(***************************************************************************)
(* Safety of SharedEncoder for every set of outputs, bounds and faults.    *)
(***************************************************************************)
EXTENDS SharedEncoder, TLAPS

USE DEF Free, Goto

\* Nothing holds a mutex at the start, and nothing is connected.
LEMMA InitIInv == Init => IInv
<1> SUFFICES ASSUME Init PROVE IInv
  OBVIOUS
<1> USE OutputsAssumption, BoundsAssumption DEF Init
<1>1. TypeOK
  <2>1. encoder \in EncoderType /\ owner \in OwnerType
    BY DEF EncoderType, OwnerType
  <2>2. packet \in PacketType
    BY DEF PacketType
  <2>3. pc \in [Outputs -> Places]
    BY DEF Places
  <2>4. got \in [Outputs -> 0 .. MaxPackets] /\ starts \in [Outputs -> 0 .. MaxStarts]
    OBVIOUS
  <2>5. QED
    BY <2>1, <2>2, <2>3, <2>4 DEF TypeOK
<1>2. Locks
  BY DEF Locks, InCall
<1>3. Connection
  BY DEF Connection
<1>4. Calls
  BY DEF Calls
<1>5. QED
  BY <1>1, <1>2, <1>3, <1>4 DEF IInv

\* What obs_encoder_initialize does to an encoder: one in use stays as it is.
LEMMA InitializeEffect ==
  ASSUME NEW o \in Outputs, Initialize(o), encoder \in EncoderType
  PROVE  /\ encoder' \in EncoderType
         /\ encoder'.connected = encoder.connected
         /\ encoder'.callbacks = encoder.callbacks
         /\ encoder'.active = encoder.active
         /\ encoder.active => encoder'.data = encoder.data
<1>1. \/ encoder' = encoder
      \/ ~encoder.active /\ encoder' = [encoder EXCEPT !.data = TRUE, !.initialized = TRUE]
      \/ ~encoder.active /\ encoder' = [encoder EXCEPT !.data = FALSE]
  BY Zenon DEF Initialize
<1>2. CASE encoder' = encoder
  BY <1>2
<1>3. CASE ~encoder.active /\ encoder' = [encoder EXCEPT !.data = TRUE, !.initialized = TRUE]
  BY <1>3 DEF EncoderType
<1>4. CASE ~encoder.active /\ encoder' = [encoder EXCEPT !.data = FALSE]
  BY <1>4 DEF EncoderType
<1>5. QED
  BY <1>1, <1>2, <1>3, <1>4, Zenon

\* Types are kept by every step.
LEMMA NextTypeOK == IInv /\ [Next]_vars => TypeOK'
<1> SUFFICES ASSUME IInv, [Next]_vars PROVE TypeOK'
  OBVIOUS
<1> USE OutputsAssumption, BoundsAssumption DEF EncoderType, OwnerType, PacketType, Places
<1>t. TypeOK
  BY DEF IInv
<1>1. ASSUME NEW o \in Outputs, Initialize(o) PROVE TypeOK'
  <2>0. encoder' \in EncoderType
    BY <1>t, <1>1, InitializeEffect, Zenon DEF TypeOK
  <2>1. pc' \in [Outputs -> Places]
    BY <1>t, <1>1 DEF Initialize, TypeOK
  <2>2. [number |-> 0, keyframe |-> FALSE] \in PacketType
    OBVIOUS
  <2>3. packet' \in PacketType
    <3>1. CASE packet' = packet
      BY <1>t, <3>1 DEF TypeOK
    <3>2. CASE packet' = [number |-> 0, keyframe |-> FALSE]
      BY <2>2, <3>2, Zenon
    <3>3. QED
      BY <1>1, <3>1, <3>2, Zenon DEF Initialize
  <2>4. starts[o] \in Nat /\ starts[o] + 1 \in 0 .. MaxStarts
    BY <1>t, <1>1 DEF Initialize, TypeOK
  <2>5. starts' \in [Outputs -> 0 .. MaxStarts]
    BY <1>t, <1>1, <2>4 DEF Initialize, TypeOK
  <2>6. QED
    BY <1>t, <1>1, <2>0, <2>1, <2>3, <2>5 DEF Initialize, TypeOK
<1>2. ASSUME NEW o \in Outputs, Start(o) PROVE TypeOK'
  BY <1>t, <1>2 DEF Start, TypeOK
<1>3. ASSUME NEW o \in Outputs, AddCallback(o) PROVE TypeOK'
  <2>1. encoder' \in EncoderType
    BY <1>t, <1>3 DEF AddCallback, TypeOK
  <2>2. owner' \in OwnerType /\ pc' \in [Outputs -> Places]
    BY <1>t, <1>3 DEF AddCallback, TypeOK
  <2>3. QED
    BY <1>t, <1>3, <2>1, <2>2 DEF AddCallback, TypeOK
<1>4. ASSUME NEW o \in Outputs, Connect(o) PROVE TypeOK'
  BY <1>t, <1>4 DEF Connect, TypeOK
<1>5. ASSUME NEW o \in Outputs, Stop(o) PROVE TypeOK'
  BY <1>t, <1>5 DEF Stop, TypeOK
<1>6. ASSUME NEW o \in Outputs, RemoveCallback(o) PROVE TypeOK'
  BY <1>t, <1>6 DEF RemoveCallback, TypeOK
<1>7. ASSUME NEW o \in Outputs, Disconnect(o) PROVE TypeOK'
  BY <1>t, <1>7 DEF Disconnect, TypeOK
<1>8. ASSUME NEW o \in Outputs, Shutdown(o) PROVE TypeOK'
  BY <1>t, <1>8 DEF Shutdown, TypeOK
<1>9. ASSUME ReceiveVideo PROVE TypeOK'
  BY <1>t, <1>9 DEF ReceiveVideo, TypeOK
<1>10. ASSUME Encode PROVE TypeOK'
  BY <1>t, <1>10 DEF Encode, TypeOK
<1>11. ASSUME EncodeFails PROVE TypeOK'
  BY <1>t, <1>11 DEF EncodeFails, TypeOK
<1>12. ASSUME SendPacket PROVE TypeOK'
  BY <1>t, <1>12 DEF SendPacket, TypeOK
<1>13. ASSUME FullStop PROVE TypeOK'
  BY <1>t, <1>13 DEF FullStop, TypeOK
<1>14. ASSUME FullShutdown PROVE TypeOK'
  BY <1>t, <1>14 DEF FullShutdown, TypeOK
<1>15. CASE UNCHANGED vars
  BY <1>t, <1>15 DEF vars, TypeOK
<1>16. QED
  BY <1>1, <1>2, <1>3, <1>4, <1>5, <1>6, <1>7, <1>8, <1>9, <1>10, <1>11, <1>12,
     <1>13, <1>14, <1>15 DEF Next, Call, Video

\* Mutexes are taken and given back where the places of the threads say so.
LEMMA NextLocks == IInv /\ [Next]_vars => Locks'
<1> SUFFICES ASSUME IInv, [Next]_vars PROVE Locks'
  OBVIOUS
<1> USE OutputsAssumption DEF Locks, InCall, OwnerType, EncoderType, Places
<1>t. TypeOK /\ Locks
  BY DEF IInv
<1>1. ASSUME NEW o \in Outputs, Initialize(o) PROVE Locks'
  BY <1>t, <1>1 DEF Initialize, TypeOK
<1>2. ASSUME NEW o \in Outputs, Start(o) PROVE Locks'
  BY <1>t, <1>2 DEF Start, TypeOK
<1>3. ASSUME NEW o \in Outputs, AddCallback(o) PROVE Locks'
  BY <1>t, <1>3 DEF AddCallback, TypeOK
<1>4. ASSUME NEW o \in Outputs, Connect(o) PROVE Locks'
  BY <1>t, <1>4 DEF Connect, TypeOK
<1>5. ASSUME NEW o \in Outputs, Stop(o) PROVE Locks'
  BY <1>t, <1>5 DEF Stop, TypeOK
<1>6. ASSUME NEW o \in Outputs, RemoveCallback(o) PROVE Locks'
  BY <1>t, <1>6 DEF RemoveCallback, TypeOK
<1>7. ASSUME NEW o \in Outputs, Disconnect(o) PROVE Locks'
  BY <1>t, <1>7 DEF Disconnect, TypeOK
<1>8. ASSUME NEW o \in Outputs, Shutdown(o) PROVE Locks'
  BY <1>t, <1>8 DEF Shutdown, TypeOK
<1>9. ASSUME ReceiveVideo PROVE Locks'
  BY <1>t, <1>9 DEF ReceiveVideo, TypeOK
<1>10. ASSUME Encode PROVE Locks'
  BY <1>t, <1>10 DEF Encode, TypeOK
<1>11. ASSUME EncodeFails PROVE Locks'
  BY <1>t, <1>11 DEF EncodeFails, TypeOK
<1>12. ASSUME SendPacket PROVE Locks'
  BY <1>t, <1>12 DEF SendPacket, TypeOK
<1>13. ASSUME FullStop PROVE Locks'
  BY <1>t, <1>13 DEF FullStop, TypeOK
<1>14. ASSUME FullShutdown PROVE Locks'
  BY <1>t, <1>14 DEF FullShutdown, TypeOK
<1>15. CASE UNCHANGED vars
  BY <1>t, <1>15 DEF vars
<1>16. QED
  BY <1>1, <1>2, <1>3, <1>4, <1>5, <1>6, <1>7, <1>8, <1>9, <1>10, <1>11, <1>12,
     <1>13, <1>14, <1>15 DEF Next, Call, Video

\* Only one thread of an output is in a call.
LEMMA OneCall == Locks => \A o, p \in Outputs : InCall(o) /\ InCall(p) => o = p
  BY DEF Locks

\* The connection follows the callbacks.
LEMMA NextConnection == IInv /\ [Next]_vars => Connection'
<1> SUFFICES ASSUME IInv, [Next]_vars PROVE Connection'
  OBVIOUS
<1> USE OutputsAssumption DEF Connection, Locks, InCall, OwnerType, EncoderType, Places
<1>t. TypeOK /\ Locks /\ Connection /\ Calls
  BY DEF IInv
<1>1. ASSUME NEW o \in Outputs, Initialize(o) PROVE Connection'
  <2>1. \A p \in Outputs : ~InCall(p)
    BY <1>t, <1>1 DEF Initialize
  <2>2. \A p \in Outputs : pc'[p] \notin {"connect", "disconnect", "shutdown"}
    BY <1>t, <1>1, <2>1 DEF Initialize, TypeOK
  <2>3. /\ encoder'.connected = encoder.connected
        /\ encoder'.callbacks = encoder.callbacks
        /\ encoder'.active = encoder.active
        /\ encoder.active => encoder'.data = encoder.data
    BY <1>t, <1>1, InitializeEffect, Zenon DEF TypeOK
  <2>4. encoder.connected => encoder'.data
    BY <1>t, <2>3
  <2>5. video' = video
    BY <1>1 DEF Initialize
  <2>6. QED
    BY <1>t, <2>1, <2>2, <2>3, <2>4, <2>5
<1>2. ASSUME NEW o \in Outputs, Start(o) PROVE Connection'
  BY <1>t, <1>2 DEF Start, TypeOK
<1>3. ASSUME NEW o \in Outputs, AddCallback(o) PROVE Connection'
  BY <1>t, <1>3 DEF AddCallback, TypeOK, Calls
<1>4. ASSUME NEW o \in Outputs, Connect(o) PROVE Connection'
  BY <1>t, <1>4 DEF Connect, TypeOK, Calls
<1>5. ASSUME NEW o \in Outputs, Stop(o) PROVE Connection'
  BY <1>t, <1>5 DEF Stop, TypeOK
<1>6. ASSUME NEW o \in Outputs, RemoveCallback(o) PROVE Connection'
  BY <1>t, <1>6 DEF RemoveCallback, TypeOK
<1>7. ASSUME NEW o \in Outputs, Disconnect(o) PROVE Connection'
  BY <1>t, <1>7 DEF Disconnect, TypeOK, Calls
<1>8. ASSUME NEW o \in Outputs, Shutdown(o) PROVE Connection'
  BY <1>t, <1>8 DEF Shutdown, TypeOK, Calls
<1>9. ASSUME ReceiveVideo PROVE Connection'
  BY <1>t, <1>9 DEF ReceiveVideo, TypeOK
<1>10. ASSUME Encode PROVE Connection'
  BY <1>t, <1>10 DEF Encode, TypeOK
<1>11. ASSUME EncodeFails PROVE Connection'
  BY <1>t, <1>11 DEF EncodeFails, TypeOK
<1>12. ASSUME SendPacket PROVE Connection'
  BY <1>t, <1>12 DEF SendPacket, TypeOK
<1>13. ASSUME FullStop PROVE Connection'
  BY <1>t, <1>13 DEF FullStop, TypeOK
<1>14. ASSUME FullShutdown PROVE Connection'
  BY <1>t, <1>14 DEF FullShutdown, TypeOK
<1>15. CASE UNCHANGED vars
  BY <1>t, <1>15 DEF vars
<1>16. QED
  BY <1>1, <1>2, <1>3, <1>4, <1>5, <1>6, <1>7, <1>8, <1>9, <1>10, <1>11, <1>12,
     <1>13, <1>14, <1>15 DEF Next, Call, Video

\* What a call has found stays as it is until the call goes on.
LEMMA NextCalls == IInv /\ [Next]_vars => Calls'
<1> SUFFICES ASSUME IInv, [Next]_vars PROVE Calls'
  OBVIOUS
<1> USE OutputsAssumption DEF Calls, Locks, InCall, OwnerType, EncoderType, Places
<1>t. TypeOK /\ Locks /\ Connection /\ Calls
  BY DEF IInv
<1>1. ASSUME NEW o \in Outputs, Initialize(o) PROVE Calls'
  BY <1>t, <1>1 DEF Initialize, TypeOK
<1>2. ASSUME NEW o \in Outputs, Start(o) PROVE Calls'
  BY <1>t, <1>2 DEF Start, TypeOK
<1>3. ASSUME NEW o \in Outputs, AddCallback(o) PROVE Calls'
  BY <1>t, <1>3 DEF AddCallback, TypeOK, Connection
<1>4. ASSUME NEW o \in Outputs, Connect(o) PROVE Calls'
  BY <1>t, <1>4 DEF Connect, TypeOK
<1>5. ASSUME NEW o \in Outputs, Stop(o) PROVE Calls'
  BY <1>t, <1>5 DEF Stop, TypeOK
<1>6. ASSUME NEW o \in Outputs, RemoveCallback(o) PROVE Calls'
  BY <1>t, <1>6 DEF RemoveCallback, TypeOK, Connection
<1>7. ASSUME NEW o \in Outputs, Disconnect(o) PROVE Calls'
  BY <1>t, <1>7 DEF Disconnect, TypeOK
<1>8. ASSUME NEW o \in Outputs, Shutdown(o) PROVE Calls'
  BY <1>t, <1>8 DEF Shutdown, TypeOK
<1>9. ASSUME ReceiveVideo PROVE Calls'
  BY <1>t, <1>9 DEF ReceiveVideo, TypeOK
<1>10. ASSUME Encode PROVE Calls'
  BY <1>t, <1>10 DEF Encode, TypeOK
<1>11. ASSUME EncodeFails PROVE Calls'
  BY <1>t, <1>11 DEF EncodeFails, TypeOK
<1>12. ASSUME SendPacket PROVE Calls'
  BY <1>t, <1>12 DEF SendPacket, TypeOK
<1>13. ASSUME FullStop PROVE Calls'
  BY <1>t, <1>13 DEF FullStop, TypeOK, Connection
<1>14. ASSUME FullShutdown PROVE Calls'
  BY <1>t, <1>14 DEF FullShutdown, TypeOK
<1>15. CASE UNCHANGED vars
  BY <1>t, <1>15 DEF vars
<1>16. QED
  BY <1>1, <1>2, <1>3, <1>4, <1>5, <1>6, <1>7, <1>8, <1>9, <1>10, <1>11, <1>12,
     <1>13, <1>14, <1>15 DEF Next, Call, Video

\* The inductive invariant: the mutexes, and what the thread that holds
\* init_mutex has done so far, decide the state of the encoder.
THEOREM IInvHolds == Spec => []IInv
<1>1. IInv /\ [Next]_vars => IInv'
  BY NextTypeOK, NextLocks, NextConnection, NextCalls DEF IInv
<1>2. QED
  BY InitIInv, <1>1, PTL DEF Spec

\* Type correctness of a shared encoder.
THEOREM TypeCorrect == Spec => []TypeOK
<1>1. IInv => TypeOK
  BY DEF IInv
<1>2. QED
  BY IInvHolds, <1>1, PTL

\* An encoder that no call is at work on is connected, active and in existence
\* exactly as long as an output has a callback.
THEOREM ConnectionCorrect == Spec => []ConnectedIffCalled
<1>1. IInv => ConnectedIffCalled
  BY OutputsAssumption DEF IInv, Locks, InCall, Connection, ConnectedIffCalled
<1>2. QED
  BY IInvHolds, <1>1, PTL

\* receive_video never runs with an encoder that was shut down: whoever shuts
\* it down has disconnected it, and waited for the video thread, before.
THEOREM NeverEncodesClosed == Spec => []EncoderIsOpen
<1>1. IInv => EncoderIsOpen
  BY DEF IInv, Connection, EncoderIsOpen
<1>2. QED
  BY IInvHolds, <1>1, PTL

----------------------------------------------------------------------------
(* The packets of an output.                                               *)

\* The last packet that send_packet has gone through the list with.
LastSent == IF video = "send" THEN packet.number - 1 ELSE packet.number

\* An output in the list has its thread between adding and removing it, and has
\* the last packet that was sent, or none if it waits for a keyframe.
Numbered ==
  /\ video = "send" => packet.number > 0
  /\ \A o \in Outputs :
       /\ o \in encoder.callbacks => pc[o] \in {"connect", "on", "stop"}
       /\ pc[o] = "start" => got[o] = 0
       /\ o \in encoder.callbacks =>
            IF o \in encoder.sent_first THEN got[o] > 0 /\ got[o] = LastSent
                                        ELSE got[o] = 0

LEMMA InitNumbered == Init => Numbered
  BY DEF Init, Numbered

\* A new encoder counts from 0; nobody has had packets of the one before.
LEMMA InitializeNumbered ==
  ASSUME IInv, Numbered, NEW o \in Outputs, Initialize(o)
  PROVE  Numbered'
<1>t. TypeOK /\ Locks /\ Connection
  BY DEF IInv
<1>1. \A p \in Outputs : ~InCall(p)
  BY <1>t, OutputsAssumption DEF Initialize, Locks
<1>2. UNCHANGED <<video, got>> /\ \A p \in Outputs : pc'[p] # pc[p] => pc[p] = "off" /\ pc'[p] = "initialized"
  BY <1>t DEF Initialize, TypeOK
<1>3. CASE encoder.active \/ encoder.initialized
  BY <1>2, <1>3 DEF Initialize, Numbered, LastSent
<1>4. CASE ~encoder.active /\ ~encoder.initialized
  <2>1. ~encoder.connected /\ video # "send"
    BY <1>t, <1>4 DEF Connection, TypeOK
  <2>2. encoder.callbacks = {}
    BY <1>t, <1>1, <2>1 DEF Connection, InCall
  <2>3. encoder'.callbacks = {}
    BY <1>t, <2>2, InitializeEffect, Zenon DEF TypeOK
  <2>4. QED
    BY <1>2, <2>1, <2>3 DEF Numbered, LastSent
<1>5. QED
  BY <1>3, <1>4

\* The lists of outputs and of those that have had a packet change together
\* with the place of the thread that changes them.
LEMMA CallNumbered ==
  ASSUME IInv, Numbered, NEW o \in Outputs, Start(o) \/ Stop(o) \/ Call(o)
  PROVE  Numbered'
<1> USE DEF EncoderType, OwnerType, PacketType, Places
<1>t. TypeOK
  BY DEF IInv
<1>1. CASE Start(o)
  BY <1>t, <1>1 DEF Start, TypeOK, Numbered, LastSent
<1>2. CASE AddCallback(o)
  BY <1>t, <1>2 DEF AddCallback, TypeOK, Numbered, LastSent
<1>3. CASE Connect(o)
  BY <1>t, <1>3 DEF Connect, TypeOK, Numbered, LastSent
<1>4. CASE Stop(o)
  BY <1>t, <1>4 DEF Stop, TypeOK, Numbered, LastSent
<1>5. CASE RemoveCallback(o)
  BY <1>t, <1>5 DEF RemoveCallback, TypeOK, Numbered, LastSent
<1>6. CASE Disconnect(o)
  BY <1>t, <1>6 DEF Disconnect, TypeOK, Numbered, LastSent
<1>7. CASE Shutdown(o)
  BY <1>t, <1>7 DEF Shutdown, TypeOK, Numbered, LastSent
<1>8. QED
  BY <1>1, <1>2, <1>3, <1>4, <1>5, <1>6, <1>7 DEF Call

\* The video thread numbers packets, and hands each to the whole list.
LEMMA VideoNumbered ==
  ASSUME IInv, Numbered, Video
  PROVE  Numbered'
<1> USE DEF EncoderType, OwnerType, PacketType, Places
<1>t. TypeOK
  BY DEF IInv
<1>1. CASE ReceiveVideo
  BY <1>1 DEF ReceiveVideo, Numbered, LastSent
<1>2. CASE Encode
  BY <1>t, <1>2 DEF Encode, TypeOK, Numbered, LastSent
<1>3. CASE EncodeFails
  BY <1>3 DEF EncodeFails, Numbered, LastSent
<1>4. CASE SendPacket
  <2> DEFINE to == IF packet.keyframe THEN encoder.callbacks
                   ELSE encoder.callbacks \cap encoder.sent_first
  <2>1. /\ encoder'.callbacks = encoder.callbacks
        /\ encoder'.sent_first = encoder.sent_first \cup to
        /\ \A p \in Outputs : got'[p] = IF p \in to THEN packet.number ELSE got[p]
        /\ video = "send" /\ video' = "idle" /\ UNCHANGED <<pc, packet>>
    BY <1>t, <1>4 DEF SendPacket, TypeOK
  <2>2. packet.number > 0
    BY <2>1 DEF Numbered
  <2>3. \A p \in Outputs : pc[p] = "start" => p \notin to
    BY DEF Numbered
  <2>4. \A p \in encoder.callbacks : p \in to \/ p \notin encoder.sent_first
    OBVIOUS
  <2> HIDE DEF to
  <2>5. QED
    BY <1>t, <2>1, <2>2, <2>3, <2>4 DEF Numbered, LastSent, TypeOK
<1>5. CASE FullStop
  BY <1>t, <1>5 DEF FullStop, TypeOK, Numbered, LastSent
<1>6. CASE FullShutdown
  BY <1>t, <1>6 DEF FullShutdown, TypeOK, Numbered, LastSent
<1>7. QED
  BY <1>1, <1>2, <1>3, <1>4, <1>5, <1>6 DEF Video

LEMMA NextNumbered == IInv /\ Numbered /\ [Next]_vars => Numbered'
<1>1. ASSUME UNCHANGED vars, Numbered PROVE Numbered'
  BY <1>1 DEF vars, Numbered, LastSent
<1>2. QED
  BY <1>1, InitializeNumbered, CallNumbered, VideoNumbered DEF Next

\* Only Start and SendPacket write what an output got.
LEMMA PacketStep ==
  ASSUME IInv, Numbered, [Next]_vars, NEW o \in Outputs, got'[o] # got[o], got'[o] # 0
  PROVE  IF Started(o) THEN got'[o] = got[o] + 1 ELSE packet.keyframe
<1>t. TypeOK
  BY DEF IInv
<1>1. \/ \E p \in Outputs : Start(p)
      \/ SendPacket
      \/ got' = got
  BY DEF Next, vars, Video, Call, Initialize, Stop, AddCallback, Connect, RemoveCallback,
     Disconnect, Shutdown, ReceiveVideo, Encode, EncodeFails, FullStop, FullShutdown
<1>2. ~(\E p \in Outputs : Start(p))
  BY <1>t DEF Start, TypeOK
<1>3. SendPacket
  BY <1>1, <1>2
<1>4. /\ o \in encoder.callbacks /\ got'[o] = packet.number /\ video = "send"
      /\ packet.keyframe \/ o \in encoder.sent_first
  BY <1>t, <1>3 DEF SendPacket, TypeOK
<1>5. CASE o \in encoder.sent_first
  BY <1>t, <1>4, <1>5 DEF Numbered, LastSent, Started, TypeOK, PacketType
<1>6. CASE o \notin encoder.sent_first
  BY <1>4, <1>6 DEF Numbered, Started
<1>7. QED
  BY <1>5, <1>6

\* However outputs share an encoder, come, go and come again, fail or see it
\* created anew, each gets its packets from a keyframe on and none is left out.
THEOREM PacketsComplete == Spec => PacketsInOrder
<1>1. Spec => []Numbered
  BY InitNumbered, NextNumbered, IInvHolds, PTL DEF Spec
<1>2. IInv /\ Numbered /\ [Next]_vars =>
        [\A o \in Outputs : got'[o] # got[o] /\ got'[o] # 0 =>
           IF Started(o) THEN got'[o] = got[o] + 1 ELSE packet.keyframe]_vars
  BY PacketStep
<1>3. QED
  BY <1>1, <1>2, IInvHolds, PTL DEF Spec, PacketsInOrder
=============================================================================
