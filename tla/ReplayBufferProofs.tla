------------------------- MODULE ReplayBufferProofs -------------------------
(***************************************************************************)
(* Safety of ReplayBuffer for all limits, faults and bounds: what holds    *)
(* whatever the queue does, since only Clear, Start and the mux thread     *)
(* touch the flags.                                                        *)
(***************************************************************************)
EXTENDS ReplayBuffer, TLAPS

\* The parts of the state the argument is about.
Shape ==
  /\ {"active", "packets"} \subseteq DOMAIN stream
  /\ "pc" \in DOMAIN mux
  /\ seen \in [leftover : BOOLEAN, crossed : BOOLEAN]

\* The encoder that ends the output is waited for.
Waited == enc = "deactivate" => output = "ending"

Feeding ==
  /\ output = "starting" => stream.active \/ seen.crossed
  /\ output = "on" => stream.active \/ mux.pc = "failed" \/ seen.crossed

\* Once a session is over its packets are gone, and none is added.
Emptied ==
  ~seen.leftover =>
    /\ output \in {"off", "starting"} => stream.packets = <<>>
    /\ output = "ending" /\ enc # "deactivate" => stream.packets = <<>> /\ ~stream.active

IInv == Shape /\ Waited /\ Feeding /\ Emptied

\* A session begins with an empty queue, unless a failed save ended the one
\* before and left its packets.
StartsEmpty == output = "starting" /\ ~seen.leftover => stream.packets = <<>>

\* Dropping packets leaves the flags alone.
LEMMA PurgeFrontActive ==
  ASSUME NEW st, "active" \in DOMAIN st, NEW n
  PROVE  /\ DOMAIN PurgeFront(st, n) = DOMAIN st
         /\ PurgeFront(st, n).active = st.active
  BY DEF PurgeFront

\* So does making room for a packet.
LEMMA PurgeActive ==
  ASSUME NEW st, "active" \in DOMAIN st, NEW p
  PROVE  /\ DOMAIN replay_buffer_purge(st, p) = DOMAIN st
         /\ replay_buffer_purge(st, p).active = st.active
<1>1. ASSUME NEW tt, "active" \in DOMAIN tt, NEW fits
      PROVE  /\ DOMAIN PurgeWhile(tt, fits) = DOMAIN tt
             /\ PurgeWhile(tt, fits).active = tt.active
  BY <1>1, PurgeFrontActive DEF PurgeWhile
<1> DEFINE sized == IF st.max_size # 0 /\ Purgeable(st)
                    THEN PurgeWhile(st, Smaller(st, p)) ELSE st
<1>2. replay_buffer_purge(st, p) =
        IF Purgeable(sized) THEN PurgeWhile(sized, Shorter(sized, p)) ELSE sized
  BY DEF replay_buffer_purge
<1>3. DOMAIN sized = DOMAIN st /\ sized.active = st.active
  BY <1>1
<1> HIDE DEF sized
<1>4. QED
  BY <1>1, <1>2, <1>3

LEMMA PushActive ==
  ASSUME NEW st, "active" \in DOMAIN st, NEW p
  PROVE  /\ DOMAIN Push(st, p) = DOMAIN st
         /\ Push(st, p).active = st.active
  BY DEF Push

LEMMA InitIInv == Init => IInv
  BY DEF Init, IInv, Shape, Waited, Feeding, Emptied

LEMMA NextIInv == IInv /\ [Next]_vars => IInv'
<1> SUFFICES ASSUME IInv, [Next]_vars PROVE IInv'
  OBVIOUS
<1> USE DEF IInv, Shape, Waited, Feeding, Emptied
<1>1. CASE Start
  BY <1>1 DEF Start
<1>2. CASE BeginCapture
  BY <1>2 DEF BeginCapture
<1>3. CASE Stop
  <2>1. /\ DOMAIN stream' = DOMAIN stream
        /\ stream'.active = stream.active
        /\ stream'.packets = stream.packets
    BY <1>3 DEF Stop
  <2>2. QED
    BY <1>3, <2>1 DEF Stop
<1>4. CASE EndThread
  BY <1>4 DEF EndThread
<1>5. CASE Press
  BY <1>5 DEF Press
<1>6. CASE SetSaveTs
  <2>1. /\ DOMAIN stream' = DOMAIN stream
        /\ stream'.active = stream.active
        /\ stream'.packets = stream.packets
    BY <1>6 DEF SetSaveTs
  <2>2. QED
    BY <1>6, <2>1 DEF SetSaveTs
<1>7. CASE LastPacket
  BY <1>7 DEF LastPacket, Ended
<1>8. CASE Deactivate
  <2>1. /\ DOMAIN stream' = DOMAIN stream
        /\ stream'.active = FALSE
        /\ stream'.packets = <<>>
    BY <1>8 DEF Deactivate, Clear
  <2>2. QED
    BY <1>8, <2>1 DEF Deactivate
<1>9. CASE Data
  <2>1. PICK p : stream' = Push(replay_buffer_purge(stream, p), p)
    BY <1>9 DEF Data
  <2>2. DOMAIN stream' = DOMAIN stream /\ stream'.active = stream.active
    BY <2>1, PurgeActive, PushActive
  <2>3. DOMAIN mux' = DOMAIN mux /\ mux'.pc = mux.pc
    BY <1>9 DEF Data
  <2>4. enc' # "deactivate" /\ enc = "idle" /\ stream.active
    BY <1>9 DEF Data
  <2>5. output \in {"on", "ending"} /\ output' = output /\ seen' = seen
    BY <1>9 DEF Data
  <2>6. QED
    BY <2>2, <2>3, <2>4, <2>5
<1>10. CASE Save
  <2>1. "pc" \in DOMAIN mux' /\ mux.pc = "none" /\ mux'.pc = "pipe"
    BY <1>10 DEF Save, Muxing
  <2>2. /\ DOMAIN stream' = DOMAIN stream
        /\ stream'.active = stream.active
        /\ stream'.packets = stream.packets
    BY <1>10 DEF Save
  <2>3. QED
    BY <1>10, <2>1, <2>2 DEF Save
<1>11. CASE StartPipe
  BY <1>11 DEF StartPipe, MuxExit
<1>12. CASE Write
  BY <1>12 DEF Write, MuxExit
<1>13. CASE WriteFails
  BY <1>13 DEF WriteFails
<1>14. CASE FailDeactivate
  <2>1. /\ DOMAIN stream' = DOMAIN stream
        /\ stream'.active = FALSE
        /\ mux'.pc = "failed" /\ "pc" \in DOMAIN mux'
    BY <1>14 DEF FailDeactivate
  <2>2. /\ seen' \in [leftover : BOOLEAN, crossed : BOOLEAN]
        /\ seen'.leftover
        /\ seen'.crossed <=> seen.crossed \/ output = "starting"
    BY <1>14 DEF FailDeactivate
  <2>3. output' \in {output, "ending"} /\ (output = "ending" => output' = "ending")
    BY <1>14 DEF FailDeactivate, Ended
  <2>4. enc' = enc
    BY <1>14 DEF FailDeactivate
  <2>5. QED
    BY <2>1, <2>2, <2>3, <2>4
<1>15. CASE FailSignal
  <2>1. /\ DOMAIN stream' = DOMAIN stream
        /\ stream'.active = stream.active
        /\ "pc" \in DOMAIN mux'
    BY <1>15 DEF FailSignal
  <2>2. /\ seen' \in [leftover : BOOLEAN, crossed : BOOLEAN]
        /\ seen'.leftover /\ seen'.crossed = seen.crossed
    BY <1>15 DEF FailSignal
  <2>3. output' # "on" /\ output' \in {output, "ending"} /\ enc' = enc
    BY <1>15 DEF FailSignal, Ended
  <2>4. QED
    BY <2>1, <2>2, <2>3
<1>16. CASE FailDone
  BY <1>16 DEF FailDone
<1>17. CASE UNCHANGED vars
  BY <1>17 DEF vars
<1>18. QED
  BY <1>1, <1>2, <1>3, <1>4, <1>5, <1>6, <1>7, <1>8, <1>9, <1>10, <1>11, <1>12,
     <1>13, <1>14, <1>15, <1>16, <1>17 DEF Next, Hotkey, Encoder, MuxThread

THEOREM IInvHolds == Spec => []IInv
  BY InitIInv, NextIInv, PTL DEF Spec

\* An active replay buffer takes packets or is being ended: the encoder that
\* ends it, the user who starts it again and a mux thread still at work on an
\* earlier save never leave it active and idle, except where a failed write
\* meets a start.
THEOREM BufferKeepsGoing == Spec => []BufferGoesOn
<1>1. IInv => BufferGoesOn
  BY DEF IInv, Feeding, BufferGoesOn
<1>2. QED
  BY IInvHolds, <1>1, PTL

\* No session starts with the packets of another, but after a failed save.
THEOREM SessionsStartEmpty == Spec => []StartsEmpty
<1>1. IInv => StartsEmpty
  BY DEF IInv, Emptied, StartsEmpty
<1>2. QED
  BY IInvHolds, <1>1, PTL
=============================================================================
