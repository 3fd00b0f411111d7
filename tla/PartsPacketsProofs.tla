------------------------- MODULE PartsPacketsProofs -------------------------
(***************************************************************************)
(* Safety of the machines that packets pass, as parts of Parts:            *)
(* EncoderPairing, for any outputs, block and packet sizes, OutputDelay,   *)
(* for any encoder threads, delay and number of tries, and RtmpQueue, for  *)
(* any thresholds, frames and network.                                     *)
(***************************************************************************)
EXTENDS Parts, FiniteSetTheorems, TLAPS

----------------------------------------------------------------------------
(* Pairing: times that agree.                                              *)

LEMMA EncoderChanges ==
  ASSUME NEW r \in Pairing!Encoder
  PROVE  /\ [r EXCEPT !.data = TRUE] \in Pairing!Encoder
         /\ \A p \in Outputs \cup {AudioEncoder} : [r EXCEPT !.paired = p] \in Pairing!Encoder
         /\ \A c \in SUBSET Outputs :
              /\ [r EXCEPT !.callbacks = c] \in Pairing!Encoder
              /\ \A t \in Nat : [r EXCEPT !.callbacks = c, !.cur_pts = t] \in Pairing!Encoder
         /\ \A t \in Nat :
              /\ [r EXCEPT !.first_received = TRUE, !.first_raw_ts = t] \in Pairing!Encoder
              /\ [Pairing!Closed EXCEPT !.first_raw_ts = t] \in Pairing!Encoder
              /\ \A u \in Nat :
                   /\ [r EXCEPT !.start_ts = t, !.cur_pts = u] \in Pairing!Encoder
                   /\ \A b \in BOOLEAN :
                        [r EXCEPT !.start_ts = t, !.cur_pts = u, !.first_received = b]
                          \in Pairing!Encoder
BY DEF Pairing!Encoder, Pairing!Closed, Pairing!None

LEMMA PairKeepsFields ==
  ASSUME NEW r \in Pairing!Encoder, NEW p
  PROVE  LET s == [r EXCEPT !.paired = p]
         IN  /\ s.data = r.data /\ s.callbacks = r.callbacks /\ s.paired = p
             /\ s.first_received = r.first_received /\ s.first_raw_ts = r.first_raw_ts
             /\ s.start_ts = r.start_ts /\ s.cur_pts = r.cur_pts
  BY DEF Pairing!Encoder

LEMMA PairingInit == Pairing!Init => Pairing!IInv
<1> SUFFICES ASSUME Pairing!Init PROVE Pairing!IInv
  OBVIOUS
<1> USE PairingAssumption DEF Pairing!Init, Pairing!None, Pairing!Closed
<1>1. Pairing!TypeOK
  <2>1. Pairing!Closed \in Pairing!Encoder
    BY DEF Pairing!Encoder
  <2>2. paired \in [Outputs \cup {AudioEncoder} -> Pairing!Encoder]
    BY <2>1
  <2>3. buffer \in Seq(Nat) /\ v_time \in Nat \ {0} /\ a_time \in Nat \ {0}
    OBVIOUS
  <2>4. QED
    BY <2>2, <2>3 DEF Pairing!TypeOK
<1>2. Pairing!Connected
  BY DEF Pairing!Connected
<1>3. Pairing!AsNew
  BY DEF Pairing!AsNew, Pairing!Active
<1>4. Pairing!Mutual
  BY DEF Pairing!Mutual
<1>5. Pairing!VideoGoesOn /\ Pairing!AudioGoesOn
  BY DEF Pairing!VideoGoesOn, Pairing!AudioGoesOn
<1>6. QED
  BY <1>1, <1>2, <1>3, <1>4, <1>5 DEF Pairing!IInv

\* What the start of an output leaves alone in an encoder.
KeepsTimes(e) ==
  /\ paired'[e].first_received = paired[e].first_received
  /\ paired'[e].first_raw_ts = paired[e].first_raw_ts
  /\ paired'[e].start_ts = paired[e].start_ts
  /\ paired'[e].cur_pts = paired[e].cur_pts
  /\ Pairing!Active(e) => Pairing!Active(e)'
  /\ paired'[e].paired # paired[e].paired => ~paired[e].first_received /\ paired[e].start_ts = Pairing!None

LEMMA StartKeeps ==
  ASSUME Pairing!AsNew, Pairing!VideoGoesOn, Pairing!AudioGoesOn,
         UNCHANGED <<buffer, receiving, a_time, v_time>>,
         \A e \in Outputs \cup {AudioEncoder} : KeepsTimes(e)
  PROVE  (Pairing!AsNew /\ Pairing!VideoGoesOn /\ Pairing!AudioGoesOn)'
<1>1. \A e \in Outputs \cup {AudioEncoder} :
        /\ paired'[e].start_ts = Pairing!None => paired'[e].cur_pts = 0
        /\ ~Pairing!Active(e)' => ~paired'[e].first_received /\ paired'[e].start_ts = Pairing!None
  BY Zenon DEF Pairing!AsNew, KeepsTimes
<1>2. Pairing!AsNew'
  <2>1. /\ \A o \in Outputs : paired'[o].start_ts = Pairing!None => ~paired'[o].first_received
        /\ paired'[AudioEncoder].start_ts # Pairing!None => paired'[AudioEncoder].first_received
    BY DEF Pairing!AsNew, KeepsTimes
  <2>2. QED
    BY <1>1, <2>1 DEF Pairing!AsNew
<1>3. Pairing!VideoGoesOn'
  BY DEF Pairing!VideoGoesOn, KeepsTimes
<1>4. Pairing!AudioGoesOn'
  BY DEF Pairing!AudioGoesOn, Pairing!NextBlock, Pairing!BufferStart, KeepsTimes
<1>5. QED
  BY <1>2, <1>3, <1>4

\* While the last outputs stop, an output gets its encoders.
LEMMA InitializeKeeps ==
  ASSUME Pairing!IInv, NEW o \in Outputs, Pairing!Initialize(o)
  PROVE  Pairing!IInv'
<1> USE PairingAssumption
<1> DEFINE E == Outputs \cup {AudioEncoder}
<1>0. Pairing!TypeOK
  BY DEF Pairing!IInv
<1>1. /\ paired' = [e \in E |-> IF e \in {o, AudioEncoder} THEN [paired[e] EXCEPT !.data = TRUE]
                                ELSE paired[e]]
      /\ pair_output[o] = "idle" /\ pair_output' = [pair_output EXCEPT ![o] = "pair"]
      /\ \A p \in Outputs : pair_output[p] \in {"idle", "on", "stop"}
      /\ UNCHANGED <<buffer, receiving, a_time, v_time, drift, left>>
  BY <1>0 DEF Pairing!TypeOK, Pairing!Initialize, Pairing!Step, Pairing!Media
<1>2. \A e \in E : /\ KeepsTimes(e)
                   /\ paired'[e].callbacks = paired[e].callbacks
                   /\ paired'[e].paired = paired[e].paired
                   /\ e \in {o, AudioEncoder} \/ paired[e].data => paired'[e].data
  BY <1>0, <1>1 DEF Pairing!TypeOK, Pairing!Encoder, Pairing!Active, KeepsTimes
<1>3. \A p \in Outputs : pair_output'[p] = IF p = o THEN "pair" ELSE pair_output[p]
  BY <1>0, <1>1 DEF Pairing!TypeOK
<1>4. Pairing!TypeOK'
  <2>1. \A e \in E : [paired[e] EXCEPT !.data = TRUE] \in Pairing!Encoder
    BY <1>0, EncoderChanges DEF Pairing!TypeOK
  <2>2. paired' \in [E -> Pairing!Encoder]
    BY <1>0, <1>1, <2>1 DEF Pairing!TypeOK
  <2>3. QED
    BY <1>0, <1>1, <2>2 DEF Pairing!TypeOK
<1>5. ASSUME ~left
      PROVE  (Pairing!Connected /\ Pairing!AsNew /\ Pairing!Mutual /\ Pairing!VideoGoesOn
              /\ Pairing!AudioGoesOn /\ ~drift)'
  <2>1. /\ Pairing!Connected /\ Pairing!AsNew /\ Pairing!Mutual /\ Pairing!VideoGoesOn
        /\ Pairing!AudioGoesOn /\ ~drift
    BY <1>5 DEF Pairing!IInv
  <2>2. /\ pair_output[o] = "idle" /\ \A p \in Outputs : pair_output[p] \in {"idle", "on", "stop"}
        /\ UNCHANGED <<buffer, receiving, a_time, v_time, drift, left>>
    BY <1>1
  <2> HIDE DEF E
  <2>3. Pairing!Connected'
    <3>1. \A p \in Outputs : pair_output'[p] \in {"pair", "audio", "video"} <=> p = o
      BY <1>3, <2>2
    <3>2. ASSUME NEW p \in Outputs
          PROVE  /\ paired'[p].callbacks = IF pair_output'[p] = "on" THEN {p} ELSE {}
                 /\ p \in paired'[AudioEncoder].callbacks <=> pair_output'[p] \in {"video", "on", "stop"}
      BY <1>2, <1>3, <2>1, <2>2 DEF Pairing!Connected, E
    <3>3. ASSUME NEW p \in Outputs, pair_output'[p] \in {"pair", "audio", "video", "on"}
          PROVE  paired'[p].data
      BY <1>2, <1>3, <2>1, <2>2, <3>3 DEF Pairing!Connected, E
    <3>4. QED
      BY <3>1, <3>2, <3>3 DEF Pairing!Connected
  <2>4. Pairing!Mutual'
    BY <1>0, <1>2, <1>3, <2>1, <2>2 DEF Pairing!Mutual, Pairing!TypeOK, Pairing!Active, KeepsTimes, E
  <2>5. QED
    BY <1>2, <2>1, <2>2, <2>3, <2>4, StartKeeps DEF E
<1>6. QED
  BY <1>1, <1>4, <1>5 DEF Pairing!IInv

\* Two encoders are paired when nobody uses them.
LEMMA PairKeeps ==
  ASSUME Pairing!IInv, NEW o \in Outputs, Pairing!Pair(o)
  PROVE  Pairing!IInv'
<1> USE PairingAssumption
<1> DEFINE E == Outputs \cup {AudioEncoder}
           Used == \E e \in {o, AudioEncoder} : Pairing!Active(e) \/ paired[e].paired # Pairing!None
<1>0. Pairing!TypeOK
  BY DEF Pairing!IInv
<1>1. /\ paired' = IF Used THEN paired
                   ELSE [paired EXCEPT ![o].paired = AudioEncoder, ![AudioEncoder].paired = o]
      /\ pair_output[o] = "pair" /\ pair_output' = [pair_output EXCEPT ![o] = "audio"]
      /\ UNCHANGED <<buffer, receiving, a_time, v_time, drift, left>>
  BY DEF Pairing!Pair, Pairing!Step, Pairing!Media
<1>2. \A p \in Outputs : pair_output'[p] = IF p = o THEN "audio" ELSE pair_output[p]
  BY <1>0, <1>1 DEF Pairing!TypeOK
<1>3. \A e \in E : /\ paired'[e].callbacks = paired[e].callbacks
                   /\ paired'[e].data = paired[e].data
                   /\ paired'[e].first_received = paired[e].first_received
                   /\ paired'[e].first_raw_ts = paired[e].first_raw_ts
                   /\ paired'[e].start_ts = paired[e].start_ts
                   /\ paired'[e].cur_pts = paired[e].cur_pts
                   /\ paired'[e].paired = IF ~Used /\ e = o THEN AudioEncoder
                                          ELSE IF ~Used /\ e = AudioEncoder THEN o
                                          ELSE paired[e].paired
  <2>1. CASE Used
    BY <1>1, <2>1
  <2>2. CASE ~Used
    <3>1. paired' = [paired EXCEPT ![o].paired = AudioEncoder, ![AudioEncoder].paired = o]
      BY <1>1, <2>2
    <3>2. \A e \in E : \/ paired'[e] = paired[e] /\ e # o /\ e # AudioEncoder
                       \/ paired'[e] = [paired[e] EXCEPT !.paired = AudioEncoder] /\ e = o
                       \/ paired'[e] = [paired[e] EXCEPT !.paired = o] /\ e = AudioEncoder
      BY <1>0, <3>1 DEF Pairing!TypeOK
    <3>3. \A e \in E : paired[e] \in Pairing!Encoder
      BY <1>0 DEF Pairing!TypeOK
    <3> HIDE DEF E, Used
    <3>4. ASSUME NEW e \in E, e # o, e # AudioEncoder
          PROVE  paired'[e] = paired[e]
      BY <3>2, <3>4
    <3>5. /\ paired'[o].data = paired[o].data /\ paired'[o].callbacks = paired[o].callbacks
          /\ paired'[o].paired = AudioEncoder
          /\ paired'[o].first_received = paired[o].first_received
          /\ paired'[o].first_raw_ts = paired[o].first_raw_ts
          /\ paired'[o].start_ts = paired[o].start_ts /\ paired'[o].cur_pts = paired[o].cur_pts
      <4>1. paired'[o] = [paired[o] EXCEPT !.paired = AudioEncoder] /\ paired[o] \in Pairing!Encoder
        BY <3>2, <3>3 DEF E
      <4>2. QED
        BY <4>1, PairKeepsFields
    <3>6. /\ paired'[AudioEncoder].data = paired[AudioEncoder].data
          /\ paired'[AudioEncoder].callbacks = paired[AudioEncoder].callbacks
          /\ paired'[AudioEncoder].paired = o
          /\ paired'[AudioEncoder].first_received = paired[AudioEncoder].first_received
          /\ paired'[AudioEncoder].first_raw_ts = paired[AudioEncoder].first_raw_ts
          /\ paired'[AudioEncoder].start_ts = paired[AudioEncoder].start_ts
          /\ paired'[AudioEncoder].cur_pts = paired[AudioEncoder].cur_pts
      <4>1. /\ paired'[AudioEncoder] = [paired[AudioEncoder] EXCEPT !.paired = o]
            /\ paired[AudioEncoder] \in Pairing!Encoder
        BY <3>2, <3>3 DEF E
      <4>2. QED
        BY <4>1, PairKeepsFields
    <3>7. QED
      BY <2>2, <3>4, <3>5, <3>6
  <2> HIDE DEF E, Used
  <2>3. QED
    BY <2>1, <2>2
<1>4. Pairing!TypeOK'
  <2>1. \A e \in E : \A p \in E : [paired[e] EXCEPT !.paired = p] \in Pairing!Encoder
    BY <1>0, EncoderChanges DEF Pairing!TypeOK
  <2>2. paired' \in [E -> Pairing!Encoder]
    BY <1>0, <1>1, <2>1 DEF Pairing!TypeOK
  <2>3. QED
    BY <1>0, <1>1, <2>2 DEF Pairing!TypeOK
<1>5. ASSUME ~left
      PROVE  (Pairing!Connected /\ Pairing!AsNew /\ Pairing!Mutual /\ Pairing!VideoGoesOn
              /\ Pairing!AudioGoesOn /\ ~drift)'
  <2>1. /\ Pairing!Connected /\ Pairing!AsNew /\ Pairing!Mutual /\ Pairing!VideoGoesOn
        /\ Pairing!AudioGoesOn /\ ~drift
    BY <1>5 DEF Pairing!IInv
  <2>2. pair_output[o] = "pair" /\ UNCHANGED <<buffer, receiving, a_time, v_time, drift, left>>
    BY <1>1
  <2>3. \A e \in {o, AudioEncoder} : ~Used =>
          ~Pairing!Active(e) /\ paired[e].paired = Pairing!None
    OBVIOUS
  <2> HIDE DEF E, Used
  <2>4. \A e \in E : Pairing!Active(e)' = Pairing!Active(e)
    BY <1>3 DEF Pairing!Active
  <2>5. \A e \in E : KeepsTimes(e)
    BY <1>3, <2>1, <2>3, <2>4 DEF KeepsTimes, Pairing!AsNew, E
  <2>6. Pairing!Connected'
    <3>1. \A p \in Outputs : pair_output'[p] \in {"pair", "audio", "video"}
                               <=> pair_output[p] \in {"pair", "audio", "video"}
      BY <1>2, <2>2
    <3>2. ASSUME NEW p \in Outputs
          PROVE  /\ paired'[p].callbacks = IF pair_output'[p] = "on" THEN {p} ELSE {}
                 /\ p \in paired'[AudioEncoder].callbacks <=> pair_output'[p] \in {"video", "on", "stop"}
      BY <1>2, <1>3, <2>1, <2>2 DEF Pairing!Connected, E
    <3>3. ASSUME NEW p \in Outputs, pair_output'[p] \in {"pair", "audio", "video", "on"}
          PROVE  paired'[p].data
      BY <1>2, <1>3, <2>1, <2>2, <3>3 DEF Pairing!Connected, E
    <3>4. QED
      BY <2>1, <3>1, <3>2, <3>3 DEF Pairing!Connected
  <2>7. Pairing!Mutual'
    <3>1. CASE Used
      BY <1>0, <1>2, <1>3, <2>1, <2>2, <2>4, <3>1 DEF Pairing!Mutual, Pairing!TypeOK, E
    <3>2. CASE ~Used
      <4>1. \A p \in Outputs : paired[p].paired = Pairing!None
        BY <2>1, <2>3, <3>2 DEF Pairing!Mutual
      <4>2. QED
        BY <1>2, <1>3, <2>3, <2>4, <3>2, <4>1 DEF Pairing!Mutual, E
    <3>3. QED
      BY <3>1, <3>2
  <2>8. QED
    BY <2>1, <2>2, <2>5, <2>6, <2>7, StartKeeps DEF E
<1>6. QED
  BY <1>1, <1>4, <1>5 DEF Pairing!IInv

\* An encoder starts for an output.
Started(e, o) ==
  \A d \in Outputs \cup {AudioEncoder} :
    /\ paired'[d].data = paired[d].data
    /\ paired'[d].paired = paired[d].paired
    /\ paired'[d].first_received = paired[d].first_received
    /\ paired'[d].first_raw_ts = paired[d].first_raw_ts
    /\ paired'[d].start_ts = paired[d].start_ts
    /\ paired'[d].cur_pts = IF d = e /\ ~Pairing!Active(e) THEN 0 ELSE paired[d].cur_pts
    /\ paired'[d].callbacks = IF d = e THEN paired[d].callbacks \cup {o} ELSE paired[d].callbacks

LEMMA StartEncoderGives ==
  ASSUME Pairing!TypeOK, NEW o \in Outputs, NEW e \in Outputs \cup {AudioEncoder},
         Pairing!StartEncoder(e, o)
  PROVE  /\ paired' \in [Outputs \cup {AudioEncoder} -> Pairing!Encoder]
         /\ paired[e].data => Started(e, o)
<1> DEFINE E == Outputs \cup {AudioEncoder}
<1>1. CASE ~paired[e].data
  BY <1>1 DEF Pairing!TypeOK, Pairing!StartEncoder
<1>2. CASE paired[e].data
  <2>1. PICK t \in Nat : t = IF Pairing!Active(e) THEN paired[e].cur_pts ELSE 0
    BY DEF Pairing!TypeOK, Pairing!Encoder
  <2>2. PICK c \in SUBSET Outputs : c = paired[e].callbacks \cup {o}
    BY DEF Pairing!TypeOK, Pairing!Encoder
  <2>3. paired' = [paired EXCEPT ![e] = [paired[e] EXCEPT !.callbacks = c, !.cur_pts = t]]
    BY <1>2, <2>1, <2>2 DEF Pairing!TypeOK, Pairing!Encoder, Pairing!StartEncoder
  <2>4. [paired[e] EXCEPT !.callbacks = c, !.cur_pts = t] \in Pairing!Encoder
    BY EncoderChanges DEF Pairing!TypeOK
  <2>5. QED
    BY <1>2, <2>1, <2>2, <2>3, <2>4 DEF Pairing!TypeOK, Pairing!Encoder, Started
<1>3. QED
  BY <1>1, <1>2

LEMMA StartAudioKeeps ==
  ASSUME Pairing!IInv, NEW o \in Outputs, Pairing!StartAudio(o)
  PROVE  Pairing!IInv'
<1> USE PairingAssumption
<1> DEFINE E == Outputs \cup {AudioEncoder}
<1>0. Pairing!TypeOK
  BY DEF Pairing!IInv
<1>1. /\ pair_output[o] = "audio" /\ pair_output' = [pair_output EXCEPT ![o] = "video"]
      /\ Pairing!StartEncoder(AudioEncoder, o)
      /\ left' = (left \/ ~paired[AudioEncoder].data)
      /\ UNCHANGED <<buffer, receiving, a_time, v_time, drift>>
  BY DEF Pairing!StartAudio, Pairing!Step, Pairing!Media
<1>2. \A p \in Outputs : pair_output'[p] = IF p = o THEN "video" ELSE pair_output[p]
  BY <1>0, <1>1 DEF Pairing!TypeOK
<1>3. Pairing!TypeOK'
  <2>1. left' \in BOOLEAN
    BY <1>0, <1>1 DEF Pairing!TypeOK, Pairing!Encoder
  <2>2. paired' \in [E -> Pairing!Encoder]
    BY <1>0, <1>1, StartEncoderGives
  <2>3. QED
    BY <1>0, <1>1, <2>1, <2>2 DEF Pairing!TypeOK
<1>4. ASSUME ~left'
      PROVE  (Pairing!Connected /\ Pairing!AsNew /\ Pairing!Mutual /\ Pairing!VideoGoesOn
              /\ Pairing!AudioGoesOn /\ ~drift)'
  <2>1. /\ Pairing!Connected /\ Pairing!AsNew /\ Pairing!Mutual /\ Pairing!VideoGoesOn
        /\ Pairing!AudioGoesOn /\ ~drift
    BY <1>1, <1>4 DEF Pairing!IInv
  <2>2. pair_output[o] = "audio" /\ UNCHANGED <<buffer, receiving, a_time, v_time, drift>>
    BY <1>1
  <2>0. paired[AudioEncoder].data /\ Pairing!StartEncoder(AudioEncoder, o)
    BY <1>1, <1>4
  <2>11. Started(AudioEncoder, o)
    BY <1>0, <2>0, StartEncoderGives
  <2>12. Pairing!Connected /\ Pairing!AsNew /\ Pairing!Mutual
    BY <2>1
  <2>3. \A e \in E : /\ paired'[e].data = paired[e].data
                     /\ paired'[e].paired = paired[e].paired
                     /\ paired'[e].start_ts = paired[e].start_ts
                     /\ paired'[e].callbacks = IF e = AudioEncoder THEN paired[e].callbacks \cup {o}
                                               ELSE paired[e].callbacks
    BY <2>11 DEF Started
  <2>4. \A e \in E : KeepsTimes(e)
    <3>1. \A e \in E : paired'[e].cur_pts = paired[e].cur_pts
      BY <2>11, <2>12 DEF Started, Pairing!AsNew, Pairing!Active
    <3>2. QED
      BY <2>11, <2>3, <3>1 DEF Started, KeepsTimes, Pairing!Active
  <2> HIDE DEF E
  <2>5. Pairing!Connected'
    <3>1. \A p \in Outputs : pair_output'[p] \in {"pair", "audio", "video"}
                               <=> pair_output[p] \in {"pair", "audio", "video"}
      BY <1>2, <2>2
    <3>2. ASSUME NEW p \in Outputs
          PROVE  /\ paired'[p].callbacks = IF pair_output'[p] = "on" THEN {p} ELSE {}
                 /\ p \in paired'[AudioEncoder].callbacks <=> pair_output'[p] \in {"video", "on", "stop"}
      <4>1. paired'[p].callbacks = paired[p].callbacks
        BY <2>3 DEF E
      <4>2. p \in paired'[AudioEncoder].callbacks <=> p \in paired[AudioEncoder].callbacks \/ p = o
        BY <2>3 DEF E
      <4>3. CASE p = o
        BY <1>2, <2>12, <2>2, <4>1, <4>2, <4>3 DEF Pairing!Connected
      <4>4. CASE p # o
        BY <1>2, <2>12, <4>1, <4>2, <4>4 DEF Pairing!Connected
      <4>5. QED
        BY <4>3, <4>4
    <3>3. ASSUME NEW p \in Outputs, pair_output'[p] \in {"pair", "audio", "video", "on"}
          PROVE  paired'[p].data
      BY <1>2, <2>12, <2>2, <2>3, <3>3 DEF Pairing!Connected, E
    <3>4. QED
      BY <2>1, <3>1, <3>2, <3>3 DEF Pairing!Connected
  <2>6. Pairing!Mutual'
    <3>1. \A p \in Outputs : pair_output'[p] # "audio"
      BY <1>2, <2>1, <2>2 DEF Pairing!Connected
    <3>2. \A p \in Outputs : pair_output[p] \in {"audio", "video", "on"}
                             => pair_output'[p] \in {"audio", "video", "on"}
      BY <1>2
    <3>3. \A e \in E : paired'[e].paired = paired[e].paired /\ paired'[e].start_ts = paired[e].start_ts
      BY <2>3
    <3>4. QED
      BY <2>12, <3>1, <3>2, <3>3 DEF Pairing!Mutual, E
  <2>7. QED
    BY <2>1, <2>2, <2>4, <2>5, <2>6, StartKeeps DEF E
<1>5. QED
  BY <1>3, <1>4 DEF Pairing!IInv

LEMMA StartVideoKeeps ==
  ASSUME Pairing!IInv, NEW o \in Outputs, Pairing!StartVideo(o)
  PROVE  Pairing!IInv'
<1> USE PairingAssumption
<1> DEFINE E == Outputs \cup {AudioEncoder}
<1>0. Pairing!TypeOK
  BY DEF Pairing!IInv
<1>1. /\ pair_output[o] = "video" /\ pair_output' = [pair_output EXCEPT ![o] = "on"]
      /\ Pairing!StartEncoder(o, o)
      /\ UNCHANGED <<buffer, receiving, a_time, v_time, drift, left>>
  BY DEF Pairing!StartVideo, Pairing!Step, Pairing!Media
<1>2. \A p \in Outputs : pair_output'[p] = IF p = o THEN "on" ELSE pair_output[p]
  BY <1>0, <1>1 DEF Pairing!TypeOK
<1>3. Pairing!TypeOK'
  <2>1. paired' \in [E -> Pairing!Encoder]
    BY <1>0, <1>1, StartEncoderGives
  <2>2. QED
    BY <1>0, <1>1, <2>1 DEF Pairing!TypeOK
<1>4. ASSUME ~left
      PROVE  (Pairing!Connected /\ Pairing!AsNew /\ Pairing!Mutual /\ Pairing!VideoGoesOn
              /\ Pairing!AudioGoesOn /\ ~drift)'
  <2>1. /\ Pairing!Connected /\ Pairing!AsNew /\ Pairing!Mutual /\ Pairing!VideoGoesOn
        /\ Pairing!AudioGoesOn /\ ~drift
    BY <1>4 DEF Pairing!IInv
  <2>2. pair_output[o] = "video" /\ UNCHANGED <<buffer, receiving, a_time, v_time, drift>>
    BY <1>1
  <2>12. Pairing!Connected /\ Pairing!AsNew /\ Pairing!Mutual
    BY <2>1
  <2>3. /\ paired[o].data /\ paired[o].callbacks = {}
        /\ Pairing!StartEncoder(o, o)
    BY <1>1, <2>1, <2>2 DEF Pairing!Connected
  <2>13. Started(o, o)
    BY <1>0, <2>3, StartEncoderGives
  <2>4. \A e \in E : /\ paired'[e].data = paired[e].data
                     /\ paired'[e].paired = paired[e].paired
                     /\ paired'[e].callbacks = IF e = o THEN {o} ELSE paired[e].callbacks
    <3>1. {} \cup {o} = {o}
      OBVIOUS
    <3>2. QED
      BY <2>3, <2>13, <3>1 DEF Started
  <2>5. \A e \in E : KeepsTimes(e)
    <3>1. \A e \in E : paired'[e].cur_pts = paired[e].cur_pts
      BY <2>13, <2>12 DEF Started, Pairing!AsNew, Pairing!Active
    <3>2. QED
      BY <2>13, <2>4, <3>1 DEF Started, KeepsTimes, Pairing!Active
  <2> HIDE DEF E
  <2>6. Pairing!Connected'
    <3>1. \A p \in Outputs : pair_output'[p] \in {"pair", "audio", "video"}
                               => pair_output[p] \in {"pair", "audio", "video"}
      BY <1>2, <2>2
    <3>2. ASSUME NEW p \in Outputs
          PROVE  /\ paired'[p].callbacks = IF pair_output'[p] = "on" THEN {p} ELSE {}
                 /\ p \in paired'[AudioEncoder].callbacks <=> pair_output'[p] \in {"video", "on", "stop"}
      BY <1>2, <2>12, <2>2, <2>4 DEF Pairing!Connected, E
    <3>3. ASSUME NEW p \in Outputs, pair_output'[p] \in {"pair", "audio", "video", "on"}
          PROVE  paired'[p].data
      BY <1>2, <2>12, <2>2, <2>4, <3>3 DEF Pairing!Connected, E
    <3>4. QED
      BY <2>1, <3>1, <3>2, <3>3 DEF Pairing!Connected
  <2>7. Pairing!Mutual'
    <3>1. Pairing!Active(AudioEncoder)' = Pairing!Active(AudioEncoder)
      BY <2>4 DEF Pairing!Active, E
    <3>2. QED
      BY <1>2, <2>12, <2>2, <2>4, <2>5, <3>1 DEF Pairing!Mutual, KeepsTimes, E
  <2>8. QED
    BY <2>1, <2>2, <2>5, <2>6, <2>7, StartKeeps DEF E
<1>5. QED
  BY <1>1, <1>3, <1>4 DEF Pairing!IInv


\* What a stop does to an encoder and its output.
LEMMA StopEncoderGives ==
  ASSUME Pairing!TypeOK, NEW o \in Outputs, NEW e \in Outputs \cup {AudioEncoder},
         Pairing!StopEncoder(e, o)
  PROVE  /\ paired' \in [Outputs \cup {AudioEncoder} -> Pairing!Encoder]
         /\ \A d \in Outputs \cup {AudioEncoder} : d # e => paired'[d] = paired[d]
         /\ o \in paired[e].callbacks /\ paired[e].callbacks \ {o} = {} =>
              paired'[e] = [Pairing!Closed EXCEPT !.first_raw_ts = paired[e].first_raw_ts]
         /\ paired[e].callbacks \ {o} # {} =>
              paired'[e] = [paired[e] EXCEPT !.callbacks = paired[e].callbacks \ {o}]
<1> DEFINE rest == paired[e].callbacks \ {o}
           shut == [Pairing!Closed EXCEPT !.first_raw_ts = paired[e].first_raw_ts]
           less == [paired[e] EXCEPT !.callbacks = rest]
<1>1. paired' = [paired EXCEPT ![e] = IF o \in paired[e].callbacks /\ rest = {} THEN shut ELSE less]
  BY DEF Pairing!StopEncoder, Pairing!Shutdown
<1>2. paired[e] \in Pairing!Encoder /\ rest \in SUBSET Outputs /\ paired[e].first_raw_ts \in Nat
  BY DEF Pairing!TypeOK, Pairing!Encoder
<1>3. shut \in Pairing!Encoder /\ less \in Pairing!Encoder
  <2> HIDE DEF rest
  <2>1. QED
    BY <1>2, EncoderChanges
<1> HIDE DEF rest, shut, less
<1>4. QED
  BY <1>1, <1>3 DEF Pairing!TypeOK, rest, shut, less

LEMMA ClosedIsNew ==
  ASSUME NEW t
  PROVE  LET s == [Pairing!Closed EXCEPT !.first_raw_ts = t]
         IN  /\ s.callbacks = {} /\ s.paired = Pairing!None /\ ~s.first_received
             /\ s.start_ts = Pairing!None /\ s.cur_pts = 0 /\ s.first_raw_ts = t
  BY DEF Pairing!Closed, Pairing!None

\* Only the last user closes the audio, so no video that goes on waits for it.
LEMMA StopVideoKeeps ==
  ASSUME Pairing!IInv, NEW o \in Outputs, Pairing!StopVideo(o)
  PROVE  Pairing!IInv'
<1> USE PairingAssumption
<1> DEFINE E == Outputs \cup {AudioEncoder}
<1>0. Pairing!TypeOK
  BY DEF Pairing!IInv
<1>1. /\ pair_output[o] = "on" /\ pair_output' = [pair_output EXCEPT ![o] = "stop"]
      /\ left' = (left \/ (paired[AudioEncoder].paired = o /\ paired[AudioEncoder].start_ts = Pairing!None))
      /\ UNCHANGED <<buffer, receiving, a_time, v_time, drift>>
  BY DEF Pairing!StopVideo, Pairing!Step, Pairing!Media
<1>2. Pairing!StopEncoder(o, o)
  BY DEF Pairing!StopVideo
<1>3. \A p \in Outputs : pair_output'[p] = IF p = o THEN "stop" ELSE pair_output[p]
  BY <1>0, <1>1 DEF Pairing!TypeOK
<1>4. Pairing!TypeOK'
  <2>1. left' \in BOOLEAN
    BY <1>0, <1>1 DEF Pairing!TypeOK
  <2>2. paired' \in [E -> Pairing!Encoder]
    BY <1>0, <1>2, StopEncoderGives
  <2>3. QED
    BY <1>0, <1>1, <2>1, <2>2 DEF Pairing!TypeOK
<1>5. ASSUME ~left'
      PROVE  (Pairing!Connected /\ Pairing!AsNew /\ Pairing!Mutual /\ Pairing!VideoGoesOn
              /\ Pairing!AudioGoesOn /\ ~drift)'
  <2>1. /\ Pairing!Connected /\ Pairing!AsNew /\ Pairing!Mutual
        /\ Pairing!VideoGoesOn /\ Pairing!AudioGoesOn
    BY <1>1, <1>5 DEF Pairing!IInv
  <2>2. ~drift'
    BY <1>1, <1>5 DEF Pairing!IInv
  <2>3. /\ pair_output[o] = "on"
        /\ paired[AudioEncoder].paired = o => paired[AudioEncoder].start_ts # Pairing!None
        /\ UNCHANGED <<buffer, receiving, a_time, v_time>>
    BY <1>1, <1>5
  <2>4. paired[o].callbacks = {o}
    BY <2>1, <2>3 DEF Pairing!Connected
  <2>5. /\ paired'[o].callbacks = {} /\ paired'[o].paired = Pairing!None /\ ~paired'[o].first_received
        /\ paired'[o].start_ts = Pairing!None /\ paired'[o].cur_pts = 0
    <3>0. o \in paired[o].callbacks /\ paired[o].callbacks \ {o} = {}
      BY <2>4
    <3>1. paired'[o] = [Pairing!Closed EXCEPT !.first_raw_ts = paired[o].first_raw_ts]
      BY <1>0, <1>2, <3>0, StopEncoderGives
    <3>2. QED
      BY <3>1, ClosedIsNew
  <2>6. \A e \in E : e # o => paired'[e] = paired[e]
    BY <1>0, <1>2, StopEncoderGives
  <2>7. AudioEncoder \in E /\ AudioEncoder # o /\ Outputs \subseteq E
    OBVIOUS
  <2>8. \A e \in E : e # o => Pairing!Active(e)' = Pairing!Active(e)
    BY <2>6 DEF Pairing!Active
  <2> HIDE DEF E
  <2>9. Pairing!Connected'
    <3>1. \A p \in Outputs : pair_output'[p] \in {"pair", "audio", "video"}
                               => pair_output[p] \in {"pair", "audio", "video"}
      BY <1>3
    <3>2. ASSUME NEW p \in Outputs
          PROVE  /\ paired'[p].callbacks = IF pair_output'[p] = "on" THEN {p} ELSE {}
                 /\ p \in paired'[AudioEncoder].callbacks <=> pair_output'[p] \in {"video", "on", "stop"}
      <4>1. CASE p = o
        BY <1>3, <2>1, <2>3, <2>5, <2>6, <2>7, <4>1 DEF Pairing!Connected
      <4>2. CASE p # o
        BY <1>3, <2>1, <2>6, <2>7, <4>2 DEF Pairing!Connected
      <4>3. QED
        BY <4>1, <4>2
    <3>3. ASSUME NEW p \in Outputs, pair_output'[p] \in {"pair", "audio", "video", "on"}
          PROVE  paired'[p].data
      BY <1>3, <2>1, <2>6, <2>7, <3>3 DEF Pairing!Connected
    <3>4. QED
      BY <2>1, <3>1, <3>2, <3>3 DEF Pairing!Connected
  <2>10. Pairing!AsNew'
    <3>1. ASSUME NEW e \in E
          PROVE  /\ paired'[e].start_ts = Pairing!None => paired'[e].cur_pts = 0
                 /\ ~Pairing!Active(e)' => ~paired'[e].first_received /\ paired'[e].start_ts = Pairing!None
      <4>1. CASE e = o
        BY <2>5, <4>1
      <4>2. CASE e # o
        BY <2>1, <2>6, <2>8, <4>2 DEF Pairing!AsNew, E
      <4>3. QED
        BY <4>1, <4>2
    <3>2. ASSUME NEW p \in Outputs, paired'[p].start_ts = Pairing!None
          PROVE  ~paired'[p].first_received
      BY <2>1, <2>5, <2>6, <2>7, <3>2 DEF Pairing!AsNew
    <3>3. paired'[AudioEncoder].start_ts # Pairing!None => paired'[AudioEncoder].first_received
      BY <2>1, <2>6, <2>7 DEF Pairing!AsNew
    <3>4. QED
      BY <3>1, <3>2, <3>3 DEF Pairing!AsNew, E
  <2>11. Pairing!Mutual'
    <3>1. ASSUME NEW p \in Outputs, paired'[p].paired # Pairing!None
          PROVE  /\ paired'[p].paired = AudioEncoder /\ paired'[AudioEncoder].paired = p
                 /\ pair_output'[p] \in {"audio", "video", "on"}
                 /\ pair_output'[p] = "audio" => ~Pairing!Active(AudioEncoder)'
      BY <1>3, <2>1, <2>5, <2>6, <2>7, <2>8, <3>1 DEF Pairing!Mutual
    <3>2. ASSUME paired'[AudioEncoder].paired # Pairing!None
          PROVE  /\ paired'[AudioEncoder].paired \in Outputs
                 /\ paired'[AudioEncoder].start_ts = Pairing!None =>
                      paired'[paired'[AudioEncoder].paired].paired = AudioEncoder
      BY <2>1, <2>3, <2>6, <2>7, <3>2 DEF Pairing!Mutual
    <3>3. QED
      BY <3>1, <3>2 DEF Pairing!Mutual
  <2>12. Pairing!VideoGoesOn'
    BY <2>1, <2>3, <2>5, <2>6, <2>7 DEF Pairing!VideoGoesOn
  <2>13. Pairing!AudioGoesOn'
    BY <2>1, <2>3, <2>6, <2>7 DEF Pairing!AudioGoesOn, Pairing!NextBlock, Pairing!BufferStart, Pairing!RunsFrom
  <2>14. QED
    BY <2>2, <2>9, <2>10, <2>11, <2>12, <2>13
<1>6. QED
  BY <1>4, <1>5 DEF Pairing!IInv

LEMMA StopAudioKeeps ==
  ASSUME Pairing!IInv, NEW o \in Outputs, Pairing!StopAudio(o)
  PROVE  Pairing!IInv'
<1> USE PairingAssumption
<1> DEFINE E == Outputs \cup {AudioEncoder}
<1>0. Pairing!TypeOK
  BY DEF Pairing!IInv
<1>1. /\ pair_output[o] = "stop" /\ pair_output' = [pair_output EXCEPT ![o] = "idle"]
      /\ receiving = Pairing!None
      /\ UNCHANGED <<buffer, receiving, a_time, v_time, drift, left>>
  BY DEF Pairing!StopAudio, Pairing!Step, Pairing!Media
<1>2. Pairing!StopEncoder(AudioEncoder, o)
  BY DEF Pairing!StopAudio
<1>3. \A p \in Outputs : pair_output'[p] = IF p = o THEN "idle" ELSE pair_output[p]
  BY <1>0, <1>1 DEF Pairing!TypeOK
<1>4. Pairing!TypeOK'
  <2>1. paired' \in [E -> Pairing!Encoder]
    BY <1>0, <1>2, StopEncoderGives
  <2>2. QED
    BY <1>0, <1>1, <2>1 DEF Pairing!TypeOK
<1>5. ASSUME ~left
      PROVE  (Pairing!Connected /\ Pairing!AsNew /\ Pairing!Mutual /\ Pairing!VideoGoesOn
              /\ Pairing!AudioGoesOn /\ ~drift)'
  <2>1. /\ Pairing!Connected /\ Pairing!AsNew /\ Pairing!Mutual
        /\ Pairing!VideoGoesOn /\ Pairing!AudioGoesOn
    BY <1>5 DEF Pairing!IInv
  <2>2. ~drift'
    BY <1>1, <1>5 DEF Pairing!IInv
  <2>3. /\ pair_output[o] = "stop" /\ receiving = Pairing!None
        /\ UNCHANGED <<buffer, receiving, a_time, v_time>>
    BY <1>1
  <2>4. o \in paired[AudioEncoder].callbacks
    BY <2>1, <2>3 DEF Pairing!Connected
  <2>5. \A p \in Outputs : p \in E /\ p # AudioEncoder /\ paired'[p] = paired[p]
    BY <1>0, <1>2, StopEncoderGives
  <2>6. AudioEncoder \in E
    OBVIOUS
  <2>7. paired'[AudioEncoder].callbacks = paired[AudioEncoder].callbacks \ {o}
    <3>1. CASE paired[AudioEncoder].callbacks \ {o} = {}
      <4>1. paired'[AudioEncoder] = [Pairing!Closed EXCEPT !.first_raw_ts = paired[AudioEncoder].first_raw_ts]
        BY <1>0, <1>2, <2>4, <3>1, StopEncoderGives
      <4>2. QED
        BY <3>1, <4>1, ClosedIsNew
    <3>2. CASE paired[AudioEncoder].callbacks \ {o} # {}
      <4>1. paired'[AudioEncoder] = [paired[AudioEncoder] EXCEPT !.callbacks = @ \ {o}]
        BY <1>0, <1>2, <3>2, StopEncoderGives
      <4>2. paired[AudioEncoder] \in Pairing!Encoder
        BY <1>0 DEF Pairing!TypeOK
      <4>3. QED
        BY <4>1, <4>2 DEF Pairing!Encoder
    <3>3. QED
      BY <3>1, <3>2
  <2>8. /\ paired'[AudioEncoder].first_raw_ts = paired[AudioEncoder].first_raw_ts
        /\ \/ /\ paired'[AudioEncoder].callbacks # {}
              /\ paired'[AudioEncoder].paired = paired[AudioEncoder].paired
              /\ paired'[AudioEncoder].first_received = paired[AudioEncoder].first_received
              /\ paired'[AudioEncoder].start_ts = paired[AudioEncoder].start_ts
              /\ paired'[AudioEncoder].cur_pts = paired[AudioEncoder].cur_pts
           \/ /\ paired'[AudioEncoder].callbacks = {}
              /\ paired'[AudioEncoder].paired = Pairing!None
              /\ ~paired'[AudioEncoder].first_received
              /\ paired'[AudioEncoder].start_ts = Pairing!None
              /\ paired'[AudioEncoder].cur_pts = 0
    <3>1. CASE paired[AudioEncoder].callbacks \ {o} = {}
      <4>1. paired'[AudioEncoder] = [Pairing!Closed EXCEPT !.first_raw_ts = paired[AudioEncoder].first_raw_ts]
        BY <1>0, <1>2, <2>4, <3>1, StopEncoderGives
      <4>2. QED
        BY <4>1, ClosedIsNew
    <3>2. CASE paired[AudioEncoder].callbacks \ {o} # {}
      <4>1. paired'[AudioEncoder] = [paired[AudioEncoder] EXCEPT !.callbacks = @ \ {o}]
        BY <1>0, <1>2, <3>2, StopEncoderGives
      <4>2. paired[AudioEncoder] \in Pairing!Encoder
        BY <1>0 DEF Pairing!TypeOK
      <4>3. paired'[AudioEncoder].first_received = paired[AudioEncoder].first_received
        BY <4>1, <4>2 DEF Pairing!Encoder
      <4>4. QED
        BY <2>7, <3>2, <4>1, <4>2, <4>3 DEF Pairing!Encoder
    <3>3. QED
      BY <3>1, <3>2
  <2> HIDE DEF E
  <2>9. Pairing!Connected'
    <3>1. \A p \in Outputs : pair_output'[p] \in {"pair", "audio", "video"}
                               => pair_output[p] \in {"pair", "audio", "video"}
      BY <1>3
    <3>2. ASSUME NEW p \in Outputs
          PROVE  /\ paired'[p].callbacks = IF pair_output'[p] = "on" THEN {p} ELSE {}
                 /\ p \in paired'[AudioEncoder].callbacks <=> pair_output'[p] \in {"video", "on", "stop"}
      <4>1. CASE p = o
        BY <1>3, <2>1, <2>3, <2>5, <2>7, <4>1 DEF Pairing!Connected
      <4>2. CASE p # o
        BY <1>3, <2>1, <2>5, <2>7, <4>2 DEF Pairing!Connected
      <4>3. QED
        BY <4>1, <4>2
    <3>3. ASSUME NEW p \in Outputs, pair_output'[p] \in {"pair", "audio", "video", "on"}
          PROVE  paired'[p].data
      BY <1>3, <2>1, <2>5, <3>3 DEF Pairing!Connected
    <3>4. QED
      BY <2>1, <3>1, <3>2, <3>3 DEF Pairing!Connected
  <2>10. Pairing!AsNew'
    <3>1. ASSUME NEW e \in E
          PROVE  /\ paired'[e].start_ts = Pairing!None => paired'[e].cur_pts = 0
                 /\ ~Pairing!Active(e)' => ~paired'[e].first_received /\ paired'[e].start_ts = Pairing!None
      <4>1. CASE e = AudioEncoder
        BY <2>1, <2>6, <2>8, <4>1 DEF Pairing!AsNew, Pairing!Active, E
      <4>2. CASE e # AudioEncoder
        BY <2>1, <2>5, <4>2 DEF Pairing!AsNew, Pairing!Active, E
      <4>3. QED
        BY <4>1, <4>2
    <3>2. ASSUME NEW p \in Outputs, paired'[p].start_ts = Pairing!None
          PROVE  ~paired'[p].first_received
      BY <2>1, <2>5, <3>2 DEF Pairing!AsNew
    <3>3. paired'[AudioEncoder].start_ts # Pairing!None => paired'[AudioEncoder].first_received
      BY <2>1, <2>8 DEF Pairing!AsNew
    <3>4. QED
      BY <3>1, <3>2, <3>3 DEF Pairing!AsNew, E
  <2>11. \A p \in Outputs : paired[p].paired # Pairing!None =>
           /\ p # o /\ pair_output[p] \in {"video", "on"}
           /\ paired'[AudioEncoder].callbacks # {}
    BY <2>1, <2>3, <2>4, <2>7, ZenonT(30) DEF Pairing!Mutual, Pairing!Connected, Pairing!Active
  <2>12. Pairing!Mutual'
    <3>1. ASSUME NEW p \in Outputs, paired'[p].paired # Pairing!None
          PROVE  /\ paired'[p].paired = AudioEncoder /\ paired'[AudioEncoder].paired = p
                 /\ pair_output'[p] \in {"audio", "video", "on"}
                 /\ pair_output'[p] # "audio"
      BY <1>3, <2>1, <2>5, <2>8, <2>11, <3>1 DEF Pairing!Mutual
    <3>2. ASSUME paired'[AudioEncoder].paired # Pairing!None
          PROVE  /\ paired'[AudioEncoder].paired \in Outputs
                 /\ paired'[AudioEncoder].start_ts = Pairing!None =>
                      paired'[paired'[AudioEncoder].paired].paired = AudioEncoder
      BY <2>1, <2>5, <2>8, <3>2 DEF Pairing!Mutual
    <3>3. QED
      BY <3>1, <3>2 DEF Pairing!Mutual
  <2>13. Pairing!VideoGoesOn'
    BY <2>1, <2>3, <2>5, <2>8, <2>11 DEF Pairing!VideoGoesOn
  <2>14. Pairing!AudioGoesOn'
    BY <2>1, <2>3, <2>8 DEF Pairing!AudioGoesOn, Pairing!NextBlock, Pairing!BufferStart, Pairing!RunsFrom
  <2>15. QED
    BY <2>2, <2>9, <2>10, <2>12, <2>13, <2>14
<1>6. QED
  BY <1>1, <1>4, <1>5 DEF Pairing!IInv


\* The buffer: what is appended goes on, what is cut off leaves the rest in place.
LEMMA RunsOn ==
  ASSUME NEW s \in Seq(Nat), NEW u \in Seq(Nat), NEW t \in Nat,
         Pairing!RunsFrom(s, t), Pairing!RunsFrom(u, t + Len(s))
  PROVE  Pairing!RunsFrom(s \o u, t) /\ s \o u \in Seq(Nat) /\ Len(s \o u) = Len(s) + Len(u)
BY DEF Pairing!RunsFrom

LEMMA RunsFurther ==
  ASSUME NEW s \in Seq(Nat), NEW t \in Nat, NEW n \in 0..Len(s), Pairing!RunsFrom(s, t)
  PROVE  Pairing!RunsFrom(SubSeq(s, n + 1, Len(s)), t + n)
<1> DEFINE m == Len(s)
           u == SubSeq(s, n + 1, m)
<1>1. m \in Nat /\ n \in Nat
  OBVIOUS
<1>2. Len(u) = m - n /\ \A i \in 1..(m - n) : u[i] = s[n + i]
  BY <1>1
<1>3. \A i \in 1..m : s[i] = t + i - 1
  BY DEF Pairing!RunsFrom
<1> HIDE DEF u, m
<1>4. \A i \in 1..Len(u) : u[i] = (t + n) + i - 1
  BY <1>1, <1>2, <1>3
<1>5. QED
  BY <1>4 DEF Pairing!RunsFrom, u, m

LEMMA CutTypes ==
  ASSUME NEW s \in Seq(Nat), NEW n \in 0..Len(s)
  PROVE  SubSeq(s, n + 1, Len(s)) \in Seq(Nat) /\ Len(SubSeq(s, n + 1, Len(s))) = Len(s) - n
OBVIOUS

LEMMA BlockRuns ==
  ASSUME NEW t \in Nat \ {0}
  PROVE  /\ Pairing!Block(t) \in Seq(Nat) /\ Len(Pairing!Block(t)) = BlockSize
         /\ Pairing!RunsFrom(Pairing!Block(t), t)
<1> USE PairingAssumption
<1>1. \A i \in 1..BlockSize : t + i - 1 \in Nat
  OBVIOUS
<1>2. Pairing!Block(t) \in [1..BlockSize -> Nat]
  BY <1>1 DEF Pairing!Block
<1>3. Pairing!Block(t) \in Seq(Nat) /\ Len(Pairing!Block(t)) = BlockSize
  BY <1>2
<1>4. QED
  BY <1>3 DEF Pairing!RunsFrom, Pairing!Block

LEMMA WholePackets ==
  ASSUME NEW n \in Nat
  PROVE  (n \div framesize) * framesize \in 0..n
BY PairingAssumption


\* What audio and video leave alone in an encoder: who uses it.
KeepsUse(e) ==
  /\ paired'[e].data = paired[e].data
  /\ paired'[e].callbacks = paired[e].callbacks
  /\ paired'[e].paired = paired[e].paired

LEMMA MediaKeep ==
  ASSUME Pairing!Connected, Pairing!Mutual, UNCHANGED pair_output,
         \A e \in Outputs \cup {AudioEncoder} : KeepsUse(e),
         paired'[AudioEncoder].start_ts = Pairing!None => paired[AudioEncoder].start_ts = Pairing!None
  PROVE  (Pairing!Connected /\ Pairing!Mutual)'
<1>1. Pairing!Connected'
  BY DEF Pairing!Connected, KeepsUse
<1>2. Pairing!Active(AudioEncoder)' = Pairing!Active(AudioEncoder)
  BY DEF Pairing!Active, KeepsUse
<1>3. Pairing!Mutual'
  <2>1. ASSUME NEW p \in Outputs, paired'[p].paired # Pairing!None
        PROVE  /\ paired'[p].paired = AudioEncoder /\ paired'[AudioEncoder].paired = p
               /\ pair_output'[p] \in {"audio", "video", "on"}
               /\ pair_output'[p] = "audio" => ~Pairing!Active(AudioEncoder)'
    BY <1>2, <2>1 DEF Pairing!Mutual, KeepsUse
  <2>2. ASSUME paired'[AudioEncoder].paired # Pairing!None
        PROVE  /\ paired'[AudioEncoder].paired \in Outputs
               /\ paired'[AudioEncoder].start_ts = Pairing!None =>
                    paired'[paired'[AudioEncoder].paired].paired = AudioEncoder
    BY <2>2 DEF Pairing!Mutual, KeepsUse
  <2>3. QED
    BY <2>1, <2>2 DEF Pairing!Mutual
<1>4. QED
  BY <1>1, <1>3

\* A block comes, the first one or the next.
LEMMA ReceiveAudioKeeps ==
  ASSUME Pairing!IInv, Pairing!ReceiveAudio
  PROVE  Pairing!IInv'
<1> USE PairingAssumption
<1> DEFINE E == Outputs \cup {AudioEncoder}
           came == [paired[AudioEncoder] EXCEPT !.first_received = TRUE, !.first_raw_ts = a_time]
<1>0. Pairing!TypeOK
  BY DEF Pairing!IInv
<1>1. /\ receiving = Pairing!None /\ a_time' = a_time + BlockSize
      /\ UNCHANGED <<v_time, pair_output, drift, left>>
      /\ a_time \in Nat \ {0} /\ a_time' \in Nat \ {0}
  BY <1>0 DEF Pairing!ReceiveAudio, Pairing!TypeOK
<1>2. CASE ~Pairing!Active(AudioEncoder)
  <2>1. UNCHANGED <<receiving, paired, buffer>>
    BY <1>2 DEF Pairing!ReceiveAudio
  <2>2. Pairing!TypeOK'
    BY <1>0, <1>1, <2>1 DEF Pairing!TypeOK
  <2>3. ASSUME ~left
        PROVE  (Pairing!Connected /\ Pairing!AsNew /\ Pairing!Mutual /\ Pairing!VideoGoesOn
                /\ Pairing!AudioGoesOn /\ ~drift)'
    <3>1. /\ Pairing!Connected /\ Pairing!AsNew /\ Pairing!Mutual
          /\ Pairing!VideoGoesOn /\ Pairing!AudioGoesOn
      BY <2>3 DEF Pairing!IInv
    <3>2. ~drift'
      BY <1>1, <2>3 DEF Pairing!IInv
    <3>3. (Pairing!Connected /\ Pairing!AsNew /\ Pairing!Mutual /\ Pairing!VideoGoesOn)'
      BY <1>1, <2>1, <3>1 DEF Pairing!Connected, Pairing!AsNew, Pairing!Mutual, Pairing!VideoGoesOn,
                              Pairing!Active
    <3>4. ~paired[AudioEncoder].first_received
      BY <1>2, <3>1 DEF Pairing!AsNew
    <3>5. Pairing!AudioGoesOn'
      BY <1>1, <2>1, <3>4 DEF Pairing!AudioGoesOn
    <3>6. QED
      BY <3>2, <3>3, <3>5
  <2>4. QED
    BY <1>1, <2>2, <2>3 DEF Pairing!IInv
<1>3. CASE Pairing!Active(AudioEncoder)
  <2>1. /\ receiving' = a_time
        /\ \/ paired[AudioEncoder].first_received /\ UNCHANGED <<paired, buffer>>
           \/ /\ ~paired[AudioEncoder].first_received /\ buffer' = <<>>
              /\ paired' = [paired EXCEPT ![AudioEncoder] = came]
    BY <1>0, <1>3 DEF Pairing!ReceiveAudio, Pairing!TypeOK
  <2>2. came \in Pairing!Encoder
    BY <1>0, <1>1, EncoderChanges DEF Pairing!TypeOK
  <2> HIDE DEF came
  <2>3. paired' \in [E -> Pairing!Encoder] /\ buffer' \in Seq(Nat)
    <3>1. paired \in [E -> Pairing!Encoder] /\ buffer \in Seq(Nat)
      BY <1>0 DEF Pairing!TypeOK
    <3>2. CASE UNCHANGED <<paired, buffer>>
      BY <3>1, <3>2
    <3>3. CASE buffer' = <<>> /\ paired' = [paired EXCEPT ![AudioEncoder] = came]
      BY <2>2, <3>1, <3>3
    <3>4. QED
      BY <2>1, <3>2, <3>3
  <2>4. Pairing!TypeOK'
    BY <1>0, <1>1, <2>1, <2>3 DEF Pairing!TypeOK
  <2>5. ASSUME ~left
        PROVE  (Pairing!Connected /\ Pairing!AsNew /\ Pairing!Mutual /\ Pairing!VideoGoesOn
                /\ Pairing!AudioGoesOn /\ ~drift)'
    <3>1. /\ Pairing!Connected /\ Pairing!AsNew /\ Pairing!Mutual
          /\ Pairing!VideoGoesOn /\ Pairing!AudioGoesOn
      BY <2>5 DEF Pairing!IInv
    <3>2. ~drift'
      BY <1>1, <2>5 DEF Pairing!IInv
    <3>3. CASE paired[AudioEncoder].first_received /\ UNCHANGED <<paired, buffer>>
      <4>1. (Pairing!Connected /\ Pairing!AsNew /\ Pairing!Mutual /\ Pairing!VideoGoesOn)'
        BY <1>1, <3>1, <3>3 DEF Pairing!Connected, Pairing!AsNew, Pairing!Mutual,
                                Pairing!VideoGoesOn, Pairing!Active
      <4>2. /\ a_time = Pairing!BufferStart + Len(buffer)
            /\ Pairing!RunsFrom(buffer, Pairing!BufferStart)
            /\ paired[AudioEncoder].first_raw_ts # Pairing!None
            /\ ~(paired[AudioEncoder].start_ts = Pairing!None
                 /\ paired[AudioEncoder].paired = Pairing!None)
        BY <1>1, <3>1, <3>3 DEF Pairing!AudioGoesOn, Pairing!NextBlock
      <4>3. Pairing!BufferStart' = Pairing!BufferStart /\ Pairing!NextBlock' = a_time
        BY <1>1, <2>1, <3>3 DEF Pairing!BufferStart, Pairing!NextBlock, Pairing!None
      <4>4. Pairing!RunsFrom(buffer, Pairing!BufferStart)'
        BY <3>3, <4>2, <4>3 DEF Pairing!RunsFrom
      <4>5. Pairing!AudioGoesOn'
        BY <1>1, <2>1, <3>3, <4>2, <4>3, <4>4 DEF Pairing!AudioGoesOn
      <4>6. QED
        BY <3>2, <4>1, <4>5
    <3>4. CASE /\ ~paired[AudioEncoder].first_received /\ buffer' = <<>>
               /\ paired' = [paired EXCEPT ![AudioEncoder] = came]
      <4>1. \A p \in Outputs : paired'[p] = paired[p]
        BY <1>0, <3>4 DEF Pairing!TypeOK
      <4>2. paired'[AudioEncoder] = came /\ paired[AudioEncoder] \in Pairing!Encoder
        BY <1>0, <3>4 DEF Pairing!TypeOK
      <4>3. /\ paired'[AudioEncoder].callbacks = paired[AudioEncoder].callbacks
            /\ paired'[AudioEncoder].paired = paired[AudioEncoder].paired
            /\ paired'[AudioEncoder].first_raw_ts = a_time
            /\ paired'[AudioEncoder].start_ts = paired[AudioEncoder].start_ts
            /\ paired'[AudioEncoder].cur_pts = paired[AudioEncoder].cur_pts
        BY <4>2 DEF Pairing!Encoder, came
      <4>4. /\ paired'[AudioEncoder].data = paired[AudioEncoder].data
            /\ paired'[AudioEncoder].first_received
        BY <4>2 DEF Pairing!Encoder, came
      <4>5. paired[AudioEncoder].start_ts = Pairing!None
        BY <3>1, <3>4 DEF Pairing!AsNew
      <4>6. (Pairing!Connected /\ Pairing!Mutual)'
        <5>1. \A e \in E : KeepsUse(e)
          BY <4>1, <4>3, <4>4 DEF KeepsUse
        <5>2. QED
          BY <1>1, <3>1, <4>5, <5>1, MediaKeep
      <4>7. Pairing!AsNew'
        <5>1. ASSUME NEW e \in E
              PROVE  /\ paired'[e].start_ts = Pairing!None => paired'[e].cur_pts = 0
                     /\ ~Pairing!Active(e)' => ~paired'[e].first_received /\ paired'[e].start_ts = Pairing!None
          <6>1. CASE e = AudioEncoder
            BY <1>3, <3>1, <4>3, <6>1 DEF Pairing!AsNew, Pairing!Active
          <6>2. CASE e # AudioEncoder
            BY <3>1, <4>1, <6>2 DEF Pairing!AsNew, Pairing!Active
          <6>3. QED
            BY <6>1, <6>2
        <5>2. \A p \in Outputs : paired'[p].start_ts = Pairing!None => ~paired'[p].first_received
          BY <3>1, <4>1 DEF Pairing!AsNew
        <5>3. QED
          BY <4>4, <5>1, <5>2 DEF Pairing!AsNew
      <4>8. Pairing!VideoGoesOn'
        BY <1>1, <3>1, <3>4, <4>1 DEF Pairing!VideoGoesOn
      <4>9. Pairing!AudioGoesOn'
        <5>1. Pairing!BufferStart' = a_time /\ Pairing!NextBlock' = a_time
          BY <1>1, <2>1, <4>3, <4>5 DEF Pairing!BufferStart, Pairing!NextBlock, Pairing!None
        <5>2. Len(buffer') = 0 /\ Pairing!RunsFrom(buffer, Pairing!BufferStart)'
          BY <3>4 DEF Pairing!RunsFrom
        <5>3. QED
          BY <1>1, <2>1, <4>3, <4>4, <5>1, <5>2 DEF Pairing!AudioGoesOn, Pairing!None
      <4>10. QED
        BY <3>2, <4>6, <4>7, <4>8, <4>9
    <3>5. QED
      BY <2>1, <3>3, <3>4
  <2>6. QED
    BY <1>1, <2>4, <2>5 DEF Pairing!IInv
<1>4. QED
  BY <1>2, <1>3


LEMMA AnyCut ==
  ASSUME NEW s \in Seq(Nat), NEW k \in Nat
  PROVE  SubSeq(s, 1 + k, Len(s)) \in Seq(Nat)
<1>1. CASE k <= Len(s)
  BY <1>1
<1>2. CASE k > Len(s)
  <2>1. SubSeq(s, 1 + k, Len(s)) = <<>>
    BY <1>2
  <2>2. QED
    BY <2>1
<1>3. QED
  BY <1>1, <1>2

AudioStart == IF paired[AudioEncoder].paired = Pairing!None THEN receiving
              ELSE paired[paired[AudioEncoder].paired].start_ts

\* The cases of buffer_audio.
LEMMA BufferAudioCases ==
  LET audio == paired[AudioEncoder]
      block == Pairing!Block(receiving)
      cut   == IF receiving < AudioStart THEN AudioStart - receiving ELSE 0
  IN  /\ audio.start_ts # Pairing!None =>
           Pairing!buffer_audio = [start |-> audio.start_ts, samples |-> buffer \o block]
      /\ audio.start_ts = Pairing!None /\ audio.paired = Pairing!None =>
           Pairing!buffer_audio = [start |-> receiving, samples |-> buffer \o block]
      /\ audio.start_ts = Pairing!None /\ audio.paired # Pairing!None =>
           /\ AudioStart = Pairing!None \/ receiving + BlockSize <= AudioStart =>
                Pairing!buffer_audio = [start |-> Pairing!None, samples |-> buffer \o block]
           /\ ~(AudioStart = Pairing!None \/ receiving + BlockSize <= AudioStart) =>
                /\ receiving <= AudioStart =>
                     Pairing!buffer_audio = [start   |-> AudioStart,
                                             samples |-> SubSeq(block, 1 + cut, BlockSize)]
                /\ ~(receiving <= AudioStart) =>
                     Pairing!buffer_audio = [start   |-> AudioStart,
                                             samples |-> Pairing!start_from_buffer(AudioStart) \o block]
BY Zenon DEF Pairing!buffer_audio, AudioStart

LEMMA CutFrom ==
  \A f, v, t, n \in Nat : f <= v /\ t = f + n /\ ~(t <= v) =>
    LET k == IF f < v THEN v - f ELSE 0
    IN  k = v - f /\ k \in 0..n
OBVIOUS

\* What there is of the audio when a block has come, and from when on.
Gathered(r) ==
  LET audio == paired[AudioEncoder]
      from  == IF r.start = Pairing!None THEN audio.first_raw_ts ELSE r.start + audio.cur_pts
  IN  /\ audio.start_ts # Pairing!None => r.start = audio.start_ts
      /\ r.start = Pairing!None => audio.paired # Pairing!None
      /\ Pairing!RunsFrom(r.samples, from) /\ receiving + BlockSize = from + Len(r.samples)

LEMMA BufferAudioGathers ==
  ASSUME Pairing!TypeOK, receiving # Pairing!None, NEW r, r = Pairing!buffer_audio
  PROVE  /\ r.start \in Nat /\ r.samples \in Seq(Nat)
         /\ Pairing!AsNew /\ Pairing!Mutual /\ Pairing!VideoGoesOn /\ Pairing!AudioGoesOn => Gathered(r)
<1> USE PairingAssumption
<1> DEFINE audio == paired[AudioEncoder]
           block == Pairing!Block(receiving)
           v_start == AudioStart
<1>1. /\ audio \in Pairing!Encoder /\ audio.paired \in Outputs \cup {AudioEncoder, Pairing!None}
      /\ audio.start_ts \in Nat /\ audio.cur_pts \in Nat /\ audio.first_raw_ts \in Nat
      /\ receiving \in Nat \ {0} /\ buffer \in Seq(Nat)
  BY DEF Pairing!TypeOK, Pairing!Encoder, Pairing!None
<1>2. v_start \in Nat
  BY <1>1 DEF Pairing!TypeOK, Pairing!Encoder, AudioStart
<1>3. block \in Seq(Nat) /\ Len(block) = BlockSize /\ Pairing!RunsFrom(block, receiving)
  BY <1>1, BlockRuns
<1>4. ASSUME Pairing!AsNew /\ Pairing!Mutual /\ Pairing!VideoGoesOn /\ Pairing!AudioGoesOn
      PROVE  /\ audio.first_received
             /\ receiving = Pairing!BufferStart + Len(buffer) /\ Pairing!RunsFrom(buffer, Pairing!BufferStart)
             /\ audio.start_ts = Pairing!None => audio.cur_pts = 0
             /\ audio.start_ts = Pairing!None /\ audio.paired = Pairing!None => receiving = audio.first_raw_ts
             /\ audio.start_ts = Pairing!None /\ audio.paired # Pairing!None /\ v_start # Pairing!None =>
                  audio.first_raw_ts <= v_start
  <2>1. audio.first_received
    BY <1>4 DEF Pairing!AudioGoesOn
  <2>2. Pairing!NextBlock = receiving
    BY DEF Pairing!NextBlock
  <2>3. /\ receiving = Pairing!BufferStart + Len(buffer) /\ Pairing!RunsFrom(buffer, Pairing!BufferStart)
        /\ audio.start_ts = Pairing!None /\ audio.paired = Pairing!None => receiving = audio.first_raw_ts
    BY <1>4, <2>1, <2>2 DEF Pairing!AudioGoesOn
  <2>4. audio.start_ts = Pairing!None => audio.cur_pts = 0
    BY <1>4 DEF Pairing!AsNew
  <2>5. ASSUME audio.start_ts = Pairing!None, audio.paired # Pairing!None, v_start # Pairing!None
        PROVE  audio.first_raw_ts <= v_start
    <3>1. audio.paired \in Outputs /\ paired[audio.paired].paired = AudioEncoder
      BY <1>4, <2>5 DEF Pairing!Mutual
    <3>2. QED
      BY <1>4, <2>5, <3>1 DEF Pairing!VideoGoesOn, AudioStart
  <2>6. QED
    BY <2>1, <2>3, <2>4, <2>5
<1>5. Pairing!BufferStart = IF audio.start_ts = Pairing!None THEN audio.first_raw_ts
                            ELSE audio.start_ts + audio.cur_pts
  BY DEF Pairing!BufferStart
<1>6. buffer \o block \in Seq(Nat)
  BY <1>1, <1>3
<1> DEFINE whole == buffer \o block
<1>7. ASSUME Pairing!AsNew /\ Pairing!Mutual /\ Pairing!VideoGoesOn /\ Pairing!AudioGoesOn
      PROVE  /\ Pairing!RunsFrom(whole, Pairing!BufferStart)
             /\ receiving + BlockSize = Pairing!BufferStart + Len(whole)
  <2>1. Pairing!BufferStart \in Nat
    BY <1>1, <1>5
  <2>2. Pairing!RunsFrom(buffer, Pairing!BufferStart) /\ receiving = Pairing!BufferStart + Len(buffer)
    BY <1>4, <1>7
  <2>3. Pairing!RunsFrom(block, Pairing!BufferStart + Len(buffer))
    BY <1>3, <2>2
  <2>4. Pairing!RunsFrom(whole, Pairing!BufferStart) /\ Len(whole) = Len(buffer) + Len(block)
    <3> HIDE DEF block
    <3>1. QED
      BY <1>1, <1>3, <2>1, <2>2, <2>3, RunsOn
  <2>5. Len(buffer) \in Nat
    BY <1>1
  <2> HIDE DEF whole, block
  <2>6. QED
    BY <1>1, <1>3, <2>1, <2>2, <2>4, <2>5
<1>8. CASE audio.start_ts # Pairing!None
  <2>1. r = [start |-> audio.start_ts, samples |-> whole]
    BY Zenon, <1>8, BufferAudioCases
  <2> HIDE DEF whole
  <2>2. QED
    BY <1>1, <1>5, <1>6, <1>7, <1>8, <2>1 DEF Gathered, whole
<1>9. CASE audio.start_ts = Pairing!None /\ audio.paired = Pairing!None
  <2>1. r = [start |-> receiving, samples |-> whole]
    BY Zenon, <1>9, BufferAudioCases
  <2>2. QED
    <3>1. r.start = receiving /\ r.samples = whole
      BY <2>1
    <3>2. r.start \in Nat /\ r.samples \in Seq(Nat)
      BY <1>1, <1>6, <3>1
    <3> HIDE DEF whole
    <3>3. ASSUME Pairing!AsNew /\ Pairing!Mutual /\ Pairing!VideoGoesOn /\ Pairing!AudioGoesOn
          PROVE  Gathered(r)
      <4>1. audio.cur_pts = 0 /\ receiving = audio.first_raw_ts
        BY <1>4, <1>9, <3>3
      <4>2. Pairing!BufferStart = receiving /\ r.start + audio.cur_pts = receiving
        BY <1>1, <1>5, <1>9, <3>1, <4>1
      <4>3. Pairing!RunsFrom(whole, receiving) /\ receiving + BlockSize = receiving + Len(whole)
        BY <1>7, <3>3, <4>2
      <4>4. QED
        BY <1>9, <3>1, <4>2, <4>3 DEF Gathered
    <3>4. QED
      BY <3>2, <3>3
<1>10. CASE /\ audio.start_ts = Pairing!None /\ audio.paired # Pairing!None
            /\ AudioStart = Pairing!None \/ receiving + BlockSize <= AudioStart
  <2>1. r = [start |-> Pairing!None, samples |-> whole]
    BY Zenon, <1>10, BufferAudioCases
  <2>2. QED
    BY <1>1, <1>5, <1>6, <1>7, <1>10, <2>1 DEF Gathered, Pairing!None
<1>11. CASE /\ audio.start_ts = Pairing!None /\ audio.paired # Pairing!None
            /\ ~(AudioStart = Pairing!None \/ receiving + BlockSize <= AudioStart)
            /\ receiving <= AudioStart
  <2> DEFINE cut == IF receiving < AudioStart THEN AudioStart - receiving ELSE 0
             n   == AudioStart - receiving
  <2>1. r = [start |-> AudioStart, samples |-> SubSeq(block, 1 + cut, BlockSize)]
    BY Zenon, <1>11, BufferAudioCases
  <2>2. 1 + cut = n + 1 /\ n \in 0..Len(block) /\ receiving + n = AudioStart
    BY <1>1, <1>2, <1>3, <1>11
  <2> HIDE DEF cut, n
  <2>3. r = [start |-> AudioStart, samples |-> SubSeq(block, n + 1, Len(block))]
    BY <1>3, <2>1, <2>2
  <2> HIDE DEF block
  <2>4. /\ r.samples \in Seq(Nat) /\ Len(r.samples) = Len(block) - n
        /\ Pairing!RunsFrom(r.samples, receiving + n)
    <3>1. SubSeq(block, n + 1, Len(block)) \in Seq(Nat) /\ Len(SubSeq(block, n + 1, Len(block))) = Len(block) - n
      BY <1>3, <2>2, CutTypes
    <3>2. Pairing!RunsFrom(SubSeq(block, n + 1, Len(block)), receiving + n)
      BY <1>1, <1>3, <2>2, RunsFurther
    <3>3. QED
      BY <2>3, <3>1, <3>2
  <2>5. receiving + BlockSize = AudioStart + Len(r.samples)
    BY <1>1, <1>2, <1>3, <2>2, <2>4
  <2>6. r.start = AudioStart
    BY <2>3
  <2>7. QED
    <3>1. r.start \in Nat /\ r.samples \in Seq(Nat)
      BY <1>2, <2>4, <2>6
    <3>2. ASSUME Pairing!AsNew /\ Pairing!Mutual /\ Pairing!VideoGoesOn /\ Pairing!AudioGoesOn
          PROVE  Gathered(r)
      <4>1. audio.cur_pts = 0
        BY <1>4, <1>11, <3>2
      <4>2. r.start + audio.cur_pts = AudioStart
        BY <1>2, <2>6, <4>1
      <4>3. QED
        BY <1>11, <2>2, <2>4, <2>5, <2>6, <4>2 DEF Gathered
    <3>3. QED
      BY <3>1, <3>2
<1>12. CASE /\ audio.start_ts = Pairing!None /\ audio.paired # Pairing!None
            /\ ~(AudioStart = Pairing!None \/ receiving + BlockSize <= AudioStart)
            /\ ~(receiving <= AudioStart)
  <2> DEFINE k == IF audio.first_raw_ts < AudioStart THEN AudioStart - audio.first_raw_ts ELSE 0
             kept == SubSeq(buffer, 1 + k, Len(buffer))
  <2>1. r = [start |-> AudioStart, samples |-> kept \o block]
    <3>1. r = [start |-> AudioStart, samples |-> Pairing!start_from_buffer(AudioStart) \o block]
      BY Zenon, <1>12, BufferAudioCases
    <3>2. Pairing!start_from_buffer(AudioStart) = kept
      BY Zenon DEF Pairing!start_from_buffer
    <3>3. QED
      BY <3>1, <3>2
  <2>2. k \in Nat
    BY <1>1, <1>2
  <2>3. kept \in Seq(Nat)
    <3> HIDE DEF k
    <3>1. QED
      BY <1>1, <2>2, AnyCut
  <2>4. r.start \in Nat /\ r.samples \in Seq(Nat)
    <3> HIDE DEF kept
    <3>1. QED
      BY <1>2, <1>3, <2>1, <2>3
  <2>5. ASSUME Pairing!AsNew /\ Pairing!Mutual /\ Pairing!VideoGoesOn /\ Pairing!AudioGoesOn
        PROVE  Gathered(r)
    <3>1. /\ audio.first_raw_ts <= AudioStart /\ receiving = audio.first_raw_ts + Len(buffer)
          /\ Pairing!RunsFrom(buffer, audio.first_raw_ts) /\ audio.cur_pts = 0
      <4>1. /\ receiving = Pairing!BufferStart + Len(buffer) /\ Pairing!RunsFrom(buffer, Pairing!BufferStart)
            /\ audio.cur_pts = 0 /\ audio.first_raw_ts <= AudioStart
        <5> HIDE DEF k, kept
        <5>1. QED
          BY <1>4, <1>12, <2>5
      <4>2. Pairing!BufferStart = audio.first_raw_ts
        BY <1>5, <1>12
      <4>3. QED
        BY <4>1, <4>2
    <3>2. k = AudioStart - audio.first_raw_ts /\ k \in 0..Len(buffer)
      <4>1. Len(buffer) \in Nat
        BY <1>1
      <4>2. QED
        BY <1>1, <1>2, <1>12, <3>1, <4>1, CutFrom, SMTT(20)
    <3>3. 1 + k = k + 1 /\ audio.first_raw_ts + k = AudioStart
      BY <1>1, <1>2, <3>2
    <3> HIDE DEF k
    <3>4. /\ Pairing!RunsFrom(kept, audio.first_raw_ts + k)
          /\ Len(kept) = Len(buffer) - k
      BY <1>1, <3>1, <3>2, <3>3, RunsFurther, CutTypes
    <3> HIDE DEF kept
    <3>5. Len(buffer) \in Nat /\ AudioStart + Len(kept) = receiving
      BY <1>1, <1>2, <3>1, <3>2, <3>4, SMTT(20)
    <3> HIDE DEF block
    <3>6. /\ Pairing!RunsFrom(kept \o block, AudioStart)
          /\ Len(kept \o block) = Len(kept) + Len(block)
      <4>1. Pairing!RunsFrom(kept, AudioStart) /\ Pairing!RunsFrom(block, AudioStart + Len(kept))
        BY <1>3, <3>3, <3>4, <3>5
      <4>2. QED
        BY <1>2, <1>3, <2>3, <4>1, RunsOn
    <3>7. receiving + BlockSize = AudioStart + Len(kept \o block)
      <4>1. Len(kept) \in Nat
        BY <2>3
      <4>2. QED
        <5>1. Len(kept \o block) = Len(kept) + BlockSize
          BY <1>3, <3>6
        <5>2. AudioStart \in Nat /\ receiving = AudioStart + Len(kept)
          BY <1>2, <3>5
        <5>3. QED
          BY <4>1, <5>1, <5>2
    <3>8. AudioStart + audio.cur_pts = AudioStart
      BY <1>2, <3>1
    <3>9. r.start = AudioStart /\ r.samples = kept \o block
      BY <2>1
    <3>10. QED
      BY <1>12, <3>6, <3>7, <3>8, <3>9 DEF Gathered
  <2>6. QED
    BY <2>4, <2>5
<1>13. QED
  BY <1>8, <1>9, <1>10, <1>11, <1>12, Zenon

\* The block is appended and what makes whole packets leaves the buffer.
LEMMA BufferAudioKeeps ==
  ASSUME Pairing!IInv, Pairing!BufferAudio
  PROVE  Pairing!IInv'
<1> USE PairingAssumption
<1> DEFINE E == Outputs \cup {AudioEncoder}
<1>0. Pairing!TypeOK
  BY DEF Pairing!IInv
<1>1. PICK r : r = Pairing!buffer_audio
  OBVIOUS
<1>2. /\ receiving # Pairing!None /\ receiving' = Pairing!None
      /\ UNCHANGED <<a_time, v_time, pair_output, left>>
  BY DEF Pairing!BufferAudio
<1>3. r.start \in Nat /\ r.samples \in Seq(Nat)
  BY <1>0, <1>1, <1>2, BufferAudioGathers
<1>4. PICK n : n = IF r.start = Pairing!None THEN 0 ELSE (Len(r.samples) \div framesize) * framesize
  OBVIOUS
<1>5. n \in 0..Len(r.samples)
  <2>1. Len(r.samples) \in Nat
    BY <1>3
  <2>2. (Len(r.samples) \div framesize) * framesize \in 0..Len(r.samples)
    BY <2>1, WholePackets
  <2>3. CASE r.start = Pairing!None
    BY <1>4, <2>1, <2>3
  <2>4. CASE r.start # Pairing!None
    BY <1>4, <2>2, <2>4
  <2>5. QED
    BY <2>3, <2>4
<1>6. PICK from : from = paired[AudioEncoder].cur_pts
  OBVIOUS
<1>7. /\ buffer' = SubSeq(r.samples, n + 1, Len(r.samples))
      /\ paired' = [paired EXCEPT ![AudioEncoder].start_ts = r.start, ![AudioEncoder].cur_pts = from + n]
      /\ drift' = (drift \/ \E i \in 1..n : r.samples[i] # r.start + from + i - 1)
  BY Zenon, <1>1, <1>4, <1>6 DEF Pairing!BufferAudio
<1>8. from \in Nat /\ from + n \in Nat
  BY <1>0, <1>3, <1>5, <1>6 DEF Pairing!TypeOK, Pairing!Encoder
<1>9. /\ paired' \in [E -> Pairing!Encoder]
      /\ \A p \in Outputs : paired'[p] = paired[p]
      /\ paired'[AudioEncoder] = [paired[AudioEncoder] EXCEPT !.start_ts = r.start, !.cur_pts = from + n]
  <2> DEFINE new == [paired[AudioEncoder] EXCEPT !.start_ts = r.start, !.cur_pts = from + n]
  <2>1. paired' = [paired EXCEPT ![AudioEncoder] = new]
    BY <1>0, <1>7 DEF Pairing!TypeOK
  <2>2. new \in Pairing!Encoder
    BY <1>0, <1>3, <1>8, EncoderChanges DEF Pairing!TypeOK
  <2> HIDE DEF new
  <2>3. QED
    BY <1>0, <2>1, <2>2 DEF Pairing!TypeOK, new
<1>10. buffer' \in Seq(Nat) /\ Len(buffer') = Len(r.samples) - n
  BY <1>3, <1>5, <1>7, CutTypes
<1>11. Pairing!TypeOK'
  <2>1. receiving' \in Nat /\ drift' \in BOOLEAN
    BY <1>0, <1>2, <1>7 DEF Pairing!TypeOK, Pairing!None
  <2>2. UNCHANGED <<a_time, v_time, pair_output, left>>
    BY <1>2
  <2>3. QED
    BY <1>0, <1>9, <1>10, <2>1, <2>2 DEF Pairing!TypeOK
<1>12. /\ paired'[AudioEncoder].callbacks = paired[AudioEncoder].callbacks
       /\ paired'[AudioEncoder].paired = paired[AudioEncoder].paired
       /\ paired'[AudioEncoder].first_raw_ts = paired[AudioEncoder].first_raw_ts
       /\ paired'[AudioEncoder].start_ts = r.start
       /\ paired'[AudioEncoder].cur_pts = from + n
       /\ paired[AudioEncoder].first_raw_ts \in Nat
  BY <1>0, <1>9 DEF Pairing!TypeOK, Pairing!Encoder
<1>13. /\ paired'[AudioEncoder].data = paired[AudioEncoder].data
       /\ paired'[AudioEncoder].first_received = paired[AudioEncoder].first_received
  BY <1>0, <1>9 DEF Pairing!TypeOK, Pairing!Encoder
<1>14. ASSUME ~left
       PROVE  (Pairing!Connected /\ Pairing!AsNew /\ Pairing!Mutual /\ Pairing!VideoGoesOn
               /\ Pairing!AudioGoesOn /\ ~drift)'
  <2>1. /\ Pairing!Connected /\ Pairing!AsNew /\ Pairing!Mutual
        /\ Pairing!VideoGoesOn /\ Pairing!AudioGoesOn
    BY <1>14 DEF Pairing!IInv
  <2>2. Gathered(r)
    BY <1>0, <1>1, <1>2, <2>1, BufferAudioGathers
  <2>3. /\ paired[AudioEncoder].start_ts # Pairing!None => r.start = paired[AudioEncoder].start_ts
        /\ r.start = Pairing!None => paired[AudioEncoder].paired # Pairing!None
    BY <2>2 DEF Gathered
  <2>4. PICK begin \in Nat :
          /\ begin = IF r.start = Pairing!None THEN paired[AudioEncoder].first_raw_ts ELSE r.start + from
          /\ Pairing!RunsFrom(r.samples, begin) /\ receiving + BlockSize = begin + Len(r.samples)
    <3>1. (IF r.start = Pairing!None THEN paired[AudioEncoder].first_raw_ts ELSE r.start + from) \in Nat
      BY <1>3, <1>8, <1>12
    <3>2. QED
      BY <1>6, <2>2, <3>1 DEF Gathered
  <2>5. r.start = Pairing!None => n = 0
    BY <1>4
  <2>6. paired[AudioEncoder].first_received /\ a_time = receiving + BlockSize
        /\ paired[AudioEncoder].first_raw_ts # Pairing!None
    BY <1>2, <2>1 DEF Pairing!AudioGoesOn
  <2>7. ~drift'
    <3>1. ~drift
      BY <1>14 DEF Pairing!IInv
    <3>2. ASSUME NEW i \in 1..n PROVE r.samples[i] = r.start + from + i - 1
      <4>1. r.start # Pairing!None
        BY <2>5, <3>2
      <4>2. i \in 1..Len(r.samples) /\ begin = r.start + from
        BY <1>3, <1>5, <2>4, <4>1
      <4>3. QED
        BY <2>4, <4>2 DEF Pairing!RunsFrom
    <3>3. QED
      BY <1>7, <3>1, <3>2
  <2>8. (Pairing!Connected /\ Pairing!Mutual)'
    <3>1. \A e \in E : KeepsUse(e)
      BY <1>9, <1>12, <1>13 DEF KeepsUse
    <3>2. pair_output' = pair_output
      BY <1>2
    <3>3. paired'[AudioEncoder].start_ts = Pairing!None => paired[AudioEncoder].start_ts = Pairing!None
      BY <1>12, <2>3
    <3>4. QED
      BY <2>1, <3>1, <3>2, <3>3, MediaKeep
  <2>9. Pairing!AsNew'
    <3>1. paired[AudioEncoder].callbacks # {}
      BY <2>1, <2>6 DEF Pairing!AsNew, Pairing!Active
    <3>2. r.start = Pairing!None => from + n = 0
      BY <1>6, <2>1, <2>3, <2>5 DEF Pairing!AsNew
    <3>3. ASSUME NEW e \in E
          PROVE  /\ paired'[e].start_ts = Pairing!None => paired'[e].cur_pts = 0
                 /\ ~Pairing!Active(e)' => ~paired'[e].first_received /\ paired'[e].start_ts = Pairing!None
      <4>1. CASE e = AudioEncoder
        BY <1>12, <3>1, <3>2, <4>1 DEF Pairing!Active
      <4>2. CASE e # AudioEncoder
        BY <1>9, <2>1, <4>2 DEF Pairing!AsNew, Pairing!Active
      <4>3. QED
        BY <4>1, <4>2
    <3>4. \A p \in Outputs : paired'[p].start_ts = Pairing!None => ~paired'[p].first_received
      BY <1>9, <2>1 DEF Pairing!AsNew
    <3>5. paired'[AudioEncoder].first_received
      BY <1>13, <2>6
    <3>6. QED
      BY <3>3, <3>4, <3>5 DEF Pairing!AsNew
  <2>10. Pairing!VideoGoesOn'
    <3>1. \A p \in Outputs : paired'[p] = paired[p]
      BY <1>9
    <3>2. paired'[AudioEncoder].first_raw_ts = paired[AudioEncoder].first_raw_ts
      BY <1>12
    <3>3. paired'[AudioEncoder].first_received /\ v_time' = v_time
      BY <1>2, <1>13, <2>6
    <3>4. QED
      BY <2>1, <3>1, <3>2, <3>3 DEF Pairing!VideoGoesOn
  <2>11. Pairing!AudioGoesOn'
    <3>1. Pairing!BufferStart' = begin + n
      <4>1. Pairing!BufferStart' = IF r.start = Pairing!None THEN paired[AudioEncoder].first_raw_ts
                                   ELSE r.start + (from + n)
        BY <1>12 DEF Pairing!BufferStart
      <4>2. n \in Nat
        BY <1>3, <1>5
      <4>3. QED
        BY <1>3, <1>8, <1>12, <2>4, <2>5, <4>1, <4>2
    <3>2. Pairing!NextBlock' = a_time
      BY <1>2 DEF Pairing!NextBlock
    <3>3. a_time = (begin + n) + Len(buffer')
      <4>1. Len(r.samples) \in Nat /\ n \in Nat
        BY <1>3, <1>5
      <4>2. QED
        BY <1>10, <2>4, <2>6, <4>1
    <3>4. Pairing!RunsFrom(buffer, Pairing!BufferStart)'
      <4>1. Pairing!RunsFrom(SubSeq(r.samples, n + 1, Len(r.samples)), begin + n)
        BY <1>3, <1>5, <2>4, RunsFurther
      <4>2. QED
        BY <1>7, <3>1, <4>1 DEF Pairing!RunsFrom
    <3>5. /\ paired'[AudioEncoder].first_raw_ts # Pairing!None
          /\ ~(paired'[AudioEncoder].start_ts = Pairing!None /\ paired'[AudioEncoder].paired = Pairing!None)
      BY <1>12, <2>3, <2>6
    <3>6. receiving' = Pairing!None
      BY <1>2
    <3>7. QED
      BY <3>1, <3>2, <3>3, <3>4, <3>5, <3>6 DEF Pairing!AudioGoesOn
  <2>12. QED
    BY <2>7, <2>8, <2>9, <2>10, <2>11
<1>15. QED
  BY <1>2, <1>11, <1>14 DEF Pairing!IInv


\* A frame reaches the encoders: one that has begun takes every frame.
LEMMA ReceiveVideoKeeps ==
  ASSUME Pairing!IInv, Pairing!ReceiveVideo
  PROVE  Pairing!IInv'
<1> USE PairingAssumption
<1> DEFINE E == Outputs \cup {AudioEncoder}
           encodes == {o \in Outputs : Pairing!Active(o) /\ ~Pairing!WaitsForAudio(o)}
           start(o) == IF paired[o].start_ts = Pairing!None THEN v_time ELSE paired[o].start_ts
           new(o, received) == [paired[o] EXCEPT !.start_ts = start(o), !.cur_pts = paired[o].cur_pts + FrameTime,
                                                 !.first_received = paired[o].first_received \/ o \in received]
<1>0. Pairing!TypeOK
  BY DEF Pairing!IInv
<1>1. /\ v_time' = v_time + FrameTime
      /\ UNCHANGED <<buffer, receiving, a_time, pair_output, left>>
  BY DEF Pairing!ReceiveVideo
<1>2. PICK received \in SUBSET encodes :
        /\ paired' = [e \in E |-> IF e \notin encodes THEN paired[e] ELSE new(e, received)]
        /\ drift' = (drift \/ \E o \in encodes : v_time # start(o) + paired[o].cur_pts)
  BY <1>0 DEF Pairing!ReceiveVideo, Pairing!TypeOK
<1>3. v_time \in Nat \ {0} /\ v_time' \in Nat \ {0}
  BY <1>0, <1>1 DEF Pairing!TypeOK
<1>4. ASSUME NEW o \in Outputs
      PROVE  /\ start(o) \in Nat \ {0} /\ paired[o].cur_pts \in Nat /\ paired[o].start_ts \in Nat
             /\ new(o, received) \in Pairing!Encoder
             /\ new(o, received).callbacks = paired[o].callbacks
             /\ new(o, received).paired = paired[o].paired
             /\ new(o, received).start_ts = start(o)
             /\ new(o, received).cur_pts = paired[o].cur_pts + FrameTime
             /\ new(o, received).data = paired[o].data
  <2>1. paired[o] \in Pairing!Encoder /\ paired[o].cur_pts \in Nat /\ paired[o].start_ts \in Nat
    BY <1>0 DEF Pairing!TypeOK, Pairing!Encoder
  <2>2. start(o) \in Nat \ {0} /\ paired[o].cur_pts + FrameTime \in Nat
    BY <1>3, <2>1 DEF Pairing!None
  <2>3. PICK b \in BOOLEAN : b = (paired[o].first_received \/ o \in received)
    OBVIOUS
  <2> DEFINE s == start(o)
             c == paired[o].cur_pts + FrameTime
  <2>4. new(o, received) = [paired[o] EXCEPT !.start_ts = s, !.cur_pts = c, !.first_received = b]
    BY <2>3
  <2>5. s \in Nat \ {0} /\ c \in Nat
    BY <2>2
  <2> HIDE DEF s, c
  <2>6. new(o, received) \in Pairing!Encoder
    <3>1. [paired[o] EXCEPT !.start_ts = s, !.cur_pts = c, !.first_received = b] \in Pairing!Encoder
      BY <2>1, <2>5, EncoderChanges
    <3>2. QED
      BY <2>4, <3>1
  <2> HIDE DEF new
  <2>7. /\ new(o, received).callbacks = paired[o].callbacks
        /\ new(o, received).paired = paired[o].paired
        /\ new(o, received).start_ts = s
        /\ new(o, received).cur_pts = c
    BY <2>1, <2>4 DEF Pairing!Encoder
  <2>8. new(o, received).data = paired[o].data
    BY <2>1, <2>4 DEF Pairing!Encoder
  <2>9. QED
    BY <2>1, <2>5, <2>6, <2>7, <2>8 DEF s, c
<1>5. /\ \A e \in E : e \notin encodes => paired'[e] = paired[e]
      /\ \A o \in encodes : o \in Outputs /\ paired'[o] = new(o, received)
      /\ AudioEncoder \notin encodes
  <2> HIDE DEF new
  <2>1. QED
    BY <1>2
<1>6. \A o \in encodes : Pairing!Active(o) /\ ~Pairing!WaitsForAudio(o)
  OBVIOUS
<1>7. \A o \in Outputs : o \notin encodes => ~Pairing!Active(o) \/ Pairing!WaitsForAudio(o)
  OBVIOUS
<1> HIDE DEF new
<1>8. Pairing!TypeOK'
  <2>1. \A e \in E : paired[e] \in Pairing!Encoder
    BY <1>0 DEF Pairing!TypeOK
  <2>2. paired' \in [E -> Pairing!Encoder]
    <3>1. \A e \in E : (IF e \notin encodes THEN paired[e] ELSE new(e, received)) \in Pairing!Encoder
      <4> HIDE DEF start
      <4>1. \A o \in Outputs : new(o, received) \in Pairing!Encoder
        BY <1>4
      <4>2. QED
        BY <2>1, <4>1
    <3> HIDE DEF encodes
    <3>2. QED
      BY <1>2, <3>1
  <2>3. drift' \in BOOLEAN
    BY <1>0, <1>2 DEF Pairing!TypeOK
  <2>4. QED
    BY <1>0, <1>1, <1>3, <2>2, <2>3 DEF Pairing!TypeOK
<1> HIDE DEF encodes
<1>9. \A o \in encodes : /\ paired'[o].callbacks = paired[o].callbacks
                         /\ paired'[o].paired = paired[o].paired
                         /\ paired'[o].start_ts = start(o)
                         /\ paired'[o].cur_pts = paired[o].cur_pts + FrameTime
                         /\ paired'[o].data = paired[o].data
  <2> HIDE DEF start
  <2>1. QED
    BY <1>4, <1>5
<1>10. paired'[AudioEncoder] = paired[AudioEncoder]
  BY <1>5
<1>11. ASSUME ~left
       PROVE  (Pairing!Connected /\ Pairing!AsNew /\ Pairing!Mutual /\ Pairing!VideoGoesOn
               /\ Pairing!AudioGoesOn /\ ~drift)'
  <2>1. /\ Pairing!Connected /\ Pairing!AsNew /\ Pairing!Mutual
        /\ Pairing!VideoGoesOn /\ Pairing!AudioGoesOn
    BY <1>11 DEF Pairing!IInv
  <2>2. \A o \in Outputs : paired[o].start_ts # Pairing!None => o \in encodes
    <3>1. ASSUME NEW o \in Outputs, paired[o].start_ts # Pairing!None
          PROVE  o \in encodes
      <4>1. Pairing!Active(o)
        BY <2>1, <3>1 DEF Pairing!AsNew
      <4>2. ~Pairing!WaitsForAudio(o)
        <5>1. CASE paired[o].paired = Pairing!None
          BY <5>1 DEF Pairing!WaitsForAudio
        <5>2. CASE paired[o].paired # Pairing!None
          <6>1. paired[o].paired = AudioEncoder
            BY <2>1, <5>2 DEF Pairing!Mutual
          <6>2. /\ paired[AudioEncoder].first_received
                /\ paired[AudioEncoder].first_raw_ts <= paired[o].start_ts
                /\ v_time = paired[o].start_ts + paired[o].cur_pts
            BY <2>1, <3>1, <5>2 DEF Pairing!VideoGoesOn
          <6>3. paired[AudioEncoder].first_raw_ts \in Nat /\ paired[o].start_ts \in Nat /\ paired[o].cur_pts \in Nat
            BY <1>0 DEF Pairing!TypeOK, Pairing!Encoder
          <6>4. ~(paired[AudioEncoder].first_raw_ts > v_time)
            BY <6>2, <6>3
          <6>5. QED
            BY <6>1, <6>2, <6>4 DEF Pairing!WaitsForAudio
        <5>3. QED
          BY <5>1, <5>2
      <4>3. QED
        BY <1>7, <4>1, <4>2
    <3>2. QED
      BY <3>1
  <2>3. \A o \in encodes : v_time = start(o) + paired[o].cur_pts
    <3>1. ASSUME NEW o \in encodes PROVE v_time = start(o) + paired[o].cur_pts
      <4>1. o \in Outputs
        BY <1>5
      <4>2. CASE paired[o].start_ts = Pairing!None
        BY <1>3, <2>1, <4>1, <4>2 DEF Pairing!AsNew
      <4>3. CASE paired[o].start_ts # Pairing!None
        BY <2>1, <4>1, <4>3 DEF Pairing!VideoGoesOn
      <4>4. QED
        BY <4>2, <4>3
    <3>2. QED
      BY <3>1
  <2>4. ~drift'
    <3>1. ~drift
      BY <1>11 DEF Pairing!IInv
    <3>2. QED
      BY <1>2, <2>3, <3>1
  <2>5. (Pairing!Connected /\ Pairing!Mutual)'
    <3>1. \A e \in E : KeepsUse(e)
      BY <1>5, <1>9 DEF KeepsUse
    <3>2. UNCHANGED pair_output
      BY <1>1
    <3>3. QED
      BY <1>10, <2>1, <3>1, <3>2, MediaKeep
  <2>6. Pairing!AsNew'
    <3>1. ASSUME NEW o \in encodes
          PROVE  paired'[o].start_ts # Pairing!None /\ Pairing!Active(o)'
      <4>1. o \in Outputs /\ Pairing!Active(o)
        BY <1>5, <1>6
      <4>2. paired'[o].callbacks # {}
        BY <1>9, <4>1 DEF Pairing!Active
      <4>3. start(o) # 0
        BY <1>4, <4>1
      <4>4. paired'[o].start_ts # Pairing!None
        BY <1>9, <4>3 DEF Pairing!None
      <4>5. QED
        BY <4>2, <4>4 DEF Pairing!Active
    <3>2. ASSUME NEW e \in E
          PROVE  /\ paired'[e].start_ts = Pairing!None => paired'[e].cur_pts = 0
                 /\ ~Pairing!Active(e)' => ~paired'[e].first_received /\ paired'[e].start_ts = Pairing!None
      <4>1. CASE e \in encodes
        BY <3>1, <4>1
      <4>2. CASE e \notin encodes
        <5>1. paired'[e] = paired[e]
          BY <1>5, <4>2
        <5>2. QED
          BY <2>1, <5>1 DEF Pairing!AsNew, Pairing!Active
      <4>3. QED
        BY <4>1, <4>2
    <3>3. ASSUME NEW o \in Outputs, paired'[o].start_ts = Pairing!None
          PROVE  ~paired'[o].first_received
      <4>1. o \notin encodes
        BY <3>1, <3>3
      <4>2. paired'[o] = paired[o]
        BY <1>5, <4>1
      <4>3. QED
        BY <2>1, <3>3, <4>2 DEF Pairing!AsNew
    <3>4. paired'[AudioEncoder].start_ts # Pairing!None => paired'[AudioEncoder].first_received
      BY <1>10, <2>1 DEF Pairing!AsNew
    <3>5. QED
      BY <3>2, <3>3, <3>4 DEF Pairing!AsNew
  <2>7. Pairing!VideoGoesOn'
    <3>1. ASSUME NEW o \in Outputs, paired'[o].start_ts # Pairing!None
          PROVE  /\ v_time' = paired'[o].start_ts + paired'[o].cur_pts
                 /\ paired'[o].paired # Pairing!None =>
                      /\ paired'[AudioEncoder].first_received
                      /\ paired'[AudioEncoder].first_raw_ts <= paired'[o].start_ts
      <4>1. o \in encodes
        <5>1. CASE o \in encodes
          BY <5>1
        <5>2. CASE o \notin encodes
          <6>1. paired'[o] = paired[o]
            BY <1>5, <5>2
          <6>2. QED
            BY <2>2, <3>1, <6>1
        <5>3. QED
          BY <5>1, <5>2
      <4>2. /\ paired'[o].start_ts = start(o) /\ paired'[o].cur_pts = paired[o].cur_pts + FrameTime
            /\ paired'[o].paired = paired[o].paired
        BY <1>9, <4>1
      <4>3. start(o) \in Nat /\ paired[o].cur_pts \in Nat
        BY <1>4
      <4>4. v_time = start(o) + paired[o].cur_pts
        BY <2>3, <4>1
      <4>5. v_time' = paired'[o].start_ts + paired'[o].cur_pts
        <5> HIDE DEF start
        <5>1. QED
          BY <1>1, <4>2, <4>3, <4>4
      <4>6. ASSUME paired[o].paired # Pairing!None
            PROVE  /\ paired[AudioEncoder].first_received
                   /\ paired[AudioEncoder].first_raw_ts <= start(o)
        <5>1. CASE paired[o].start_ts # Pairing!None
          BY <2>1, <4>6, <5>1 DEF Pairing!VideoGoesOn
        <5>2. CASE paired[o].start_ts = Pairing!None
          <6>1. paired[o].paired = AudioEncoder /\ ~paired[o].first_received
            BY <2>1, <4>6, <5>2 DEF Pairing!Mutual, Pairing!AsNew
          <6>2. ~Pairing!WaitsForAudio(o)
            BY <1>6, <4>1
          <6>3. paired[AudioEncoder].first_received /\ ~(paired[AudioEncoder].first_raw_ts > v_time)
            BY <4>6, <6>1, <6>2 DEF Pairing!WaitsForAudio
          <6>4. paired[AudioEncoder].first_raw_ts \in Nat
            BY <1>0 DEF Pairing!TypeOK, Pairing!Encoder
          <6>5. start(o) = v_time
            BY <5>2
          <6>6. paired[AudioEncoder].first_raw_ts <= v_time
            BY <1>3, <6>3, <6>4
          <6>7. QED
            BY <6>3, <6>5, <6>6
        <5>3. QED
          BY <5>1, <5>2
      <4> HIDE DEF start
      <4>7. QED
        BY <1>10, <4>2, <4>5, <4>6
    <3>2. QED
      BY <3>1 DEF Pairing!VideoGoesOn
  <2>8. Pairing!AudioGoesOn'
    <3>1. UNCHANGED <<buffer, receiving, a_time>>
      BY <1>1
    <3>2. QED
      BY <1>10, <2>1, <3>1 DEF Pairing!AudioGoesOn, Pairing!NextBlock, Pairing!BufferStart, Pairing!RunsFrom
  <2>9. QED
    BY <2>4, <2>5, <2>6, <2>7, <2>8
<1>12. QED
  BY <1>1, <1>8, <1>11 DEF Pairing!IInv

LEMMA PairingStep == Pairing!IInv /\ [Pairing!Next]_pairVars => Pairing!IInv'
<1> SUFFICES ASSUME Pairing!IInv, [Pairing!Next]_pairVars PROVE Pairing!IInv'
  OBVIOUS
<1>1. ASSUME NEW o \in Outputs, Pairing!Initialize(o) PROVE Pairing!IInv'
  BY <1>1, InitializeKeeps
<1>2. ASSUME NEW o \in Outputs, Pairing!Pair(o) PROVE Pairing!IInv'
  BY <1>2, PairKeeps
<1>3. ASSUME NEW o \in Outputs, Pairing!StartAudio(o) PROVE Pairing!IInv'
  BY <1>3, StartAudioKeeps
<1>4. ASSUME NEW o \in Outputs, Pairing!StartVideo(o) PROVE Pairing!IInv'
  BY <1>4, StartVideoKeeps
<1>5. ASSUME NEW o \in Outputs, Pairing!StopVideo(o) PROVE Pairing!IInv'
  BY <1>5, StopVideoKeeps
<1>6. ASSUME NEW o \in Outputs, Pairing!StopAudio(o) PROVE Pairing!IInv'
  BY <1>6, StopAudioKeeps
<1>7. CASE UNCHANGED pairVars
  BY <1>7 DEF pairVars, Pairing!IInv, Pairing!TypeOK, Pairing!Connected, Pairing!AsNew, Pairing!Active,
              Pairing!Mutual, Pairing!VideoGoesOn, Pairing!AudioGoesOn, Pairing!NextBlock,
              Pairing!BufferStart, Pairing!RunsFrom
<1>8. QED
  BY <1>1, <1>2, <1>3, <1>4, <1>5, <1>6, <1>7, ReceiveAudioKeeps, BufferAudioKeeps, ReceiveVideoKeeps
     DEF Pairing!Next

\* The invariant of EncoderPairing, of which TrueTime is a part.
THEOREM PairingInvariant == Spec => []Pairing!IInv
<1>1. Init => Pairing!IInv
  BY PairingInit DEF Init
<1>2. [Next]_vars => [Pairing!Next]_pairVars
  BY DEF Next, Objects, Raw, Encoded, vars, packetVars, pairVars
<1>3. QED
  BY <1>1, <1>2, PairingStep, PTL DEF Spec

\* See Parts: every packet, of audio and of video, has the time at which it was
\* captured, in whatever order and at whatever distance audio and video come,
\* for any number of outputs, starts and stops, unless a video or its audio is left alone.
THEOREM TrueTimeHolds == Spec => []TrueTime
<1>1. Pairing!IInv => TrueTime
  BY DEF Pairing!IInv, TrueTime, Pairing!TrueTime
<1>2. QED
  BY <1>1, PairingInvariant, PTL

----------------------------------------------------------------------------
(* Delaying: what ends leaves nothing behind.                              *)

DelayRec  == [active : BOOLEAN, capturing : BOOLEAN, restart_refs : Nat, ns : Nat]
OutputRec == [active : BOOLEAN, data_active : BOOLEAN, stopping : BOOLEAN,
              reconnecting : BOOLEAN, reconnect_stop : BOOLEAN, retries : Nat,
              hooked : BOOLEAN]
EndRec    == [d : DelayRec, o : OutputRec, ends : BOOLEAN]
EncoderStates == [at : {"idle"}] \cup [at : {"pop", "stop"}, t : Nat]
                   \cup [at : {"process"}, t : Nat, dd : Delaying!Messages]

\* What obs_output_end_data_capture_internal does with the delay and the output.
LEMMA CaptureEnds ==
  ASSUME NEW d \in DelayRec, NEW o \in OutputRec, NEW r, r = Delaying!EndCapture(d, o)
  PROVE  /\ r \in EndRec
         /\ ~(o.active /\ o.data_active) => r.d = d /\ r.o = o /\ ~r.ends
         /\ o.active /\ o.data_active /\ d.active /\ d.restart_refs # 0 =>
              /\ r.d = [d EXCEPT !.capturing = FALSE]
              /\ r.o = [o EXCEPT !.stopping = FALSE] /\ ~r.ends
         /\ o.active /\ o.data_active /\ ~(d.active /\ d.restart_refs # 0) =>
              /\ r.d = IF d.active THEN [d EXCEPT !.capturing = FALSE, !.active = FALSE] ELSE d
              /\ r.o = [o EXCEPT !.data_active = FALSE] /\ r.ends
<1>1. /\ [d EXCEPT !.capturing = FALSE] \in DelayRec
      /\ [d EXCEPT !.capturing = FALSE, !.active = FALSE] \in DelayRec
  BY DEF DelayRec
<1>2. [o EXCEPT !.stopping = FALSE] \in OutputRec /\ [o EXCEPT !.data_active = FALSE] \in OutputRec
  BY DEF OutputRec
<1>3. CASE ~(o.active /\ o.data_active)
  <2>1. r = [d |-> d, o |-> o, ends |-> FALSE]
    BY <1>3 DEF Delaying!EndCapture
  <2> QED
    BY <1>3, <2>1 DEF EndRec
<1>4. CASE o.active /\ o.data_active /\ d.active /\ d.restart_refs # 0
  <2>1. r = [d |-> [d EXCEPT !.capturing = FALSE], o |-> [o EXCEPT !.stopping = FALSE], ends |-> FALSE]
    BY <1>4 DEF Delaying!EndCapture, Delaying!KeepsDelay
  <2> QED
    BY <1>1, <1>2, <1>4, <2>1 DEF EndRec
<1>5. CASE o.active /\ o.data_active /\ ~(d.active /\ d.restart_refs # 0)
  <2>1. r = [d |-> IF d.active THEN [d EXCEPT !.capturing = FALSE, !.active = FALSE] ELSE d,
             o |-> [o EXCEPT !.data_active = FALSE], ends |-> TRUE]
    BY <1>5 DEF Delaying!EndCapture, Delaying!KeepsDelay
  <2> QED
    BY <1>1, <1>2, <1>5, <2>1 DEF EndRec
<1> QED
  BY <1>3, <1>4, <1>5

\* And obs_output_end_data_capture, of a capture there is.
LEMMA CaptureEndsAndSignals ==
  ASSUME NEW d \in DelayRec, NEW o \in OutputRec, NEW r, r = Delaying!EndAndSignal(d, o)
  PROVE  /\ r \in EndRec
         /\ ~(o.active /\ o.data_active) =>
              r.d = d /\ r.o = [o EXCEPT !.stopping = FALSE] /\ ~r.ends
         /\ o.active /\ o.data_active /\ d.active /\ d.restart_refs # 0 =>
              /\ r.d = [d EXCEPT !.capturing = FALSE]
              /\ r.o = [o EXCEPT !.stopping = FALSE] /\ ~r.ends
         /\ o.active /\ o.data_active /\ ~(d.active /\ d.restart_refs # 0) =>
              /\ r.d = IF d.active THEN [d EXCEPT !.capturing = FALSE, !.active = FALSE] ELSE d
              /\ r.o = [o EXCEPT !.data_active = FALSE] /\ r.ends
<1>0. PICK u : u = [o EXCEPT !.stopping = FALSE]
  OBVIOUS
<1>1. u \in OutputRec /\ u.active = o.active /\ u.data_active = o.data_active
  BY <1>0 DEF OutputRec
<1>2. CASE o.active /\ o.data_active
  <2>1. r = Delaying!EndCapture(d, o)
    BY <1>2 DEF Delaying!EndAndSignal
  <2> QED
    BY <1>2, <2>1, CaptureEnds
<1>3. CASE ~(o.active /\ o.data_active)
  <2>1. r = Delaying!EndCapture(d, u)
    BY <1>0, <1>3 DEF Delaying!EndAndSignal
  <2>2. r \in EndRec /\ r.d = d /\ r.o = u /\ ~r.ends
    <3>1. ~(u.active /\ u.data_active)
      BY <1>1, <1>3
    <3>2. r = [d |-> d, o |-> u, ends |-> FALSE]
      BY <2>1, <3>1 DEF Delaying!EndCapture
    <3> QED
      BY <1>1, <3>2 DEF EndRec
  <2> QED
    BY <1>0, <1>3, <2>2
<1> QED
  BY <1>2, <1>3

LEMMA AgainGives ==
  ASSUME output \in OutputRec, NEW o \in OutputRec, NEW tried \in Nat, NEW u,
         u = Delaying!Again(o, tried)
  PROVE  /\ u \in OutputRec /\ u.active = o.active /\ u.data_active = o.data_active
         /\ u.hooked = o.hooked /\ u.reconnecting
<1> DEFINE b == o.reconnect_stop /\ output.reconnecting
<1>1. u = [o EXCEPT !.reconnecting = TRUE, !.retries = tried + 1, !.reconnect_stop = b]
  BY DEF Delaying!Again
<1>2. b \in BOOLEAN
  OBVIOUS
<1> DEFINE n == tried + 1
<1>3. n \in Nat
  OBVIOUS
<1>4. u = [active |-> o.active, data_active |-> o.data_active, stopping |-> o.stopping,
           reconnecting |-> TRUE, reconnect_stop |-> b, retries |-> n, hooked |-> o.hooked]
  BY <1>1 DEF OutputRec
<1> HIDE DEF b, n
<1> QED
  BY <1>2, <1>3, <1>4 DEF OutputRec

\* obs_output_signal_stop in a capture: the loss is reconnected and the capture
\* goes on, or it ends.
Loses(loss) == \/ output.reconnecting /\ loss # "success"
               \/ RetryMax # 0 /\ loss = "disconnected"

LEMMA SignalStopRunning ==
  ASSUME delay \in DelayRec, output \in OutputRec, NEW loss, Delaying!SignalStop(loss),
         RetryMax \in Nat, output.active, output.data_active, delay.active
  PROVE  /\ delay' \in DelayRec /\ output' \in OutputRec
         /\ output'.active /\ output'.hooked = output.hooked /\ delay'.ns = delay.ns
         /\ \/ /\ Loses(loss)
               /\ delay'.active /\ ~delay'.capturing
               /\ delay'.restart_refs = delay.restart_refs + 1
               /\ output'.data_active /\ output'.reconnecting
               /\ end' = end /\ retry = "off" /\ retry' = "wait"
            \/ /\ ~delay'.active /\ ~output'.data_active
               /\ delay'.capturing => delay.capturing /\ ~Loses(loss)
               /\ output'.reconnecting => output.reconnecting /\ ~Loses(loss)
               /\ end = "off" /\ end' = "encoders" /\ retry' = retry
<1> DEFINE More  == [delay EXCEPT !.restart_refs = @ + 1]
           tried == IF output.reconnecting THEN output.retries ELSE 0
           r     == [d |-> [More EXCEPT !.capturing = FALSE],
                     o |-> [output EXCEPT !.stopping = FALSE], ends |-> FALSE]
<1>1. /\ More \in DelayRec /\ More.active /\ More.restart_refs # 0 /\ tried \in Nat
      /\ More.ns = delay.ns
  BY DEF DelayRec, OutputRec
<1>2. r = Delaying!EndCapture(More, output) /\ r \in EndRec
  <2>1. Delaying!EndCapture(More, output) = r
    BY <1>1 DEF Delaying!EndCapture, Delaying!KeepsDelay
  <2>2. r.d \in DelayRec /\ r.o \in OutputRec
    BY <1>1 DEF DelayRec, OutputRec
  <2> QED
    BY <2>1, <2>2 DEF EndRec
<1>3. CASE Loses(loss) /\ ~(tried >= RetryMax)
  <2>1. /\ Delaying!Ended([d |-> r.d, o |-> Delaying!Again(r.o, tried), ends |-> r.ends])
        /\ retry = "off" /\ retry' = "wait"
    BY <1>2, <1>3 DEF Delaying!SignalStop, Loses
  <2>2. delay' = r.d /\ output' = Delaying!Again(r.o, tried) /\ end' = end
    BY <2>1 DEF Delaying!Ended
  <2>3. /\ output' \in OutputRec /\ output'.active /\ output'.data_active
        /\ output'.hooked = output.hooked /\ output'.reconnecting
    <3>1. r.o \in OutputRec /\ r.o.active /\ r.o.data_active /\ r.o.hooked = output.hooked
      BY DEF OutputRec
    <3> HIDE DEF r, tried
    <3> QED
      BY <1>1, <2>2, <3>1, AgainGives
  <2>5. r.d = [More EXCEPT !.capturing = FALSE]
    OBVIOUS
  <2>4. delay' \in DelayRec /\ delay'.ns = delay.ns
        /\ delay'.active /\ ~delay'.capturing
        /\ delay'.restart_refs = delay.restart_refs + 1
    <3>1. More.restart_refs = delay.restart_refs + 1
      BY DEF DelayRec
    <3> HIDE DEF More, r
    <3> QED
      BY <1>1, <2>2, <2>5, <3>1 DEF DelayRec
  <2> QED
    BY <1>3, <2>1, <2>2, <2>3, <2>4
<1>4. CASE Loses(loss) /\ tried >= RetryMax
  <2> DEFINE d == [r.d EXCEPT !.active = FALSE]
             o == [r.o EXCEPT !.reconnecting = FALSE, !.retries = tried]
  <2>1. Delaying!Ended(Delaying!EndAndSignal(d, o)) /\ retry' = retry
    BY <1>2, <1>4 DEF Delaying!SignalStop, Loses
  <2>2. /\ d \in DelayRec /\ ~d.active /\ ~d.capturing /\ d.ns = delay.ns
        /\ o \in OutputRec /\ o.active /\ o.data_active /\ ~o.reconnecting
        /\ o.hooked = output.hooked
    BY <1>1 DEF DelayRec, OutputRec
  <2> HIDE DEF d, o
  <2>3. Delaying!EndAndSignal(d, o) = [d |-> d, o |-> [o EXCEPT !.data_active = FALSE], ends |-> TRUE]
    BY <2>2 DEF Delaying!EndAndSignal, Delaying!EndCapture, Delaying!KeepsDelay
  <2>4. /\ delay' = d /\ output' = [o EXCEPT !.data_active = FALSE]
        /\ end = "off" /\ end' = "encoders"
    BY <2>1, <2>3 DEF Delaying!Ended
  <2> QED
    BY <2>1, <2>2, <2>4 DEF OutputRec
<1>5. CASE ~Loses(loss)
  <2> DEFINE d == [delay EXCEPT !.active = FALSE]
  <2>1. Delaying!Ended(Delaying!EndAndSignal(d, output)) /\ retry' = retry
    BY <1>5 DEF Delaying!SignalStop, Loses
  <2>2. d \in DelayRec /\ ~d.active /\ d.capturing = delay.capturing /\ d.ns = delay.ns
    BY DEF DelayRec
  <2> HIDE DEF d
  <2>3. Delaying!EndAndSignal(d, output)
          = [d |-> d, o |-> [output EXCEPT !.data_active = FALSE], ends |-> TRUE]
    BY <2>2 DEF Delaying!EndAndSignal, Delaying!EndCapture, Delaying!KeepsDelay
  <2>4. /\ delay' = d /\ output' = [output EXCEPT !.data_active = FALSE]
        /\ end = "off" /\ end' = "encoders"
    BY <2>1, <2>3 DEF Delaying!Ended
  <2> QED
    BY <1>5, <2>1, <2>2, <2>4 DEF OutputRec
<1> QED
  BY <1>3, <1>4, <1>5

\* obs_output_signal_stop with no capture to end, and no delay that runs.
LEMMA SignalStopIdle ==
  ASSUME delay \in DelayRec, output \in OutputRec, NEW loss, Delaying!SignalStop(loss),
         RetryMax \in Nat, ~(output.active /\ output.data_active), ~delay.active
  PROVE  /\ delay' = delay /\ output' \in OutputRec /\ end' = end
         /\ output'.active = output.active /\ output'.hooked = output.hooked
         /\ output'.data_active = output.data_active
         /\ retry' \in {retry, "wait"}
         /\ ~Loses(loss) => output'.reconnecting = output.reconnecting /\ retry' = retry
<1> DEFINE tried == IF output.reconnecting THEN output.retries ELSE 0
           r     == [d |-> delay, o |-> output, ends |-> FALSE]
<1>1. tried \in Nat /\ [delay EXCEPT !.active = FALSE] = delay
  BY DEF OutputRec, DelayRec
<1>2. Delaying!EndCapture(delay, output) = r
  BY DEF Delaying!EndCapture
<1>3. ASSUME NEW o \in OutputRec, ~(o.active /\ o.data_active)
      PROVE  Delaying!EndAndSignal(delay, o)
               = [d |-> delay, o |-> [o EXCEPT !.stopping = FALSE], ends |-> FALSE]
  <2> DEFINE u == [o EXCEPT !.stopping = FALSE]
  <2>1. ~(u.active /\ u.data_active)
    BY <1>3 DEF OutputRec
  <2> HIDE DEF u
  <2>2. Delaying!EndCapture(delay, u) = [d |-> delay, o |-> u, ends |-> FALSE]
    BY <2>1 DEF Delaying!EndCapture
  <2> QED
    BY <1>3, <2>2 DEF Delaying!EndAndSignal, u
<1>4. CASE Loses(loss) /\ ~(tried >= RetryMax)
  <2>1. /\ Delaying!Ended([d |-> r.d, o |-> Delaying!Again(r.o, tried), ends |-> r.ends])
        /\ retry' = "wait"
    BY <1>2, <1>4 DEF Delaying!SignalStop, Loses
  <2>2. delay' = delay /\ output' = Delaying!Again(output, tried) /\ end' = end
    BY <2>1 DEF Delaying!Ended
  <2>3. /\ output' \in OutputRec /\ output'.active = output.active
        /\ output'.data_active = output.data_active /\ output'.hooked = output.hooked
    BY <1>1, <2>2, AgainGives
  <2> QED
    BY <1>4, <2>1, <2>2, <2>3
<1>5. CASE Loses(loss) /\ tried >= RetryMax
  <2> DEFINE o == [output EXCEPT !.reconnecting = FALSE, !.retries = tried]
  <2>1. Delaying!Ended(Delaying!EndAndSignal([r.d EXCEPT !.active = FALSE],
                [r.o EXCEPT !.reconnecting = FALSE, !.retries = tried])) /\ retry' = retry
    BY <1>2, <1>5 DEF Delaying!SignalStop, Loses
  <2>2. /\ o \in OutputRec /\ o.active = output.active /\ o.data_active = output.data_active
        /\ o.hooked = output.hooked
    BY <1>1 DEF OutputRec
  <2>3. Delaying!Ended(Delaying!EndAndSignal(delay, o))
    BY <1>1, <2>1
  <2> HIDE DEF o
  <2>5. Delaying!EndAndSignal(delay, o)
          = [d |-> delay, o |-> [o EXCEPT !.stopping = FALSE], ends |-> FALSE]
    BY <1>3, <2>2
  <2>4. delay' = delay /\ output' = [o EXCEPT !.stopping = FALSE] /\ end' = end
    BY <2>3, <2>5 DEF Delaying!Ended
  <2> QED
    BY <1>5, <2>1, <2>2, <2>4 DEF OutputRec
<1>6. CASE ~Loses(loss)
  <2>1. Delaying!Ended(Delaying!EndAndSignal(delay, output)) /\ retry' = retry
    BY <1>1, <1>6 DEF Delaying!SignalStop, Loses
  <2>3. Delaying!EndAndSignal(delay, output)
          = [d |-> delay, o |-> [output EXCEPT !.stopping = FALSE], ends |-> FALSE]
    BY <1>3
  <2>2. delay' = delay /\ output' = [output EXCEPT !.stopping = FALSE] /\ end' = end
    BY <2>1, <2>3 DEF Delaying!Ended
  <2> QED
    BY <2>1, <2>2 DEF OutputRec
<1> QED
  BY <1>4, <1>5, <1>6

DelayTypes == /\ delay \in DelayRec /\ output \in OutputRec
              /\ retry \in {"off", "wait"} /\ end \in {"off", "encoders", "cleanup"}

\* Whatever the state, the flags stay flags.
LEMMA EndedTypes ==
  ASSUME DelayTypes, NEW r \in EndRec, Delaying!Ended(r)
  PROVE  /\ delay' \in DelayRec /\ output' \in OutputRec
         /\ end' \in {"off", "encoders", "cleanup"}
<1>1. r.d \in DelayRec /\ r.o \in OutputRec
  BY DEF EndRec
<1> QED
  BY <1>1 DEF Delaying!Ended, DelayTypes

LEMMA SignalStopTypes ==
  ASSUME DelayTypes, RetryMax \in Nat, NEW loss, Delaying!SignalStop(loss)
  PROVE  DelayTypes'
<1>1. PICK more : more = IF delay.active THEN [delay EXCEPT !.restart_refs = @ + 1] ELSE delay
  OBVIOUS
<1>2. PICK tried : tried = IF output.reconnecting THEN output.retries ELSE 0
  OBVIOUS
<1>3. more \in DelayRec /\ tried \in Nat /\ [delay EXCEPT !.active = FALSE] \in DelayRec
  <2>1. more \in DelayRec /\ [delay EXCEPT !.active = FALSE] \in DelayRec
    <3>1. delay \in DelayRec /\ [delay EXCEPT !.restart_refs = @ + 1] \in DelayRec
      BY DEF DelayTypes, DelayRec
    <3>2. [delay EXCEPT !.active = FALSE] \in DelayRec
      BY <3>1 DEF DelayRec
    <3> QED
      BY <1>1, <3>1, <3>2
  <2>2. tried \in Nat
    BY <1>2 DEF DelayTypes, OutputRec
  <2> QED
    BY <2>1, <2>2
<1>4. PICK r : r = Delaying!EndCapture(more, output)
  OBVIOUS
<1>5. r \in EndRec
  BY <1>3, <1>4, CaptureEnds DEF DelayTypes
<1>6. r.d \in DelayRec /\ r.o \in OutputRec /\ r.ends \in BOOLEAN
  BY <1>5 DEF EndRec
<1>7. PICK d, o : d = [r.d EXCEPT !.active = FALSE]
                    /\ o = [r.o EXCEPT !.reconnecting = FALSE, !.retries = tried]
  OBVIOUS
<1>8. d \in DelayRec /\ o \in OutputRec
  BY <1>3, <1>6, <1>7 DEF DelayRec, OutputRec
<1>9. \/ Delaying!Ended(Delaying!EndAndSignal(d, o)) /\ retry' = retry
      \/ Delaying!Ended([d |-> r.d, o |-> Delaying!Again(r.o, tried), ends |-> r.ends])
           /\ retry' = "wait"
      \/ Delaying!Ended(Delaying!EndAndSignal([delay EXCEPT !.active = FALSE], output))
           /\ retry' = retry
  BY <1>1, <1>2, <1>4, <1>7 DEF Delaying!SignalStop
<1>10. CASE Delaying!Ended(Delaying!EndAndSignal(d, o)) /\ retry' = retry
  <2>1. Delaying!EndAndSignal(d, o) \in EndRec
    BY <1>8, CaptureEndsAndSignals
  <2> QED
    BY <1>10, <2>1, EndedTypes DEF DelayTypes
<1>11. CASE /\ Delaying!Ended([d |-> r.d, o |-> Delaying!Again(r.o, tried), ends |-> r.ends])
            /\ retry' = "wait"
  <2>1. Delaying!Again(r.o, tried) \in OutputRec
    BY <1>3, <1>6, AgainGives DEF DelayTypes
  <2>2. [d |-> r.d, o |-> Delaying!Again(r.o, tried), ends |-> r.ends] \in EndRec
    BY <1>6, <2>1 DEF EndRec
  <2> QED
    BY <1>11, <2>2, EndedTypes DEF DelayTypes
<1>12. CASE /\ Delaying!Ended(Delaying!EndAndSignal([delay EXCEPT !.active = FALSE], output))
            /\ retry' = retry
  <2>1. Delaying!EndAndSignal([delay EXCEPT !.active = FALSE], output) \in EndRec
    BY <1>3, CaptureEndsAndSignals DEF DelayTypes
  <2> QED
    BY <1>12, <2>1, EndedTypes DEF DelayTypes
<1> QED
  BY <1>9, <1>10, <1>11, <1>12

PluginRec == [connecting : BOOLEAN, sending : BOOLEAN, stop : {"no", "ts", "force"}]
CallsRec  == [starts : Nat, stops : Nat, forced : BOOLEAN, late : BOOLEAN,
              orphan : BOOLEAN, short : BOOLEAN]
QueueTypes == /\ now \in Nat /\ queue \in Seq(Delaying!Messages)
              /\ encoder \in [Encoders -> EncoderStates]
              /\ ui \in {"idle", "begin", "delay_stop", "force", "force_stop"}
              /\ plugin \in PluginRec /\ calls \in CallsRec

LEMMA DelayTypeParts == Delaying!TypeOK <=> DelayTypes /\ QueueTypes
BY DEF Delaying!TypeOK, DelayTypes, QueueTypes, DelayRec, OutputRec, PluginRec, CallsRec,
       EncoderStates

DelayNumbers == Delay \in Nat /\ RetryMax \in Nat

\* An encoder thread goes on to another step.
LEMMA EncoderMoves ==
  ASSUME encoder \in [Encoders -> EncoderStates], NEW e \in Encoders, NEW x \in EncoderStates,
         encoder' = [encoder EXCEPT ![e] = x]
  PROVE  encoder' \in [Encoders -> EncoderStates]
OBVIOUS

LEMMA EncoderShapes ==
  ASSUME encoder \in [Encoders -> EncoderStates], NEW e \in Encoders
  PROVE  /\ [at |-> "idle"] \in EncoderStates
         /\ encoder[e].at \in {"pop", "stop", "process"} => encoder[e].t \in Nat
         /\ encoder[e].at = "process" => encoder[e].dd \in Delaying!Messages
         /\ \A t \in Nat : /\ [at |-> "pop", t |-> t] \in EncoderStates
                           /\ [at |-> "stop", t |-> t] \in EncoderStates
                           /\ \A dd \in Delaying!Messages :
                                [at |-> "process", t |-> t, dd |-> dd] \in EncoderStates
<1>1. encoder[e] \in EncoderStates
  OBVIOUS
<1> QED
  BY <1>1 DEF EncoderStates

LEMMA InfoStopTypes ==
  ASSUME DelayTypes, plugin \in PluginRec, RetryMax \in Nat, NEW how \in {"ts", "force"},
         Delaying!InfoStop(how)
  PROVE  DelayTypes' /\ plugin' \in PluginRec
<1>1. CASE UNCHANGED <<delay, output, plugin, retry, end>>
  BY <1>1 DEF DelayTypes
<1>2. CASE plugin' = [plugin EXCEPT !.stop = how] /\ UNCHANGED <<delay, output, retry, end>>
  BY <1>2 DEF DelayTypes, PluginRec
<1>3. CASE Delaying!SignalStop("success") /\ UNCHANGED plugin
  BY <1>3, SignalStopTypes
<1> QED
  BY <1>1, <1>2, <1>3 DEF Delaying!InfoStop

LEMMA ActualStartTypes ==
  ASSUME DelayTypes, plugin \in PluginRec, Delaying!ActualStart
  PROVE  delay' \in DelayRec /\ plugin' \in PluginRec
<1>1. plugin' \in PluginRec
  BY DEF Delaying!ActualStart, Delaying!InfoStart, PluginRec
<1>2. PICK n : n = IF delay.restart_refs = 0 THEN 0 ELSE delay.restart_refs - 1
  OBVIOUS
<1>3. n \in Nat /\ delay' = [delay EXCEPT !.restart_refs = n]
  BY <1>2 DEF Delaying!ActualStart, DelayTypes, DelayRec
<1> QED
  BY <1>1, <1>3 DEF DelayTypes, DelayRec

LEMMA BeginCaptureTypes ==
  ASSUME DelayTypes, DelayNumbers, Delaying!BeginCapture
  PROVE  delay' \in DelayRec /\ output' \in OutputRec
BY DEF Delaying!BeginCapture, DelayTypes, DelayNumbers, DelayRec, OutputRec

LEMMA CleanupTypes ==
  ASSUME DelayTypes, Delaying!Cleanup
  PROVE  queue' \in Seq(Delaying!Messages) /\ delay' \in DelayRec
<1>1. queue' \in Seq(Delaying!Messages)
  BY DEF Delaying!Cleanup
<1>2. delay' \in DelayRec
  BY DEF Delaying!Cleanup, DelayTypes, DelayRec
<1> QED
  BY <1>1, <1>2

\* The threads of the plugin, and the two of the output.
LEMMA PluginTypes ==
  ASSUME DelayTypes, QueueTypes, DelayNumbers,
         \/ Delaying!Connected \/ Delaying!ConnectFails
         \/ Delaying!SendStops \/ Delaying!SendFails
         \/ Delaying!RetryStart \/ Delaying!RetryStopped
         \/ Delaying!EndEncoders \/ Delaying!EndCleanup
  PROVE  DelayTypes' /\ QueueTypes'
<1> USE DEF DelayNumbers
<1>1. CASE Delaying!Connected
  <2>1. delay' \in DelayRec /\ output' \in OutputRec /\ UNCHANGED <<retry, end>>
    BY <1>1, BeginCaptureTypes DEF Delaying!Connected
  <2>2. plugin' \in PluginRec
    BY <1>1 DEF Delaying!Connected, QueueTypes, PluginRec
  <2>3. calls' \in CallsRec
    <3>1. PICK b \in BOOLEAN : b <=> (calls.orphan \/ calls.forced)
      OBVIOUS
    <3>2. calls' = [calls EXCEPT !.orphan = b]
      BY <1>1, <3>1 DEF Delaying!Connected, QueueTypes, CallsRec
    <3> QED
      BY <3>2 DEF QueueTypes, CallsRec
  <2> QED
    BY <1>1, <2>1, <2>2, <2>3 DEF Delaying!Connected, QueueTypes, DelayTypes
<1>2. CASE Delaying!ConnectFails
  <2>1. plugin' \in PluginRec /\ UNCHANGED <<now, queue, encoder, ui, calls>>
    BY <1>2 DEF Delaying!ConnectFails, QueueTypes, PluginRec
  <2>2. DelayTypes'
    BY <1>2, SignalStopTypes DEF Delaying!ConnectFails
  <2> QED
    BY <2>1, <2>2 DEF QueueTypes
<1>3. CASE Delaying!SendStops
  <2>1. plugin' \in PluginRec /\ UNCHANGED <<now, queue, encoder, ui, retry, calls>>
    BY <1>3 DEF Delaying!SendStops, QueueTypes, PluginRec
  <2>2. Delaying!EndAndSignal(delay, output) \in EndRec
    BY CaptureEndsAndSignals DEF DelayTypes
  <2>3. DelayTypes'
    BY <1>3, <2>2, EndedTypes DEF Delaying!SendStops, DelayTypes
  <2> QED
    BY <2>1, <2>3 DEF QueueTypes
<1>4. CASE Delaying!SendFails
  <2>1. plugin' \in PluginRec /\ UNCHANGED <<now, queue, encoder, ui, calls>>
    BY <1>4 DEF Delaying!SendFails, QueueTypes, PluginRec
  <2>2. DelayTypes'
    BY <1>4, SignalStopTypes DEF Delaying!SendFails
  <2> QED
    BY <2>1, <2>2 DEF QueueTypes
<1>5. CASE Delaying!RetryStart
  BY <1>5, ActualStartTypes DEF Delaying!RetryStart, QueueTypes, DelayTypes
<1>6. CASE Delaying!RetryStopped
  BY <1>6 DEF Delaying!RetryStopped, QueueTypes, DelayTypes, OutputRec
<1>7. CASE Delaying!EndEncoders
  <2>1. PICK b \in BOOLEAN : b <=> (output.hooked /\ delay.ns = 0)
    OBVIOUS
  <2>2. output' = [output EXCEPT !.hooked = b]
    BY <1>7, <2>1 DEF Delaying!EndEncoders, DelayTypes, OutputRec
  <2> QED
    BY <1>7, <2>2 DEF Delaying!EndEncoders, QueueTypes, DelayTypes, OutputRec
<1>8. CASE Delaying!EndCleanup
  <2>1. queue' \in Seq(Delaying!Messages) /\ delay' \in DelayRec
    BY <1>8, CleanupTypes DEF Delaying!EndCleanup, QueueTypes, DelayTypes
  <2>2. output' \in OutputRec
    BY <1>8 DEF Delaying!EndCleanup, DelayTypes, OutputRec
  <2> QED
    BY <1>8, <2>1, <2>2 DEF Delaying!EndCleanup, QueueTypes, DelayTypes
<1> QED
  BY <1>1, <1>2, <1>3, <1>4, <1>5, <1>6, <1>7, <1>8

LEMMA MessageAppended ==
  ASSUME QueueTypes, NEW msg \in {"packet", "start", "stop"}
  PROVE  Append(queue, Delaying!Message(msg)) \in Seq(Delaying!Messages)
<1>1. Delaying!Message(msg) \in Delaying!Messages
  BY DEF Delaying!Message, Delaying!Messages, QueueTypes
<1> QED
  BY <1>1 DEF QueueTypes

\* The encoder threads.
LEMMA EncoderTypes ==
  ASSUME DelayTypes, QueueTypes, DelayNumbers, NEW e \in Encoders,
         \/ Delaying!ProcessDelay(e) \/ Delaying!PopPacket(e) \/ Delaying!ProcessPacket(e)
         \/ Delaying!ProcessStart(e) \/ Delaying!ProcessStop(e) \/ Delaying!StopPlugin(e)
  PROVE  DelayTypes' /\ QueueTypes'
<1> USE DEF DelayNumbers
<1>0. encoder \in [Encoders -> EncoderStates]
  BY DEF QueueTypes
<1>1. CASE Delaying!ProcessDelay(e)
  <2>1. queue' \in Seq(Delaying!Messages)
    BY <1>1, MessageAppended DEF Delaying!ProcessDelay
  <2>2. encoder' \in [Encoders -> EncoderStates] /\ now' \in Nat
    <3>1. now \in Nat /\ now' = now + 1 /\ [at |-> "pop", t |-> now] \in EncoderStates
      BY <1>0, <1>1, EncoderShapes DEF Delaying!ProcessDelay, QueueTypes
    <3> QED
      BY <1>0, <1>1, <3>1, EncoderMoves DEF Delaying!ProcessDelay
  <2> QED
    BY <1>1, <2>1, <2>2 DEF Delaying!ProcessDelay, QueueTypes, DelayTypes
<1>2. CASE Delaying!PopPacket(e)
  <2>1. encoder[e].t \in Nat
    BY <1>0, <1>2, EncoderShapes DEF Delaying!PopPacket
  <2>2. PICK done : done = [encoder EXCEPT ![e] = [at |-> "idle"]]
    OBVIOUS
  <2>3. done \in [Encoders -> EncoderStates]
    BY <1>0, <2>2, EncoderShapes
  <2>4. CASE encoder' = done /\ UNCHANGED <<queue, delay, calls>>
    BY <1>2, <2>3, <2>4 DEF Delaying!PopPacket, QueueTypes, DelayTypes
  <2>5. PICK gone : gone = (encoder[e].t - Head(queue).ts) % 1000
    OBVIOUS
  <2>6. queue # <<>> => Head(queue) \in Delaying!Messages /\ Tail(queue) \in Seq(Delaying!Messages)
    BY DEF QueueTypes
  <2>7. queue # <<>> => gone \in Nat
    BY <2>1, <2>5, <2>6 DEF Delaying!Messages
  <2>8. CASE /\ queue # <<>> /\ encoder' = done /\ UNCHANGED queue
             /\ delay' = [delay EXCEPT !.ns = gone]
             /\ calls' = [calls EXCEPT !.short = @ \/ gone = 0]
    <3>1. PICK b \in BOOLEAN : b <=> (calls.short \/ gone = 0)
      OBVIOUS
    <3>2. calls' = [calls EXCEPT !.short = b]
      BY <2>8, <3>1 DEF QueueTypes, CallsRec
    <3>3. calls' \in CallsRec /\ delay' \in DelayRec
      BY <2>7, <2>8, <3>2 DEF QueueTypes, CallsRec, DelayTypes, DelayRec
    <3> QED
      BY <1>2, <2>3, <2>8, <3>3 DEF Delaying!PopPacket, QueueTypes, DelayTypes
  <2>9. CASE /\ queue # <<>> /\ queue' = Tail(queue)
             /\ encoder' = [encoder EXCEPT
                  ![e] = [at |-> "process", t |-> encoder[e].t, dd |-> Head(queue)]]
             /\ UNCHANGED <<delay, calls>>
    <3>1. encoder' \in [Encoders -> EncoderStates]
      BY <1>0, <2>1, <2>6, <2>9, EncoderShapes, EncoderMoves
    <3> QED
      BY <1>2, <2>6, <2>9, <3>1 DEF Delaying!PopPacket, QueueTypes, DelayTypes
  <2> QED
    BY <1>2, <2>2, <2>4, <2>5, <2>8, <2>9 DEF Delaying!PopPacket, Delaying!Wrap
<1>3. CASE Delaying!ProcessPacket(e) \/ Delaying!ProcessStart(e)
  <2>1. encoder' \in [Encoders -> EncoderStates]
    BY <1>0, <1>3, EncoderShapes, EncoderMoves
       DEF Delaying!ProcessPacket, Delaying!ProcessStart, Delaying!Processing, Delaying!Processed
  <2>2. delay' \in DelayRec /\ plugin' \in PluginRec
    BY <1>3, ActualStartTypes
       DEF Delaying!ProcessPacket, Delaying!ProcessStart, QueueTypes, DelayTypes
  <2> QED
    BY <1>3, <2>1, <2>2
       DEF Delaying!ProcessPacket, Delaying!ProcessStart, QueueTypes, DelayTypes
<1>4. CASE Delaying!ProcessStop(e)
  <2>1. encoder' \in [Encoders -> EncoderStates]
    BY <1>0, <1>4, EncoderShapes, EncoderMoves
       DEF Delaying!ProcessStop, Delaying!Processing, Delaying!Processed
  <2>2. output' \in OutputRec
    <3>1. CASE output' = output
      BY <3>1 DEF DelayTypes
    <3>2. CASE output' = [output EXCEPT !.stopping = TRUE,
                            !.reconnect_stop = @ \/ output.reconnecting]
      <4>1. PICK b \in BOOLEAN : b <=> (output.reconnect_stop \/ output.reconnecting)
        OBVIOUS
      <4>2. output' = [output EXCEPT !.stopping = TRUE, !.reconnect_stop = b]
        BY <3>2, <4>1 DEF DelayTypes, OutputRec
      <4> QED
        BY <4>2 DEF DelayTypes, OutputRec
    <3> QED
      BY <1>4, <3>1, <3>2 DEF Delaying!ProcessStop
  <2> QED
    BY <1>4, <2>1, <2>2 DEF Delaying!ProcessStop, QueueTypes, DelayTypes
<1>5. CASE Delaying!StopPlugin(e)
  <2>1. encoder' \in [Encoders -> EncoderStates]
    BY <1>0, <1>5, EncoderShapes, EncoderMoves DEF Delaying!StopPlugin, Delaying!Processed
  <2>2. DelayTypes' /\ plugin' \in PluginRec
    BY <1>5, InfoStopTypes DEF Delaying!StopPlugin, QueueTypes
  <2> QED
    BY <1>5, <2>1, <2>2 DEF Delaying!StopPlugin, QueueTypes
<1> QED
  BY <1>1, <1>2, <1>3, <1>4, <1>5

\* The user interface.
LEMMA UserTypes ==
  ASSUME DelayTypes, QueueTypes, DelayNumbers,
         \/ Delaying!DelayStart \/ Delaying!DelayBegin \/ Delaying!OutputStop
         \/ Delaying!DelayStop \/ Delaying!ForceStop \/ Delaying!ForceEnd
         \/ Delaying!ForcePlugin
  PROVE  DelayTypes' /\ QueueTypes'
<1> USE DEF DelayNumbers
<1>1. CASE Delaying!DelayStart
  <2>1. queue' \in Seq(Delaying!Messages)
    BY <1>1, MessageAppended DEF Delaying!DelayStart
  <2>2. delay' \in DelayRec
    BY <1>1 DEF Delaying!DelayStart, DelayTypes, DelayRec
  <2>3. calls' \in CallsRec
    <3>1. PICK b \in BOOLEAN : b <=> (calls.orphan \/ (calls.forced /\ ~Delaying!PluginIdle))
      OBVIOUS
    <3>2. calls' = [calls EXCEPT !.starts = @ + 1, !.forced = FALSE, !.orphan = b]
      BY <1>1, <3>1 DEF Delaying!DelayStart, QueueTypes, CallsRec
    <3> QED
      <4>1. PICK n : n = calls.starts + 1
        OBVIOUS
      <4>2. n \in Nat /\ calls \in CallsRec
        BY <4>1 DEF QueueTypes, CallsRec
      <4>3. calls' = [calls EXCEPT !.starts = n, !.forced = FALSE, !.orphan = b]
        BY <3>2, <4>1
      <4> QED
        BY <4>2, <4>3 DEF CallsRec
  <2> QED
    BY <1>1, <2>1, <2>2, <2>3 DEF Delaying!DelayStart, QueueTypes, DelayTypes
<1>2. CASE Delaying!DelayBegin
  <2>1. queue' \in Seq(Delaying!Messages) /\ delay' \in DelayRec /\ output' \in OutputRec
    <3>1. CASE UNCHANGED <<queue, delay, output>>
      BY <3>1 DEF QueueTypes, DelayTypes
    <3>2. CASE Delaying!Cleanup /\ UNCHANGED output
      BY <3>2, CleanupTypes DEF DelayTypes
    <3>3. CASE Delaying!BeginCapture /\ UNCHANGED queue
      BY <3>3, BeginCaptureTypes DEF QueueTypes
    <3> QED
      BY <1>2, <3>1, <3>2, <3>3 DEF Delaying!DelayBegin
  <2> QED
    BY <1>2, <2>1 DEF Delaying!DelayBegin, QueueTypes, DelayTypes
<1>3. CASE Delaying!OutputStop
  BY <1>3 DEF Delaying!OutputStop, QueueTypes, DelayTypes, CallsRec
<1>4. CASE Delaying!DelayStop
  <2>1. queue' \in Seq(Delaying!Messages)
    BY <1>4, MessageAppended DEF Delaying!DelayStop
  <2>2. calls' \in CallsRec
    <3>1. PICK b \in BOOLEAN : b <=> (calls.late \/ delay.ns = 0)
      OBVIOUS
    <3>2. calls' = [calls EXCEPT !.late = b]
      BY <1>4, <3>1 DEF Delaying!DelayStop, QueueTypes, CallsRec
    <3> QED
      BY <3>2 DEF QueueTypes, CallsRec
  <2> QED
    BY <1>4, <2>1, <2>2 DEF Delaying!DelayStop, QueueTypes, DelayTypes
<1>5. CASE Delaying!ForceStop
  <2>1. PICK b \in BOOLEAN : b <=> (output.reconnect_stop \/ output.reconnecting)
    OBVIOUS
  <2>2. output' = [output EXCEPT !.stopping = TRUE, !.reconnect_stop = b]
    BY <1>5, <2>1 DEF Delaying!ForceStop, DelayTypes, OutputRec
  <2>3. output' \in OutputRec
    BY <2>2 DEF DelayTypes, OutputRec
  <2> QED
    <3>1. calls' \in CallsRec
      <4>1. PICK n : n = calls.stops + 1
        OBVIOUS
      <4>2. n \in Nat /\ calls' = [calls EXCEPT !.stops = n, !.forced = TRUE]
        BY <1>5, <4>1 DEF Delaying!ForceStop, QueueTypes, CallsRec
      <4> QED
        BY <4>2 DEF QueueTypes, CallsRec
    <3> QED
      BY <1>5, <2>3, <3>1 DEF Delaying!ForceStop, QueueTypes, DelayTypes
<1>6. CASE Delaying!ForceEnd
  <2>1. DelayTypes'
    <3>1. CASE UNCHANGED <<delay, output, end>>
      BY <1>6, <3>1 DEF Delaying!ForceEnd, DelayTypes
    <3>2. PICK d : d = [delay EXCEPT !.active = FALSE, !.capturing = FALSE]
      OBVIOUS
    <3>3. d \in DelayRec
      BY <3>2 DEF DelayTypes, DelayRec
    <3>4. PICK r : r = Delaying!EndAndSignal(d, output)
      OBVIOUS
    <3>5. r \in EndRec
      BY <3>3, <3>4, CaptureEndsAndSignals DEF DelayTypes
    <3>6. [d |-> r.d, o |-> [r.o EXCEPT !.stopping = FALSE], ends |-> r.ends] \in EndRec
      <4>1. r.d \in DelayRec /\ r.o \in OutputRec /\ r.ends \in BOOLEAN
        BY <3>5 DEF EndRec
      <4>2. [r.o EXCEPT !.stopping = FALSE] \in OutputRec
        BY <4>1 DEF OutputRec
      <4> QED
        BY <4>1, <4>2 DEF EndRec
    <3>7. CASE Delaying!Ended([d |-> r.d, o |-> [r.o EXCEPT !.stopping = FALSE], ends |-> r.ends])
      BY <1>6, <3>6, <3>7, EndedTypes DEF Delaying!ForceEnd, DelayTypes
    <3> QED
      BY <1>6, <3>1, <3>2, <3>4, <3>7 DEF Delaying!ForceEnd
  <2> QED
    BY <1>6, <2>1 DEF Delaying!ForceEnd, QueueTypes
<1>7. CASE Delaying!ForcePlugin
  BY <1>7, InfoStopTypes DEF Delaying!ForcePlugin, QueueTypes
<1> QED
  BY <1>1, <1>2, <1>3, <1>4, <1>5, <1>6, <1>7

----------------------------------------------------------------------------
\* A session has three phases, and each step keeps them while it is clean.
Phases == Delaying!Resting \/ Delaying!Running \/ Delaying!Finishing
DelayIndeed == Delay \in Nat \ {0} /\ RetryMax \in Nat \ {0} /\ Restart = FALSE
Before == /\ DelayTypes /\ QueueTypes /\ Delaying!Forcing /\ Phases /\ Delaying!Clean
          /\ DelayIndeed

LEMMA Unmoved ==
  ASSUME UNCHANGED <<queue, encoder>>
  PROVE  /\ Delaying!OneStart' <=> Delaying!OneStart
         /\ Delaying!StartWaits' <=> Delaying!StartWaits
         /\ Delaying!EncodersIdle' <=> Delaying!EncodersIdle
BY DEF Delaying!OneStart, Delaying!StartWaits, Delaying!EncodersIdle, Delaying!Processing

\* What says whether the capture rests is left alone, and a stop was forced.
LEMMA RestsOn ==
  ASSUME Delaying!Resting, calls.forced, calls'.forced, UNCHANGED <<queue, encoder, delay, end>>,
         DelayTypes, DelayTypes',
         output'.active = output.active, output'.data_active = output.data_active,
         output'.hooked = output.hooked, ui' # "begin"
  PROVE  Delaying!Resting'
BY Unmoved DEF Delaying!Resting

LEMMA FinishesOn ==
  ASSUME Delaying!Finishing, calls.forced, calls'.forced, UNCHANGED <<encoder, delay, end>>,
         output'.active = output.active, output'.data_active = output.data_active,
         output'.hooked = output.hooked, ui' # "begin"
  PROVE  Delaying!Finishing'
BY DEF Delaying!Finishing, Delaying!EncodersIdle

\* A capture that runs reconnects, or ends, once its thread has left it.
LEMMA ReconnectsOrEnds ==
  ASSUME DelayTypes, RetryMax \in Nat, NEW loss, Delaying!SignalStop(loss), Delaying!Running,
         Loses(loss) => delay.restart_refs = 0 /\ ~Delaying!StartWaits' /\ Delaying!OneStart',
         ~Loses(loss) => ~delay.capturing /\ ~output.reconnecting,
         retry = "off", ~plugin'.connecting, ~plugin'.sending, UNCHANGED <<calls, ui>>
  PROVE  Phases'
<1>1. /\ output.active /\ output.data_active /\ output.hooked /\ delay.active /\ delay.ns # 0
      /\ end = "off" /\ Delaying!OneStart /\ ui \notin {"begin", "force_stop"}
      /\ calls.forced => ui = "force"
  BY DEF Delaying!Running
<1>2. /\ delay \in DelayRec /\ output \in OutputRec /\ RetryMax \in Nat
  BY DEF DelayTypes
<1>3. CASE /\ Loses(loss) /\ delay'.active /\ ~delay'.capturing
           /\ delay'.restart_refs = delay.restart_refs + 1
           /\ output'.data_active /\ output'.reconnecting
           /\ end' = end /\ retry = "off" /\ retry' = "wait"
           /\ output'.active /\ output'.hooked = output.hooked /\ delay'.ns = delay.ns
  <2>1. /\ output'.active /\ output'.data_active /\ output'.hooked /\ delay'.active
        /\ delay'.ns # 0 /\ end' = "off" /\ Delaying!OneStart' /\ ~Delaying!StartWaits'
        /\ ui' \notin {"begin", "force_stop"} /\ calls'.forced => ui' = "force"
        /\ delay'.capturing <=> plugin'.sending
        /\ delay'.restart_refs = 1 /\ output'.reconnecting /\ retry' = "wait"
        /\ ~plugin'.connecting /\ ~plugin'.sending
    BY <1>1, <1>3
  <2>2. Delaying!Running'
    BY <2>1 DEF Delaying!Running
  <2> QED
    BY <2>2 DEF Phases
<1>4. CASE /\ ~delay'.active /\ ~output'.data_active
           /\ delay'.capturing => delay.capturing /\ ~Loses(loss)
           /\ output'.reconnecting => output.reconnecting /\ ~Loses(loss)
           /\ end = "off" /\ end' = "encoders" /\ retry' = retry
           /\ output'.active /\ output'.hooked = output.hooked /\ delay'.ns = delay.ns
  <2>1. /\ output'.active /\ ~output'.data_active /\ ~delay'.active /\ ~delay'.capturing
        /\ delay'.ns # 0 /\ ui' # "begin" /\ end' = "encoders"
        /\ ~plugin'.connecting /\ ~plugin'.sending /\ retry' = "off" /\ ~output'.reconnecting
    BY <1>1, <1>4
  <2>2. Delaying!Finishing'
    BY <2>1 DEF Delaying!Finishing, Delaying!PluginIdle
  <2> QED
    BY <2>2 DEF Phases
<1> QED
  BY <1>1, <1>2, <1>3, <1>4, SignalStopRunning

LEMMA ConnectedKeeps ==
  ASSUME Before, Delaying!Connected, Delaying!Clean'
  PROVE  Phases'
<1>1. ~calls.forced /\ ~calls'.forced
  BY DEF Before, QueueTypes, CallsRec, Delaying!Connected, Delaying!Clean
<1>2. Delaying!Running
  BY <1>1 DEF Before, Phases, Delaying!Resting, Delaying!Finishing, Delaying!PluginIdle,
              Delaying!Connected, Delaying!Connecting
<1>3. /\ delay' = [delay EXCEPT !.capturing = TRUE]
      /\ output' = [output EXCEPT !.reconnecting = FALSE]
  BY <1>2 DEF Delaying!Running, Delaying!Connected, Delaying!Connecting, Delaying!BeginCapture,
              Delaying!PluginIdle
<1>4. /\ delay'.active = delay.active /\ delay'.ns = delay.ns /\ delay'.capturing
      /\ delay'.restart_refs = delay.restart_refs
      /\ output'.active = output.active /\ output'.data_active = output.data_active
      /\ output'.hooked = output.hooked /\ ~output'.reconnecting
  BY <1>3 DEF Before, DelayTypes, DelayRec, OutputRec
<1>5. /\ ~plugin'.connecting /\ plugin'.sending /\ UNCHANGED <<queue, encoder, ui, retry, end>>
  BY DEF Before, QueueTypes, PluginRec, Delaying!Connected
<1>6. Delaying!Running'
  BY <1>1, <1>2, <1>4, <1>5, Unmoved
     DEF Delaying!Running, Delaying!Connected, Delaying!Connecting, Delaying!PluginIdle
<1> QED
  BY <1>6 DEF Phases

LEMMA ConnectFailsKeeps ==
  ASSUME Before, Delaying!ConnectFails
  PROVE  Phases'
<1>1. /\ DelayTypes /\ DelayTypes' /\ delay \in DelayRec /\ output \in OutputRec
      /\ RetryMax \in Nat
  BY PluginTypes DEF Before, DelayTypes, DelayIndeed, DelayNumbers
<1>2. /\ plugin.connecting /\ ~plugin'.connecting /\ plugin'.sending = plugin.sending
      /\ Delaying!SignalStop("error") /\ UNCHANGED <<queue, encoder, ui, calls>>
  BY DEF Before, QueueTypes, PluginRec, Delaying!ConnectFails, Delaying!Connecting
<1>3. CASE Delaying!Resting
  <2>1. calls.forced /\ ui # "begin"
    BY <1>2, <1>3 DEF Delaying!Resting, Delaying!PluginIdle
  <2> QED
    BY <1>1, <1>2, <1>3, <2>1, SignalStopIdle, RestsOn DEF Phases, Delaying!Resting
<1>4. CASE Delaying!Finishing
  <2>1. calls.forced /\ ui # "begin"
    BY <1>2, <1>4 DEF Delaying!Finishing, Delaying!PluginIdle
  <2> QED
    BY <1>1, <1>2, <1>4, <2>1, SignalStopIdle, FinishesOn DEF Phases, Delaying!Finishing
<1>5. CASE Delaying!Running
  <2>1. /\ output.active /\ output.data_active /\ output.hooked /\ delay.active /\ delay.ns # 0
        /\ ~plugin.sending /\ ~delay.capturing /\ retry = "off" /\ delay.restart_refs = 0
        /\ ~Delaying!StartWaits /\ ui \notin {"begin", "force_stop"}
    BY <1>2, <1>5 DEF Delaying!Running, Delaying!PluginIdle
  <2>2. output.reconnecting => Loses("error")
    BY DEF Loses
  <2> QED
    BY <1>1, <1>2, <1>5, <2>1, <2>2, ReconnectsOrEnds, Unmoved DEF Delaying!Running
<1> QED
  BY <1>3, <1>4, <1>5 DEF Before, Phases

LEMMA SendStopsKeeps ==
  ASSUME Before, Delaying!SendStops
  PROVE  Phases'
<1>1. /\ DelayTypes /\ DelayTypes' /\ delay \in DelayRec /\ output \in OutputRec
  BY PluginTypes DEF Before, DelayTypes, DelayIndeed, DelayNumbers
<1>2. /\ plugin.sending /\ ~plugin'.sending /\ plugin'.connecting = plugin.connecting
      /\ UNCHANGED <<queue, encoder, ui, retry, calls>>
  BY DEF Before, QueueTypes, PluginRec, Delaying!SendStops
<1>3. PICK r \in EndRec : r = Delaying!EndAndSignal(delay, output)
  BY <1>1, CaptureEndsAndSignals
<1>4. /\ delay' = r.d /\ output' = r.o /\ end' = IF r.ends THEN "encoders" ELSE end
  BY <1>3 DEF Delaying!SendStops, Delaying!Ended
<1>5. ASSUME ~output.data_active
      PROVE  /\ UNCHANGED <<delay, end>> /\ output'.active = output.active
             /\ output'.data_active = output.data_active /\ output'.hooked = output.hooked
  <2>1. PICK o : o = [output EXCEPT !.stopping = FALSE]
    OBVIOUS
  <2>2. /\ o.active = output.active /\ o.data_active = output.data_active
        /\ o.hooked = output.hooked
    BY <1>1, <2>1 DEF OutputRec
  <2>3. Delaying!EndAndSignal(delay, output) = Delaying!EndCapture(delay, o)
    BY <1>5, <2>1 DEF Delaying!EndAndSignal
  <2>4. Delaying!EndCapture(delay, o) = [d |-> delay, o |-> o, ends |-> FALSE]
    BY <1>5, <2>2 DEF Delaying!EndCapture
  <2> QED
    BY <1>3, <1>4, <2>2, <2>3, <2>4
<1>6. CASE Delaying!Resting
  <2>1. calls.forced /\ ui # "begin" /\ ~output.data_active
    BY <1>2, <1>6 DEF Delaying!Resting, Delaying!PluginIdle
  <2> QED
    BY <1>1, <1>2, <1>5, <1>6, <2>1, RestsOn DEF Phases
<1>7. CASE Delaying!Finishing
  <2>1. calls.forced /\ ui # "begin" /\ ~output.data_active
    BY <1>2, <1>7 DEF Delaying!Finishing, Delaying!PluginIdle
  <2> QED
    BY <1>2, <1>5, <1>7, <2>1, FinishesOn DEF Phases
<1>8. CASE Delaying!Running
  <2>1. /\ output.active /\ output.data_active /\ delay.active /\ delay.ns # 0
        /\ ~plugin.connecting /\ retry = "off" /\ delay.restart_refs = 0
        /\ ~output.reconnecting /\ ui # "begin"
    BY <1>2, <1>8 DEF Delaying!Running, Delaying!PluginIdle
  <2>2. /\ r.d = [delay EXCEPT !.capturing = FALSE, !.active = FALSE]
        /\ r.o = [output EXCEPT !.data_active = FALSE] /\ r.ends
    BY <1>1, <1>3, <2>1, CaptureEndsAndSignals
  <2>3. /\ ~delay'.active /\ ~delay'.capturing /\ delay'.ns = delay.ns
        /\ output'.active /\ ~output'.data_active /\ ~output'.reconnecting
        /\ end' = "encoders"
    BY <1>1, <1>4, <2>1, <2>2 DEF DelayRec, OutputRec
  <2>4. Delaying!Finishing'
    BY <1>2, <2>1, <2>3 DEF Delaying!Finishing, Delaying!PluginIdle
  <2> QED
    BY <2>4 DEF Phases
<1> QED
  BY <1>6, <1>7, <1>8 DEF Before, Phases

LEMMA SendFailsKeeps ==
  ASSUME Before, Delaying!SendFails
  PROVE  Phases'
<1>1. /\ DelayTypes /\ DelayTypes' /\ delay \in DelayRec /\ output \in OutputRec
      /\ RetryMax \in Nat /\ RetryMax # 0
  BY PluginTypes DEF Before, DelayTypes, DelayIndeed, DelayNumbers
<1>2. /\ plugin.sending /\ ~plugin'.sending /\ plugin'.connecting = plugin.connecting
      /\ Delaying!SignalStop("disconnected") /\ UNCHANGED <<queue, encoder, ui, calls>>
  BY DEF Before, QueueTypes, PluginRec, Delaying!SendFails
<1>3. CASE Delaying!Resting
  <2>1. calls.forced /\ ui # "begin"
    BY <1>2, <1>3 DEF Delaying!Resting, Delaying!PluginIdle
  <2> QED
    BY <1>1, <1>2, <1>3, <2>1, SignalStopIdle, RestsOn DEF Phases, Delaying!Resting
<1>4. CASE Delaying!Finishing
  <2>1. calls.forced /\ ui # "begin"
    BY <1>2, <1>4 DEF Delaying!Finishing, Delaying!PluginIdle
  <2> QED
    BY <1>1, <1>2, <1>4, <2>1, SignalStopIdle, FinishesOn DEF Phases, Delaying!Finishing
<1>5. CASE Delaying!Running
  <2>1. /\ ~plugin.connecting /\ retry = "off" /\ delay.restart_refs = 0
        /\ ~Delaying!StartWaits /\ ui \notin {"begin", "force_stop"}
    BY <1>2, <1>5 DEF Delaying!Running, Delaying!PluginIdle
  <2>2. Loses("disconnected")
    BY <1>1 DEF Loses
  <2> QED
    BY <1>1, <1>2, <1>5, <2>1, <2>2, ReconnectsOrEnds, Unmoved DEF Delaying!Running
<1> QED
  BY <1>3, <1>4, <1>5 DEF Before, Phases

LEMMA RetryStartKeeps ==
  ASSUME Before, Delaying!RetryStart
  PROVE  Phases'
<1>1. /\ DelayTypes' /\ delay \in DelayRec /\ output \in OutputRec /\ plugin \in PluginRec
  BY PluginTypes DEF Before, DelayTypes, QueueTypes, DelayIndeed, DelayNumbers
<1>2. /\ retry = "wait" /\ retry' = "off" /\ ~plugin.connecting /\ ~plugin.sending
      /\ UNCHANGED <<queue, output, encoder, ui, end, calls>>
      /\ delay' = [delay EXCEPT !.restart_refs = IF @ = 0 THEN 0 ELSE @ - 1]
  BY DEF Delaying!RetryStart, Delaying!ActualStart
<1>3. CASE Delaying!Resting
  <2>1. calls.forced /\ ui # "begin" /\ delay.restart_refs = 0
    BY <1>2, <1>3 DEF Delaying!Resting, Delaying!PluginIdle
  <2>2. delay' = delay
    BY <1>1, <1>2, <2>1 DEF DelayRec
  <2> QED
    BY <1>1, <1>2, <1>3, <2>1, <2>2, RestsOn DEF Phases, Before
<1>4. CASE Delaying!Finishing
  <2>1. calls.forced /\ ui # "begin"
    BY <1>2, <1>4 DEF Delaying!Finishing, Delaying!PluginIdle
  <2>2. delay'.active = delay.active /\ delay'.capturing = delay.capturing /\ delay'.ns = delay.ns
    BY <1>1, <1>2 DEF DelayRec
  <2>3. Delaying!Finishing'
    BY <1>2, <1>4, <2>1, <2>2, Unmoved DEF Delaying!Finishing
  <2> QED
    BY <2>3 DEF Phases
<1>5. CASE Delaying!Running
  <2>1. /\ ~Delaying!StartWaits /\ output.reconnecting /\ delay.restart_refs = 1 /\ delay.active
    BY <1>2, <1>5 DEF Delaying!Running, Delaying!PluginIdle
  <2>2. plugin' = [plugin EXCEPT !.connecting = TRUE]
    BY <2>1 DEF Delaying!RetryStart, Delaying!ActualStart, Delaying!InfoStart, Delaying!CanBegin
  <2>3. /\ delay'.active /\ delay'.capturing = delay.capturing /\ delay'.ns = delay.ns
        /\ delay'.restart_refs = 0 /\ plugin'.connecting /\ ~plugin'.sending
    BY <1>1, <1>2, <2>1, <2>2 DEF DelayRec, PluginRec
  <2>4. Delaying!Running'
    BY <1>2, <1>5, <2>1, <2>3, Unmoved DEF Delaying!Running
  <2> QED
    BY <2>4 DEF Phases
<1> QED
  BY <1>3, <1>4, <1>5 DEF Before, Phases

LEMMA RetryStoppedKeeps ==
  ASSUME Before, Delaying!RetryStopped
  PROVE  Phases'
<1>1. /\ DelayTypes /\ DelayTypes' /\ output \in OutputRec
  BY PluginTypes DEF Before, DelayTypes, DelayIndeed, DelayNumbers
<1>2. /\ retry = "wait" /\ retry' = "off"
      /\ UNCHANGED <<queue, delay, encoder, ui, plugin, end, calls>>
      /\ output'.active = output.active /\ output'.data_active = output.data_active
      /\ output'.hooked = output.hooked /\ ~output'.reconnecting
  BY <1>1 DEF Delaying!RetryStopped, OutputRec
<1>3. CASE Delaying!Resting
  <2>1. calls.forced /\ ui # "begin"
    BY <1>2, <1>3 DEF Delaying!Resting, Delaying!PluginIdle
  <2> QED
    BY <1>1, <1>2, <1>3, <2>1, RestsOn DEF Phases
<1>4. CASE Delaying!Finishing
  <2>1. calls.forced /\ ui # "begin"
    BY <1>2, <1>4 DEF Delaying!Finishing, Delaying!PluginIdle
  <2> QED
    BY <1>2, <1>4, <2>1, FinishesOn DEF Phases
<1>5. CASE Delaying!Running
  <2>1. /\ ~plugin.connecting /\ ~plugin.sending /\ delay.restart_refs = 1
    BY <1>2, <1>5 DEF Delaying!Running, Delaying!PluginIdle
  <2>2. Delaying!Running'
    BY <1>2, <1>5, <2>1, Unmoved DEF Delaying!Running, Delaying!PluginIdle
  <2> QED
    BY <2>2 DEF Phases
<1> QED
  BY <1>3, <1>4, <1>5 DEF Before, Phases

LEMMA EndEncodersKeeps ==
  ASSUME Before, Delaying!EndEncoders
  PROVE  Phases'
<1>1. Delaying!Finishing
  BY DEF Before, Phases, Delaying!Resting, Delaying!Running, Delaying!EndEncoders
<1>2. /\ end' = "cleanup" /\ UNCHANGED <<queue, delay, encoder, ui, plugin, retry, calls>>
      /\ output' = [output EXCEPT !.hooked = @ /\ delay.ns = 0] /\ Delaying!EncodersIdle
  BY DEF Delaying!EndEncoders, Delaying!EncodersIdle
<1>3. /\ output'.active = output.active /\ output'.data_active = output.data_active
      /\ output'.reconnecting = output.reconnecting /\ ~output'.hooked
  <2>1. output \in OutputRec /\ delay.ns # 0
    BY <1>1 DEF Before, DelayTypes, Delaying!Finishing
  <2> QED
    BY <1>2, <2>1 DEF OutputRec
<1>4. Delaying!Finishing'
  BY <1>1, <1>2, <1>3, Unmoved DEF Delaying!Finishing, Delaying!PluginIdle
<1> QED
  BY <1>4 DEF Phases

LEMMA EndCleanupKeeps ==
  ASSUME Before, Delaying!EndCleanup
  PROVE  Phases'
<1>1. Delaying!Finishing
  BY DEF Before, Phases, Delaying!Resting, Delaying!Running, Delaying!EndCleanup
<1>2. /\ end' = "off" /\ UNCHANGED <<encoder, ui, plugin, retry, calls>> /\ Delaying!Cleanup
      /\ output' = [output EXCEPT !.active = FALSE, !.stopping = FALSE]
  BY <1>1 DEF Delaying!EndCleanup, Delaying!Finishing
<1>3. /\ ~output'.active /\ ~output'.data_active /\ ~output'.hooked
      /\ output'.reconnecting = output.reconnecting
      /\ ~delay'.active /\ ~delay'.capturing /\ delay'.ns = 0 /\ delay'.restart_refs = 0
      /\ queue' = <<>>
  BY <1>1, <1>2 DEF Before, DelayTypes, OutputRec, DelayRec, Delaying!Finishing,
                    Delaying!Cleanup, Delaying!EndCleanup
<1>4. Delaying!EncodersIdle'
  BY <1>1, <1>2 DEF Delaying!Finishing, Delaying!EncodersIdle, Delaying!EndCleanup
<1>5. Delaying!OneStart'
  BY <1>3, <1>4 DEF Delaying!OneStart, Delaying!EncodersIdle, Delaying!Processing
<1>6. Delaying!Resting'
  BY <1>1, <1>2, <1>3, <1>4, <1>5 DEF Delaying!Resting, Delaying!Finishing, Delaying!PluginIdle
<1> QED
  BY <1>6 DEF Phases

\* What an encoder thread does next and what else joins the queue is no start.
LEMMA NoStartMore ==
  ASSUME encoder \in [Encoders -> EncoderStates], queue \in Seq(Delaying!Messages),
         NEW e \in Encoders, NEW x, encoder' = [encoder EXCEPT ![e] = x],
         x.at # "process",
         \/ queue' = queue
         \/ \E m \in Delaying!Messages : m.msg # "start" /\ queue' = Append(queue, m)
  PROVE  /\ Delaying!OneStart => Delaying!OneStart'
         /\ Delaying!StartWaits' => Delaying!StartWaits
         /\ Delaying!OneStart /\ Delaying!Processing(e, "start") => ~Delaying!StartWaits'
<1>1. /\ ~Delaying!Processing(e, "start")'
      /\ \A f \in Encoders \ {e} : Delaying!Processing(f, "start")' <=> Delaying!Processing(f, "start")
  BY DEF Delaying!Processing
<1>2. \A i \in DOMAIN queue' : queue'[i].msg = "start" => i \in DOMAIN queue /\ queue[i].msg = "start"
  BY SMTT(20)
<1>3. Delaying!OneStart => Delaying!OneStart'
  BY <1>1, <1>2 DEF Delaying!OneStart
<1>4. Delaying!StartWaits' => Delaying!StartWaits
  BY <1>1, <1>2 DEF Delaying!StartWaits
<1>5. Delaying!OneStart /\ Delaying!Processing(e, "start") => ~Delaying!StartWaits'
  BY <1>1, <1>2 DEF Delaying!StartWaits, Delaying!OneStart
<1> QED
  BY <1>3, <1>4, <1>5

\* A step of an encoder thread that only moves data leaves the phase alone.
LEMMA EncodersGoOn ==
  ASSUME Delaying!Running \/ (Delaying!Finishing /\ end = "encoders"),
         Delaying!OneStart => Delaying!OneStart',
         Delaying!StartWaits' => Delaying!StartWaits,
         delay'.active = delay.active, delay'.capturing = delay.capturing,
         delay'.restart_refs = delay.restart_refs, delay'.ns # 0,
         output'.active = output.active, output'.data_active = output.data_active,
         output'.hooked = output.hooked, output'.reconnecting = output.reconnecting,
         ui' \in {ui, "idle"}, ui' = ui \/ ui = "delay_stop", UNCHANGED <<plugin, retry, end>>,
         calls'.forced = calls.forced
  PROVE  Phases'
<1>1. CASE Delaying!Running
  <2>1. Delaying!Running'
    BY <1>1 DEF Delaying!Running, Delaying!PluginIdle
  <2> QED
    BY <2>1 DEF Phases
<1>2. CASE Delaying!Finishing /\ end = "encoders"
  <2>1. Delaying!Finishing'
    BY <1>2 DEF Delaying!Finishing, Delaying!PluginIdle
  <2> QED
    BY <2>1 DEF Phases
<1> QED
  BY <1>1, <1>2

\* While encoder threads run, the capture does, or waits for them to end.
LEMMA EncodersRun ==
  ASSUME Before, NEW e \in Encoders, encoder[e].at # "idle"
  PROVE  Delaying!Running \/ (Delaying!Finishing /\ end = "encoders")
BY DEF Before, Phases, Delaying!Resting, Delaying!Finishing, Delaying!EncodersIdle

LEMMA ProcessDelayKeeps ==
  ASSUME Before, NEW e \in Encoders, Delaying!ProcessDelay(e)
  PROVE  Phases'
<1>1. Delaying!Running \/ (Delaying!Finishing /\ end = "encoders")
  BY DEF Before, Phases, Delaying!Resting, Delaying!Finishing, Delaying!ProcessDelay
<1>2. PICK m \in Delaying!Messages : m.msg # "start" /\ queue' = Append(queue, m)
  BY DEF Delaying!ProcessDelay, Delaying!Message, Delaying!Messages, Before, QueueTypes
<1>3. /\ Delaying!OneStart => Delaying!OneStart'
      /\ Delaying!StartWaits' => Delaying!StartWaits
  <2>1. PICK x : x = [at |-> "pop", t |-> now]
    OBVIOUS
  <2>2. encoder' = [encoder EXCEPT ![e] = x] /\ x.at # "process"
    BY <2>1 DEF Delaying!ProcessDelay
  <2> QED
    BY <1>2, <2>2, NoStartMore DEF Before, QueueTypes
<1>4. delay.ns # 0
  BY <1>1 DEF Delaying!Running, Delaying!Finishing
<1> QED
  BY <1>1, <1>3, <1>4, EncodersGoOn DEF Delaying!ProcessDelay

LEMMA PopPacketKeeps ==
  ASSUME Before, NEW e \in Encoders, Delaying!PopPacket(e), Delaying!Clean'
  PROVE  Phases'
<1>0. /\ encoder \in [Encoders -> EncoderStates] /\ queue \in Seq(Delaying!Messages)
      /\ delay \in DelayRec /\ calls \in CallsRec
  BY DEF Before, QueueTypes, DelayTypes
<1>1. encoder[e].at = "pop" /\ UNCHANGED <<output, ui, plugin, retry, end>>
  BY DEF Delaying!PopPacket
<1>2. Delaying!Running \/ (Delaying!Finishing /\ end = "encoders")
  BY <1>1, EncodersRun
<1>3. delay.ns # 0
  BY <1>2 DEF Delaying!Running, Delaying!Finishing
<1>4. PICK done, gone : /\ done = [encoder EXCEPT ![e] = [at |-> "idle"]]
                        /\ gone = (encoder[e].t - Head(queue).ts) % 1000
  BY ZenonT(30)
<1>5. PICK idle : idle = [at |-> "idle"]
  OBVIOUS
<1>6. done = [encoder EXCEPT ![e] = idle] /\ idle.at # "process"
  BY <1>4, <1>5
<1>7. CASE encoder' = done /\ UNCHANGED <<queue, delay, calls>>
  <2>1. /\ Delaying!OneStart => Delaying!OneStart'
        /\ Delaying!StartWaits' => Delaying!StartWaits
    BY <1>0, <1>6, <1>7, NoStartMore
  <2> QED
    BY <1>1, <1>2, <1>3, <1>7, <2>1, EncodersGoOn
<1>8. CASE /\ queue # <<>> /\ encoder' = done /\ UNCHANGED queue
           /\ delay' = [delay EXCEPT !.ns = gone]
           /\ calls' = [calls EXCEPT !.short = @ \/ gone = 0]
  <2>1. /\ Delaying!OneStart => Delaying!OneStart'
        /\ Delaying!StartWaits' => Delaying!StartWaits
    BY <1>0, <1>6, <1>8, NoStartMore
  <2>2. gone # 0 /\ calls'.forced = calls.forced
    BY <1>0, <1>8 DEF Delaying!Clean, CallsRec
  <2>3. /\ delay'.active = delay.active /\ delay'.capturing = delay.capturing
        /\ delay'.restart_refs = delay.restart_refs /\ delay'.ns = gone
    BY <1>0, <1>8 DEF DelayRec
  <2> QED
    BY <1>1, <1>2, <2>1, <2>2, <2>3, EncodersGoOn
<1>9. CASE /\ queue # <<>> /\ queue' = Tail(queue)
           /\ encoder' = [encoder EXCEPT
                ![e] = [at |-> "process", t |-> encoder[e].t, dd |-> Head(queue)]]
           /\ UNCHANGED <<delay, calls>>
  <2>1. \A i \in DOMAIN queue' : i + 1 \in DOMAIN queue /\ queue'[i] = queue[i + 1] /\ i + 1 # 1
    BY <1>0, <1>9
  <2>2. /\ \A f \in Encoders \ {e} : Delaying!Processing(f, "start")' <=> Delaying!Processing(f, "start")
        /\ Delaying!Processing(e, "start")' => 1 \in DOMAIN queue /\ queue[1].msg = "start"
    BY <1>0, <1>9 DEF Delaying!Processing
  <2>3. Delaying!OneStart => Delaying!OneStart'
    BY <2>1, <2>2 DEF Delaying!OneStart
  <2>4. Delaying!StartWaits' => Delaying!StartWaits
    BY <2>1, <2>2 DEF Delaying!StartWaits
  <2> QED
    BY <1>1, <1>2, <1>3, <1>9, <2>3, <2>4, EncodersGoOn
<1> QED
  BY <1>4, <1>7, <1>8, <1>9 DEF Delaying!PopPacket, Delaying!Wrap

LEMMA ProcessedMoves ==
  ASSUME Before, NEW e \in Encoders, Delaying!Processed(e), UNCHANGED queue
  PROVE  /\ Delaying!OneStart => Delaying!OneStart'
         /\ Delaying!StartWaits' => Delaying!StartWaits
         /\ Delaying!OneStart /\ Delaying!Processing(e, "start") => ~Delaying!StartWaits'
<1>1. PICK x : x = [at |-> "pop", t |-> encoder[e].t]
  OBVIOUS
<1>2. encoder' = [encoder EXCEPT ![e] = x] /\ x.at # "process"
  BY <1>1 DEF Delaying!Processed
<1> QED
  BY <1>2, NoStartMore DEF Before, QueueTypes

LEMMA ProcessPacketKeeps ==
  ASSUME Before, NEW e \in Encoders, Delaying!ProcessPacket(e)
  PROVE  Phases'
<1>1. Delaying!Running \/ (Delaying!Finishing /\ end = "encoders")
  BY EncodersRun DEF Delaying!ProcessPacket, Delaying!Processing
<1>2. delay.ns # 0
  BY <1>1 DEF Delaying!Running, Delaying!Finishing
<1> QED
  BY <1>1, <1>2, ProcessedMoves, EncodersGoOn DEF Delaying!ProcessPacket

LEMMA ProcessStartKeeps ==
  ASSUME Before, NEW e \in Encoders, Delaying!ProcessStart(e)
  PROVE  Phases'
<1>1. /\ delay \in DelayRec /\ plugin \in PluginRec /\ Delaying!Processing(e, "start")
      /\ UNCHANGED <<queue, output, ui, retry, end, calls>> /\ Delaying!Processed(e)
      /\ ~delay.active => end = "off"
      /\ delay' = [delay EXCEPT !.restart_refs = IF @ = 0 THEN 0 ELSE @ - 1]
  BY DEF Before, DelayTypes, QueueTypes, Delaying!ProcessStart, Delaying!ActualStart
<1>2. Delaying!Running
  BY <1>1, EncodersRun DEF Delaying!Finishing, Delaying!Processing
<1>3. Delaying!StartWaits
  BY <1>1 DEF Delaying!StartWaits
<1>4. Delaying!PluginIdle /\ ~output.reconnecting /\ delay.restart_refs = 1 /\ delay.active
  BY <1>2, <1>3 DEF Delaying!Running
<1>5. plugin' = [plugin EXCEPT !.connecting = TRUE]
  BY <1>4 DEF Delaying!ProcessStart, Delaying!ActualStart, Delaying!InfoStart, Delaying!CanBegin
<1>6. /\ delay'.active /\ delay'.capturing = delay.capturing /\ delay'.ns = delay.ns
      /\ delay'.restart_refs = 0 /\ plugin'.connecting /\ plugin'.sending = plugin.sending
  BY <1>1, <1>4, <1>5 DEF DelayRec, PluginRec
<1>7. Delaying!OneStart' /\ ~Delaying!StartWaits'
  BY <1>1, <1>2, ProcessedMoves DEF Delaying!Running
<1>8. Delaying!Running'
  BY <1>1, <1>2, <1>4, <1>6, <1>7 DEF Delaying!Running, Delaying!PluginIdle
<1> QED
  BY <1>8 DEF Phases

LEMMA ProcessStopKeeps ==
  ASSUME Before, NEW e \in Encoders, Delaying!ProcessStop(e)
  PROVE  Phases'
<1>1. /\ output \in OutputRec /\ Delaying!Processing(e, "stop")
      /\ UNCHANGED <<queue, delay, ui, plugin, retry, end, calls>>
  BY DEF Before, DelayTypes, Delaying!ProcessStop
<1>2. Delaying!Running \/ (Delaying!Finishing /\ end = "encoders")
  BY <1>1, EncodersRun DEF Delaying!Processing
<1>3. delay.ns # 0
  BY <1>2 DEF Delaying!Running, Delaying!Finishing
<1>4. CASE Delaying!Processed(e) /\ UNCHANGED output
  BY <1>1, <1>2, <1>3, <1>4, ProcessedMoves, EncodersGoOn
<1>5. CASE /\ output' = [output EXCEPT !.stopping = TRUE,
                           !.reconnect_stop = @ \/ output.reconnecting]
           /\ encoder' = [encoder EXCEPT ![e] = [at |-> "stop", t |-> encoder[e].t]]
  <2>1. PICK x : x = [at |-> "stop", t |-> encoder[e].t]
    OBVIOUS
  <2>2. encoder' = [encoder EXCEPT ![e] = x] /\ x.at # "process"
    BY <1>5, <2>1
  <2>3. /\ Delaying!OneStart => Delaying!OneStart'
        /\ Delaying!StartWaits' => Delaying!StartWaits
    BY <1>1, <2>2, NoStartMore DEF Before, QueueTypes
  <2>4. /\ output'.active = output.active /\ output'.data_active = output.data_active
        /\ output'.hooked = output.hooked /\ output'.reconnecting = output.reconnecting
    BY <1>1, <1>5 DEF OutputRec
  <2> QED
    BY <1>1, <1>2, <1>3, <2>3, <2>4, EncodersGoOn
<1> QED
  BY <1>4, <1>5 DEF Delaying!ProcessStop

LEMMA StopPluginKeeps ==
  ASSUME Before, NEW e \in Encoders, Delaying!StopPlugin(e)
  PROVE  Phases'
<1>1. /\ DelayTypes /\ DelayTypes' /\ delay \in DelayRec /\ output \in OutputRec
      /\ plugin \in PluginRec /\ RetryMax \in Nat
  BY EncoderTypes DEF Before, DelayTypes, QueueTypes, DelayIndeed, DelayNumbers
<1>2. /\ encoder[e].at = "stop" /\ retry = "off" /\ ~plugin.connecting
      /\ Delaying!Processed(e) /\ Delaying!InfoStop("ts") /\ UNCHANGED <<queue, ui, calls>>
  BY DEF Delaying!StopPlugin
<1>3. Delaying!Running \/ (Delaying!Finishing /\ end = "encoders")
  BY <1>2, EncodersRun
<1>4. delay.ns # 0
  BY <1>3 DEF Delaying!Running, Delaying!Finishing
<1>5. /\ Delaying!OneStart => Delaying!OneStart'
      /\ Delaying!StartWaits' => Delaying!StartWaits
  BY <1>2, ProcessedMoves
<1>6. CASE UNCHANGED <<delay, output, plugin, retry, end>>
  BY <1>2, <1>3, <1>4, <1>5, <1>6, EncodersGoOn
<1>7. CASE plugin.sending /\ plugin' = [plugin EXCEPT !.stop = "ts"]
           /\ UNCHANGED <<delay, output, retry, end>>
  <2>1. plugin'.connecting = plugin.connecting /\ plugin'.sending = plugin.sending
    BY <1>1, <1>7 DEF PluginRec
  <2>2. CASE Delaying!Running
    <3>1. Delaying!Running'
      BY <1>2, <1>5, <1>7, <2>1, <2>2 DEF Delaying!Running, Delaying!PluginIdle
    <3> QED
      BY <3>1 DEF Phases
  <2>3. CASE Delaying!Finishing /\ end = "encoders"
    <3>1. Delaying!Finishing'
      BY <1>2, <1>7, <2>1, <2>3 DEF Delaying!Finishing, Delaying!PluginIdle
    <3> QED
      BY <3>1 DEF Phases
  <2> QED
    BY <1>3, <2>2, <2>3
<1>8. CASE ~plugin.sending /\ Delaying!SignalStop("success") /\ UNCHANGED plugin
  <2>1. ~Loses("success")
    BY DEF Loses
  <2>2. CASE Delaying!Running
    <3>1. ~delay.capturing /\ ~output.reconnecting
      BY <1>2, <1>8, <2>2 DEF Delaying!Running, Delaying!PluginIdle
    <3> QED
      BY <1>1, <1>2, <1>8, <2>1, <2>2, <3>1, ReconnectsOrEnds
  <2>3. CASE Delaying!Finishing /\ end = "encoders"
    <3>1. ~(output.active /\ output.data_active) /\ ~delay.active
      BY <2>3 DEF Delaying!Finishing
    <3>2. /\ UNCHANGED <<delay, end, retry>> /\ output'.active = output.active
          /\ output'.data_active = output.data_active /\ output'.hooked = output.hooked
          /\ output'.reconnecting = output.reconnecting
      BY <1>1, <1>8, <2>1, <3>1, SignalStopIdle
    <3> QED
      BY <1>2, <1>4, <1>5, <1>8, <2>3, <3>2, EncodersGoOn
  <2> QED
    BY <1>3, <2>2, <2>3
<1> QED
  BY <1>2, <1>6, <1>7, <1>8 DEF Delaying!InfoStop

LEMMA DelayStartKeeps ==
  ASSUME Before, Delaying!DelayStart, Delaying!Clean'
  PROVE  Phases'
<1>1. /\ delay \in DelayRec /\ calls \in CallsRec
      /\ ~output.active /\ ~output.reconnecting /\ ui = "idle" /\ ui' = "begin"
      /\ queue' = Append(queue, Delaying!Message("start"))
      /\ delay' = [delay EXCEPT !.restart_refs = @ + 1]
      /\ UNCHANGED <<output, encoder, plugin, retry, end>>
  BY DEF Before, DelayTypes, QueueTypes, DelayIndeed, Delaying!DelayStart,
         Delaying!obs_output_active
<1>2. Delaying!Resting /\ delay.restart_refs = 0 /\ queue = <<>>
  BY <1>1 DEF Before, Phases, Delaying!Resting, Delaying!Running, Delaying!Finishing
<1>3. ~calls'.forced /\ ~(calls.forced /\ ~Delaying!PluginIdle)
  BY <1>1 DEF Delaying!DelayStart, Delaying!Clean, CallsRec
<1>4. Delaying!PluginIdle
  BY <1>2, <1>3 DEF Delaying!Resting
<1>5. /\ delay'.active = delay.active /\ delay'.capturing = delay.capturing
      /\ delay'.ns = delay.ns /\ delay'.restart_refs = 1
  BY <1>1, <1>2 DEF DelayRec
<1>6. Delaying!OneStart' /\ Delaying!EncodersIdle'
  <2>1. \A i \in DOMAIN queue' : i = 1
    BY <1>1, <1>2
  <2>2. \A f \in Encoders : ~Delaying!Processing(f, "start")'
    BY <1>1, <1>2 DEF Delaying!Resting, Delaying!EncodersIdle, Delaying!Processing
  <2> QED
    BY <1>1, <1>2, <2>1, <2>2 DEF Delaying!Resting, Delaying!OneStart, Delaying!EncodersIdle
<1>7. Delaying!Resting'
  BY <1>1, <1>2, <1>3, <1>4, <1>5, <1>6 DEF Delaying!Resting, Delaying!PluginIdle
<1> QED
  BY <1>7 DEF Phases

LEMMA DelayBeginKeeps ==
  ASSUME Before, Delaying!DelayBegin
  PROVE  Phases'
<1>1. /\ delay \in DelayRec /\ output \in OutputRec /\ Delay \in Nat \ {0}
      /\ ui = "begin" /\ ui' = "idle" /\ UNCHANGED <<encoder, plugin, retry, end, calls>>
  BY DEF Before, DelayTypes, DelayIndeed, Delaying!DelayBegin
<1>2. Delaying!Resting
  BY <1>1 DEF Before, Phases, Delaying!Running, Delaying!Finishing
<1>3. /\ UNCHANGED queue /\ delay' = [delay EXCEPT !.active = TRUE, !.ns = Delay]
      /\ output' = [output EXCEPT !.active = TRUE, !.data_active = TRUE,
                                  !.hooked = TRUE, !.reconnecting = FALSE]
  BY <1>2 DEF Delaying!Resting, Delaying!DelayBegin, Delaying!BeginCapture
<1>4. /\ delay'.active /\ delay'.capturing = delay.capturing /\ delay'.ns # 0
      /\ delay'.restart_refs = delay.restart_refs
      /\ output'.active /\ output'.data_active /\ output'.hooked /\ ~output'.reconnecting
  BY <1>1, <1>3 DEF DelayRec, OutputRec
<1>5. Delaying!Running'
  BY <1>1, <1>2, <1>3, <1>4, Unmoved DEF Delaying!Running, Delaying!Resting, Delaying!PluginIdle
<1> QED
  BY <1>5 DEF Phases

LEMMA OutputStopKeeps ==
  ASSUME Before, Delaying!OutputStop
  PROVE  Phases'
<1>1. /\ output.active /\ ui = "idle" /\ ui' = "delay_stop" /\ calls'.forced = calls.forced
      /\ UNCHANGED <<queue, delay, output, encoder, plugin, retry, end>>
  BY DEF Before, QueueTypes, CallsRec, Delaying!OutputStop
<1>2. CASE Delaying!Running
  <2>1. Delaying!Running'
    BY <1>1, <1>2, Unmoved DEF Delaying!Running, Delaying!PluginIdle
  <2> QED
    BY <2>1 DEF Phases
<1>3. CASE Delaying!Finishing
  <2>1. Delaying!Finishing'
    BY <1>1, <1>3, Unmoved DEF Delaying!Finishing, Delaying!PluginIdle
  <2> QED
    BY <2>1 DEF Phases
<1> QED
  BY <1>1, <1>2, <1>3 DEF Before, Phases, Delaying!Resting

LEMMA DelayStopKeeps ==
  ASSUME Before, Delaying!DelayStop, Delaying!Clean'
  PROVE  Phases'
<1>1. /\ ui = "delay_stop" /\ ui' = "idle" /\ calls'.forced = calls.forced /\ delay.ns # 0
      /\ UNCHANGED <<delay, output, encoder, plugin, retry, end>>
  BY DEF Before, QueueTypes, CallsRec, Delaying!DelayStop, Delaying!Clean
<1>2. PICK m \in Delaying!Messages : m.msg # "start" /\ queue' = Append(queue, m)
  BY DEF Delaying!DelayStop, Delaying!Message, Delaying!Messages, Before, QueueTypes
<1>3. CASE Delaying!Running
  <2>1. \A i \in DOMAIN queue' : queue'[i].msg = "start" => i \in DOMAIN queue /\ queue[i].msg = "start"
    BY <1>2 DEF Before, QueueTypes
  <2>2. \A f \in Encoders : Delaying!Processing(f, "start")' <=> Delaying!Processing(f, "start")
    BY <1>1 DEF Delaying!Processing
  <2>3. Delaying!OneStart' /\ (Delaying!StartWaits' => Delaying!StartWaits)
    BY <1>3, <2>1, <2>2 DEF Delaying!Running, Delaying!OneStart, Delaying!StartWaits
  <2>4. Delaying!Running'
    BY <1>1, <1>3, <2>3 DEF Delaying!Running, Delaying!PluginIdle
  <2> QED
    BY <2>4 DEF Phases
<1>4. CASE Delaying!Finishing
  <2>1. Delaying!Finishing'
    BY <1>1, <1>4 DEF Delaying!Finishing, Delaying!PluginIdle, Delaying!EncodersIdle
  <2> QED
    BY <2>1 DEF Phases
<1> QED
  BY <1>1, <1>3, <1>4 DEF Before, Phases, Delaying!Resting

LEMMA ForceStopKeeps ==
  ASSUME Before, Delaying!ForceStop
  PROVE  Phases'
<1>1. /\ ui = "idle" /\ ui' = "force" /\ calls'.forced
      /\ UNCHANGED <<queue, delay, encoder, plugin, retry, end>>
      /\ output'.active = output.active /\ output'.data_active = output.data_active
      /\ output'.hooked = output.hooked /\ output'.reconnecting = output.reconnecting
  BY DEF Before, DelayTypes, QueueTypes, CallsRec, OutputRec, Delaying!ForceStop
<1>2. CASE Delaying!Resting
  <2>1. Delaying!Resting'
    BY <1>1, <1>2, Unmoved DEF Delaying!Resting
  <2> QED
    BY <2>1 DEF Phases
<1>3. CASE Delaying!Running
  <2>1. Delaying!Running'
    BY <1>1, <1>3, Unmoved DEF Delaying!Running, Delaying!PluginIdle
  <2> QED
    BY <2>1 DEF Phases
<1>4. CASE Delaying!Finishing
  <2>1. Delaying!Finishing'
    BY <1>1, <1>4, Unmoved DEF Delaying!Finishing
  <2> QED
    BY <2>1 DEF Phases
<1> QED
  BY <1>2, <1>3, <1>4 DEF Before, Phases

LEMMA ForceEndKeeps ==
  ASSUME Before, Delaying!ForceEnd
  PROVE  Phases'
<1>1. /\ delay \in DelayRec /\ output \in OutputRec /\ ui = "force" /\ calls.forced
      /\ ui' # "begin" /\ UNCHANGED <<queue, encoder, plugin, retry, calls>>
      /\ DelayTypes /\ DelayTypes'
  BY UserTypes DEF Before, DelayTypes, DelayIndeed, DelayNumbers, Delaying!Forcing,
                   Delaying!ForceEnd
<1>2. ~delay.active => UNCHANGED <<delay, output, end>>
  BY DEF Delaying!ForceEnd
<1>3. CASE Delaying!Resting
  BY <1>1, <1>2, <1>3, RestsOn DEF Phases, Delaying!Resting
<1>4. CASE Delaying!Finishing
  BY <1>1, <1>2, <1>4, FinishesOn DEF Phases, Delaying!Finishing
<1>5. CASE Delaying!Running
  <2>1. output.active /\ output.data_active /\ delay.active /\ delay.ns # 0
    BY <1>5 DEF Delaying!Running
  <2>2. PICK d : d = [delay EXCEPT !.active = FALSE, !.capturing = FALSE]
    OBVIOUS
  <2>3. d \in DelayRec /\ ~d.active /\ ~d.capturing /\ d.ns = delay.ns
    BY <1>1, <2>2 DEF DelayRec
  <2>4. PICK r : r = Delaying!EndAndSignal(d, output)
    OBVIOUS
  <2>5. r = [d |-> d, o |-> [output EXCEPT !.data_active = FALSE], ends |-> TRUE]
    BY <2>1, <2>3, <2>4 DEF Delaying!EndAndSignal, Delaying!EndCapture, Delaying!KeepsDelay
  <2>6. Delaying!Ended([d |-> r.d, o |-> [r.o EXCEPT !.stopping = FALSE], ends |-> r.ends])
    BY <2>1, <2>2, <2>4 DEF Delaying!ForceEnd
  <2>7. delay' = d /\ output' = [r.o EXCEPT !.stopping = FALSE] /\ end' = "encoders"
    BY <2>5, <2>6 DEF Delaying!Ended
  <2>8. output'.active /\ ~output'.data_active
    <3>1. r.o \in OutputRec /\ r.o.active /\ ~r.o.data_active
      BY <1>1, <2>1, <2>5 DEF OutputRec
    <3> QED
      BY <2>7, <3>1 DEF OutputRec
  <2>9. Delaying!Finishing'
    BY <1>1, <2>1, <2>3, <2>7, <2>8 DEF Delaying!Finishing
  <2> QED
    BY <2>9 DEF Phases
<1> QED
  BY <1>3, <1>4, <1>5 DEF Before, Phases

LEMMA ForcePluginKeeps ==
  ASSUME Before, Delaying!ForcePlugin
  PROVE  Phases'
<1>1. /\ delay \in DelayRec /\ output \in OutputRec /\ RetryMax \in Nat
      /\ ui = "force_stop" /\ ui' = "idle" /\ calls.forced
      /\ UNCHANGED <<queue, encoder, calls>> /\ Delaying!InfoStop("force")
      /\ DelayTypes /\ DelayTypes'
  BY UserTypes DEF Before, DelayTypes, DelayIndeed, DelayNumbers, Delaying!Forcing,
                   Delaying!ForcePlugin
<1>2. Delaying!Resting \/ Delaying!Finishing
  BY <1>1 DEF Before, Phases, Delaying!Running
<1>3. ~(output.active /\ output.data_active) /\ ~delay.active
  BY <1>2 DEF Delaying!Resting, Delaying!Finishing
<1>4. /\ UNCHANGED <<delay, end>> /\ output'.active = output.active
      /\ output'.data_active = output.data_active /\ output'.hooked = output.hooked
  <2>1. CASE UNCHANGED <<delay, output, retry, end>>
    BY <2>1
  <2>2. CASE Delaying!SignalStop("success")
    BY <1>1, <1>3, <2>2, SignalStopIdle
  <2> QED
    BY <1>1, <2>1, <2>2 DEF Delaying!InfoStop
<1> QED
  BY <1>1, <1>2, <1>4, RestsOn, FinishesOn DEF Phases

\* Each action of the machine, by the lemma about it.
LEMMA PhasesKept ==
  ASSUME Before, Delaying!Next, Delaying!Clean'
  PROVE  Phases'
<1>1. CASE \E e \in Encoders :
             \/ Delaying!ProcessDelay(e) \/ Delaying!PopPacket(e) \/ Delaying!ProcessPacket(e)
             \/ Delaying!ProcessStart(e) \/ Delaying!ProcessStop(e) \/ Delaying!StopPlugin(e)
  BY <1>1, ProcessDelayKeeps, PopPacketKeeps, ProcessPacketKeeps, ProcessStartKeeps,
     ProcessStopKeeps, StopPluginKeeps
<1>2. CASE \/ Delaying!Connected \/ Delaying!ConnectFails
           \/ Delaying!SendStops \/ Delaying!SendFails
           \/ Delaying!RetryStart \/ Delaying!RetryStopped
           \/ Delaying!EndEncoders \/ Delaying!EndCleanup
  BY <1>2, ConnectedKeeps, ConnectFailsKeeps, SendStopsKeeps, SendFailsKeeps,
     RetryStartKeeps, RetryStoppedKeeps, EndEncodersKeeps, EndCleanupKeeps
<1>3. CASE \/ Delaying!DelayStart \/ Delaying!DelayBegin \/ Delaying!OutputStop
           \/ Delaying!DelayStop \/ Delaying!ForceStop \/ Delaying!ForceEnd
           \/ Delaying!ForcePlugin
  BY <1>3, DelayStartKeeps, DelayBeginKeeps, OutputStopKeeps, DelayStopKeeps,
     ForceStopKeeps, ForceEndKeeps, ForcePluginKeeps
<1> QED
  BY <1>1, <1>2, <1>3 DEF Delaying!Next

LEMMA DelayTypesKept ==
  ASSUME DelayTypes, QueueTypes, DelayNumbers, Delaying!Next
  PROVE  DelayTypes' /\ QueueTypes'
BY PluginTypes, EncoderTypes, UserTypes DEF Delaying!Next

\* Anomalies are remembered, and a stop that is being forced was asked for.
LEMMA HistoryKept ==
  ASSUME calls \in CallsRec, Delaying!Forcing, Delaying!Next
  PROVE  Delaying!Forcing' /\ (Delaying!Clean' => Delaying!Clean)
<1>1. CASE \E e \in Encoders :
             \/ Delaying!ProcessDelay(e) \/ Delaying!PopPacket(e) \/ Delaying!ProcessPacket(e)
             \/ Delaying!ProcessStart(e) \/ Delaying!ProcessStop(e) \/ Delaying!StopPlugin(e)
  <2>1. PICK e \in Encoders :
          \/ Delaying!ProcessDelay(e) \/ Delaying!PopPacket(e) \/ Delaying!ProcessPacket(e)
          \/ Delaying!ProcessStart(e) \/ Delaying!ProcessStop(e) \/ Delaying!StopPlugin(e)
    BY <1>1
  <2>2. ui' = ui /\ (calls' = calls \/ \E b \in {TRUE, FALSE} : calls' = [calls EXCEPT !.short = @ \/ b])
    BY <2>1 DEF Delaying!ProcessDelay, Delaying!PopPacket, Delaying!ProcessPacket,
                Delaying!ProcessStart, Delaying!ProcessStop, Delaying!StopPlugin
  <2> QED
    BY <2>2 DEF Delaying!Forcing, Delaying!Clean, CallsRec
<1>2. CASE \/ Delaying!Connected \/ Delaying!ConnectFails
           \/ Delaying!SendStops \/ Delaying!SendFails
           \/ Delaying!RetryStart \/ Delaying!RetryStopped
           \/ Delaying!EndEncoders \/ Delaying!EndCleanup
  <2>1. ui' = ui /\ (calls' = calls \/ calls' = [calls EXCEPT !.orphan = @ \/ calls.forced])
    BY <1>2 DEF Delaying!Connected, Delaying!ConnectFails, Delaying!SendStops,
                Delaying!SendFails, Delaying!RetryStart, Delaying!RetryStopped,
                Delaying!EndEncoders, Delaying!EndCleanup
  <2> QED
    BY <2>1 DEF Delaying!Forcing, Delaying!Clean, CallsRec
<1>3. CASE Delaying!DelayStart
  BY <1>3 DEF Delaying!DelayStart, Delaying!Forcing, Delaying!Clean, CallsRec
<1>4. CASE Delaying!DelayStop
  BY <1>4 DEF Delaying!DelayStop, Delaying!Forcing, Delaying!Clean, CallsRec
<1>5. CASE Delaying!ForceStop
  BY <1>5 DEF Delaying!ForceStop, Delaying!Forcing, Delaying!Clean, CallsRec
<1>6. CASE Delaying!OutputStop
  BY <1>6 DEF Delaying!OutputStop, Delaying!Forcing, Delaying!Clean, CallsRec
<1>7. CASE Delaying!DelayBegin \/ Delaying!ForceEnd \/ Delaying!ForcePlugin
  BY <1>7 DEF Delaying!DelayBegin, Delaying!ForceEnd, Delaying!ForcePlugin,
              Delaying!Forcing, Delaying!Clean
<1> QED
  BY <1>1, <1>2, <1>3, <1>4, <1>5, <1>6, <1>7 DEF Delaying!Next

LEMMA DelayInit ==
  ASSUME Delaying!Init
  PROVE  Delaying!IInv
<1>1. encoder \in [Encoders -> EncoderStates] /\ Delaying!EncodersIdle
  BY DEF Delaying!Init, EncoderStates, Delaying!EncodersIdle
<1>2. DelayTypes
  BY DEF Delaying!Init, Delaying!Inactive, DelayTypes, DelayRec, OutputRec
<1>3. QueueTypes
  BY <1>1 DEF Delaying!Init, QueueTypes, PluginRec, CallsRec
<1>4. Delaying!OneStart
  BY <1>1 DEF Delaying!Init, Delaying!OneStart, Delaying!EncodersIdle, Delaying!Processing
<1>5. Delaying!Resting
  BY <1>1, <1>4 DEF Delaying!Init, Delaying!Inactive, Delaying!Resting, Delaying!PluginIdle
<1> QED
  BY <1>2, <1>3, <1>5, DelayTypeParts DEF Delaying!IInv, Delaying!Forcing, Delaying!Init

LEMMA DelayStep ==
  ASSUME DelayIndeed, Delaying!IInv, [Delaying!Next]_delayVars
  PROVE  Delaying!IInv'
<1>1. DelayTypes /\ QueueTypes /\ Delaying!Forcing /\ DelayNumbers /\ calls \in CallsRec
  BY DelayTypeParts DEF Delaying!IInv, DelayNumbers, DelayIndeed, QueueTypes
<1>2. CASE Delaying!Next
  <2>1. DelayTypes' /\ QueueTypes'
    BY <1>1, <1>2, DelayTypesKept
  <2>2. Delaying!TypeOK'
    BY <2>1 DEF Delaying!TypeOK, DelayTypes, QueueTypes, DelayRec, OutputRec, PluginRec,
                CallsRec, EncoderStates
  <2>3. Delaying!Forcing' /\ (Delaying!Clean' => Delaying!Clean)
    BY <1>1, <1>2, HistoryKept
  <2>4. Delaying!Clean' => Phases'
    BY <1>1, <1>2, <2>3, PhasesKept DEF Before, Phases, Delaying!IInv
  <2> QED
    BY <2>2, <2>3, <2>4 DEF Delaying!IInv, Phases
<1>3. CASE UNCHANGED delayVars
  BY <1>3 DEF delayVars, Delaying!IInv, Delaying!TypeOK, Delaying!Forcing, Delaying!Clean,
              Delaying!Resting, Delaying!Running, Delaying!Finishing, Delaying!OneStart,
              Delaying!StartWaits, Delaying!EncodersIdle, Delaying!Processing,
              Delaying!PluginIdle
<1> QED
  BY <1>2, <1>3

\* An output with a delay rests, runs or finishes, as long as no anomaly happened,
\* for any delay and any number of encoder threads, tries, starts and stops.  An
\* output that never reconnects is left out (a loss then ends the capture without
\* the delay being told), and so is a start while the output is active.
THEOREM DelayInvariant ==
  ASSUME Delay \in Nat \ {0}, RetryMax \in Nat \ {0}, Restart = FALSE
  PROVE  Spec => []Delaying!IInv
<1>1. Init => Delaying!IInv
  BY DelayInit DEF Init
<1>2. Delaying!IInv /\ [Next]_vars => Delaying!IInv'
  <2>1. [Next]_vars => [Delaying!Next]_delayVars
    BY DEF Next, Objects, Raw, Encoded, vars, packetVars, delayVars
  <2> QED
    BY <2>1, DelayStep DEF DelayIndeed
<1>3. QED
  BY <1>1, <1>2, PTL DEF Spec

\* See Parts: what ends leaves nothing behind that the next start would find.
THEOREM EndIsCleanHolds ==
  ASSUME Delay \in Nat \ {0}, RetryMax \in Nat \ {0}, Restart = FALSE
  PROVE  Spec => []EndIsClean
<1>1. Delaying!IInv => EndIsClean
  <2>1. SUFFICES ASSUME Delaying!IInv, Delaying!AtRest, Delaying!Clean
                 PROVE  queue = <<>> /\ delay = Delaying!Inactive
    BY DEF EndIsClean, Delaying!EndIsClean
  <2>2. Delaying!Resting /\ ui = "idle" /\ delay \in DelayRec
    BY <2>1, DelayTypeParts DEF Delaying!IInv, Delaying!AtRest, Delaying!obs_output_active,
                                Delaying!Running, Delaying!Finishing, DelayTypes
  <2> QED
    BY <2>2 DEF Delaying!Resting, Delaying!Inactive, DelayRec
<1>2. QED
  BY <1>1, DelayInvariant, PTL

----------------------------------------------------------------------------
(* The queue of a stream.                                                  *)

LEMMA CountOfSending == \A S : Sending!Cardinality(S) = Cardinality(S)
  BY DEF Cardinality, Sending!Cardinality

\* The numbers of a finite set, from the least to the greatest.
LEMMA Nths ==
  ASSUME NEW m \in Nat, NEW s \in SUBSET (1..m)
  PROVE  LET n == Sending!Cardinality(s)
         IN  /\ n \in Nat
             /\ \A k \in 1..n : Sending!Nth(s, k) \in s
             /\ \A k, l \in 1..n : k < l => Sending!Nth(s, k) < Sending!Nth(s, l)
             /\ \A i \in s : \E k \in 1..n : Sending!Nth(s, k) = i
<1> DEFINE n       == Cardinality(s)
           upto(k) == {j \in s : j <= k}
           rank    == [k \in s |-> Cardinality(upto(k))]
<1>1. IsFiniteSet(s) /\ n \in Nat /\ IsFiniteSet(1..n) /\ Cardinality(1..n) = n
  <2>1. IsFiniteSet(s)
    <3>1. IsFiniteSet(1..m)
      BY FS_Interval
    <3> QED
      BY <3>1, FS_Subset
  <2>2. n \in Nat
    BY <2>1, FS_CardinalityType
  <2> HIDE DEF n
  <2> QED
    BY <2>1, <2>2, FS_Interval
<1>2. \A k \in s : IsFiniteSet(upto(k)) /\ rank[k] \in 1..n
  <2> SUFFICES ASSUME NEW k \in s PROVE IsFiniteSet(upto(k)) /\ Cardinality(upto(k)) \in 1..n
    OBVIOUS
  <2>1. upto(k) \in SUBSET s /\ k \in upto(k)
    OBVIOUS
  <2> HIDE DEF upto
  <2>2. IsFiniteSet(upto(k)) /\ Cardinality(upto(k)) <= n
    BY <1>1, <2>1, FS_Subset
  <2>3. Cardinality(upto(k)) \in Nat /\ Cardinality(upto(k)) # 0
    BY <2>1, <2>2, FS_CardinalityType, FS_EmptySet
  <2> QED
    BY <1>1, <2>2, <2>3
<1>3. \A k, l \in s : k < l => rank[k] < rank[l]
  <2> SUFFICES ASSUME NEW k \in s, NEW l \in s, k < l
               PROVE  Cardinality(upto(k)) < Cardinality(upto(l))
    OBVIOUS
  <2>1. upto(k) \in SUBSET upto(l) /\ l \in upto(l) /\ l \notin upto(k)
    <3>1. \A i \in s : i <= k => i <= l
      OBVIOUS
    <3>2. l <= l /\ ~ (l <= k)
      OBVIOUS
    <3> QED
      BY <3>1, <3>2
  <2>2. Cardinality(upto(k)) \in Nat /\ Cardinality(upto(l)) \in Nat
    BY <1>2, FS_CardinalityType
  <2> HIDE DEF upto
  <2>3. /\ Cardinality(upto(k)) <= Cardinality(upto(l))
        /\ Cardinality(upto(k)) # Cardinality(upto(l))
    BY <1>2, <2>1, FS_Subset
  <2> QED
    BY <2>2, <2>3
<1>4. \A k \in 1..n : \E i \in s : rank[i] = k
  <2>1. \A k, l \in s : rank[k] = rank[l] => k = l
    <3>1. \A k, l \in s : rank[k] = rank[l] => ~ (k < l) /\ ~ (l < k)
      <4> HIDE DEF rank, n, upto
      <4> QED
        BY <1>1, <1>2, <1>3
    <3>2. \A i \in s : i \in Nat
      OBVIOUS
    <3> HIDE DEF rank
    <3> QED
      BY <3>1, <3>2
  <2>2. rank \in Injection(s, 1..n)
    BY <1>2, <2>1 DEF Injection, IsInjective
  <2> HIDE DEF rank
  <2>3. rank \in Surjection(s, 1..n)
    BY <1>1, <2>2, FS_Injection
  <2> QED
    BY <2>3 DEF Surjection
<1>5. \A k \in 1..n : Sending!Nth(s, k) \in s /\ rank[Sending!Nth(s, k)] = k
  <2> SUFFICES ASSUME NEW k \in 1..n
               PROVE  Sending!Nth(s, k) \in s /\ rank[Sending!Nth(s, k)] = k
    OBVIOUS
  <2>1. Sending!Nth(s, k) = CHOOSE i \in s : Cardinality(upto(i)) = k
    BY CountOfSending DEF Sending!Nth
  <2>2. \E i \in s : Cardinality(upto(i)) = k
    BY <1>4
  <2> HIDE DEF upto
  <2> QED
    BY <2>1, <2>2
<1>6. \A k, l \in 1..n : k < l => Sending!Nth(s, k) < Sending!Nth(s, l)
  <2> SUFFICES ASSUME NEW k \in 1..n, NEW l \in 1..n, k < l
               PROVE  Sending!Nth(s, k) < Sending!Nth(s, l)
    OBVIOUS
  <2> DEFINE i == Sending!Nth(s, k)
             j == Sending!Nth(s, l)
  <2>1. i \in s /\ j \in s /\ rank[i] = k /\ rank[j] = l
    BY <1>5
  <2> HIDE DEF i, j, rank
  <2>2. ~ (j < i) /\ i # j
    BY <1>1, <1>3, <2>1
  <2>3. i < j
    BY <2>1, <2>2
  <2> QED
    BY <2>3 DEF i, j
<1>7. \A i \in s : \E k \in 1..n : Sending!Nth(s, k) = i
  <2> SUFFICES ASSUME NEW i \in s PROVE \E k \in 1..n : Sending!Nth(s, k) = i
    OBVIOUS
  <2> DEFINE j == Sending!Nth(s, rank[i])
  <2>1. rank[i] \in 1..n /\ j \in s /\ rank[j] = rank[i]
    BY <1>2, <1>5
  <2> HIDE DEF j, rank
  <2>2. j = i
    BY <1>1, <1>3, <2>1
  <2> QED
    BY <2>1, <2>2 DEF j
<1> HIDE DEF rank, upto
<1> QED
  BY <1>1, <1>5, <1>6, <1>7, CountOfSending

SendPackets == Seq(Sending!Packet)

\* What drop_frames leaves alone.
Stays(p, highest) == p.type = "audio" \/ Sending!priority[p.type] >= highest

LEMMA SendKinds ==
  ASSUME NEW p \in Sending!Packet
  PROVE  /\ Sending!Video = {"B", "Bref", "P", "I"}
         /\ p.type \in {"audio", "B", "Bref", "P", "I"} /\ p.dts \in Nat \ {0} /\ p.needs \in Nat
         /\ Stays(p, 2) <=> p.type \in {"audio", "P", "I"}
         /\ Stays(p, 3) <=> p.type \in {"audio", "I"}
<1>1. Sending!Video = {"B", "Bref", "P", "I"}
  BY DEF Sending!Video, Sending!priority
<1>2. p.type \in {"audio", "B", "Bref", "P", "I"} /\ p.dts \in Nat \ {0} /\ p.needs \in Nat
  BY <1>1 DEF Sending!Packet
<1>3. /\ Sending!priority["B"] = 0 /\ Sending!priority["Bref"] = 1
      /\ Sending!priority["P"] = 2 /\ Sending!priority["I"] = 3
  BY DEF Sending!priority
<1> QED
  BY <1>1, <1>2, <1>3 DEF Stays

\* drop_frames: a part of the queue in its order, with all that stays.
DroppedFrom(d, q, highest) ==
  \E at \in [DOMAIN d -> DOMAIN q] :
    /\ \A k \in DOMAIN d : d[k] = q[at[k]] /\ Stays(d[k], highest)
    /\ \A k, l \in DOMAIN d : k < l => at[k] < at[l]
    /\ \A i \in DOMAIN q : Stays(q[i], highest) => \E k \in DOMAIN d : at[k] = i

LEMMA Dropped ==
  ASSUME NEW q \in SendPackets, NEW highest \in Nat
  PROVE  LET d == Sending!drop_frames(q, highest)
         IN  d \in SendPackets /\ DroppedFrom(d, q, highest) /\ Len(d) <= Len(q)
<1> DEFINE kept == {i \in DOMAIN q : Stays(q[i], highest)}
           n    == Sending!Cardinality(kept)
           at   == [k \in 1..n |-> Sending!Nth(kept, k)]
           d    == Sending!drop_frames(q, highest)
<1>1. Len(q) \in Nat /\ DOMAIN q = 1..Len(q) /\ \A i \in DOMAIN q : q[i] \in Sending!Packet
  BY DEF SendPackets
<1>2. kept \in SUBSET (1..Len(q))
  BY <1>1
<1>3. d = [k \in 1..n |-> q[Sending!Nth(kept, k)]]
  BY DEF Sending!drop_frames, Stays
<1> HIDE DEF d, kept
<1>4. /\ n \in Nat
      /\ \A k \in 1..n : Sending!Nth(kept, k) \in kept
      /\ \A k, l \in 1..n : k < l => Sending!Nth(kept, k) < Sending!Nth(kept, l)
      /\ \A i \in kept : \E k \in 1..n : Sending!Nth(kept, k) = i
  BY <1>1, <1>2, Nths
<1> HIDE DEF n
<1>5. n <= Len(q)
  <2>1. IsFiniteSet(1..Len(q)) /\ Cardinality(1..Len(q)) = Len(q)
    BY <1>1, FS_Interval
  <2> QED
    BY <1>2, <2>1, CountOfSending, FS_Subset DEF n
<1>6. \A i \in kept : i \in DOMAIN q /\ Stays(q[i], highest) /\ q[i] \in Sending!Packet
  BY <1>1 DEF kept
<1>7. d \in [1..n -> Sending!Packet]
  BY <1>3, <1>4, <1>6
<1>8. d \in SendPackets
  BY <1>4, <1>7 DEF SendPackets
<1>9. DOMAIN d = 1..n
  BY <1>7
<1>10. at \in [DOMAIN d -> DOMAIN q]
  BY <1>4, <1>6, <1>9
<1>11. \A k \in DOMAIN d : d[k] = q[at[k]] /\ Stays(d[k], highest)
  BY <1>3, <1>4, <1>6, <1>9
<1>12. \A k, l \in DOMAIN d : k < l => at[k] < at[l]
  BY <1>4, <1>9
<1>13. \A i \in DOMAIN q : Stays(q[i], highest) => \E k \in DOMAIN d : at[k] = i
  BY <1>4, <1>9 DEF kept
<1> HIDE DEF at
<1>14. DroppedFrom(d, q, highest)
  BY <1>10, <1>11, <1>12, <1>13 DEF DroppedFrom
<1>15. Len(d) = n
  BY <1>4, <1>7
<1> QED
  BY <1>8, <1>14, <1>5, <1>15 DEF d

\* Frames of a queue that are further apart than they may be.
Near(q) == \A i, j, k \in DOMAIN q :
  i < j /\ j < k /\ Sending!IsDelta(q[i]) /\ {q[j].type, q[k].type} \subseteq Sending!Video
    => q[j].dts - q[i].dts <= pframe_drop_threshold

SendTypes ==
  /\ sent \in SUBSET Sending!Packet /\ last_dts \in Nat
  /\ frames \in [dts : Nat \ {0}, due : {"audio", "video"}, P : Nat, Bref : Nat,
                 first : Nat \ {0}]

Queue(q, min) == q \in SendPackets /\ Sending!Inside(q, min) /\ Near(q)

LEMMA DropKeeps ==
  ASSUME SendTypes, NEW q, NEW min \in {0, 2, 3}, Queue(q, min), NEW highest \in {2, 3}
  PROVE  Queue(Sending!drop_frames(q, highest), IF min < highest THEN highest ELSE min)
<1> DEFINE d == Sending!drop_frames(q, highest)
           m == IF min < highest THEN highest ELSE min
<1>1. q \in SendPackets /\ Sending!Inside(q, min) /\ Near(q)
  BY DEF Queue
<1>2. d \in SendPackets /\ DroppedFrom(d, q, highest)
  BY <1>1, Dropped
<1> HIDE DEF d
<1>3. PICK at \in [DOMAIN d -> DOMAIN q] :
      /\ \A k \in DOMAIN d : d[k] = q[at[k]] /\ Stays(d[k], highest)
      /\ \A k, l \in DOMAIN d : k < l => at[k] < at[l]
      /\ \A i \in DOMAIN q : Stays(q[i], highest) => \E k \in DOMAIN d : at[k] = i
  BY <1>2 DEF DroppedFrom
<1>4. /\ \A i \in DOMAIN q : q[i] \in Sending!Packet /\ i \in Nat
      /\ \A k \in DOMAIN d : d[k] \in Sending!Packet /\ k \in Nat /\ at[k] \in DOMAIN q
  BY <1>1, <1>2, <1>3 DEF SendPackets
<1>5. \A k, l \in DOMAIN d : at[k] < at[l] => k < l
  <2> SUFFICES ASSUME NEW k \in DOMAIN d, NEW l \in DOMAIN d, at[k] < at[l], ~ (k < l)
               PROVE  FALSE
    OBVIOUS
  <2>1. l < k \/ l = k
    BY <1>4
  <2> QED
    BY <1>3, <1>4, <2>1
<1>6. \A i \in DOMAIN q : q[i].type = "audio" => \E k \in DOMAIN d : at[k] = i /\ d[k] = q[i]
  BY <1>3 DEF Stays
<1>7. Sending!Ordered(d)
  BY <1>1, <1>3, <1>4 DEF Sending!Inside, Sending!Ordered
<1>8. Sending!Past(d)
  BY <1>1, <1>3, <1>4 DEF Sending!Inside, Sending!Past
<1>9. Sending!AudioKept(d)
  BY <1>1, <1>6 DEF Sending!Inside, Sending!AudioKept, Sending!IsAudio
<1>10. Sending!AudioFollows(d)
  <2> SUFFICES ASSUME NEW k \in DOMAIN d, NEW t \in (d[k].dts + 1)..Sending!LastAudio
               PROVE  \E l \in DOMAIN d : k < l /\ Sending!IsAudio(d[l], t)
    BY DEF Sending!AudioFollows
  <2>1. PICK j \in DOMAIN q : at[k] < j /\ Sending!IsAudio(q[j], t)
    BY <1>1, <1>3, <1>4 DEF Sending!Inside, Sending!AudioFollows
  <2>2. PICK l \in DOMAIN d : at[l] = j /\ d[l] = q[j]
    BY <1>6, <2>1 DEF Sending!IsAudio
  <2> QED
    BY <1>5, <2>1, <2>2
<1>11. \A i \in DOMAIN q : q[i].type \in {"P", "I"} /\ highest = 2
                             => \E k \in DOMAIN d : at[k] = i /\ d[k] = q[i]
  BY <1>3, <1>4, SendKinds
<1>12. Sending!Led(d)
  <2> SUFFICES ASSUME NEW k \in DOMAIN d, d[k].needs # 0
               PROVE  /\ Sending!IsDelta(d[k])
                      /\ \/ \E p \in sent : Sending!Serves(p, d[k].type, d[k].needs)
                         \/ \E l \in DOMAIN d : l < k /\ Sending!Serves(d[l], d[k].type, d[k].needs)
    BY DEF Sending!Led
  <2>1. /\ Sending!IsDelta(d[k])
        /\ \/ \E p \in sent : Sending!Serves(p, d[k].type, d[k].needs)
           \/ \E j \in DOMAIN q : j < at[k] /\ Sending!Serves(q[j], d[k].type, d[k].needs)
    BY <1>1, <1>3, <1>4 DEF Sending!Inside, Sending!Led
  <2>2. CASE highest = 3
    <3>1. d[k].type = "I"
      BY <1>3, <1>4, <2>1, <2>2, SendKinds DEF Sending!IsDelta
    <3> QED
      BY <2>1, <3>1 DEF Sending!IsDelta
  <2>3. CASE highest = 2
    <3>1. d[k].type \in {"P", "I"}
      BY <1>3, <1>4, <2>1, <2>3, SendKinds DEF Sending!IsDelta
    <3>2. ASSUME NEW j \in DOMAIN q, j < at[k], Sending!Serves(q[j], d[k].type, d[k].needs)
          PROVE  \E l \in DOMAIN d : l < k /\ Sending!Serves(d[l], d[k].type, d[k].needs)
      <4>1. q[j].type \in {"P", "I"}
        BY <3>1, <3>2 DEF Sending!Serves, Sending!Referred
      <4>2. PICK l \in DOMAIN d : at[l] = j /\ d[l] = q[j]
        BY <1>11, <2>3, <4>1
      <4> QED
        BY <1>5, <3>2, <4>2
    <3> QED
      BY <2>1, <3>2
  <2> QED
    BY <2>2, <2>3
<1>13. Sending!Refusing(d, m)
  <2>1. /\ frames.P # 0 => Sending!Present(q, "P", frames.P) \/ min = 3
        /\ frames.Bref # 0 => Sending!Present(q, "B", frames.Bref) \/ min >= 2
    BY <1>1 DEF Sending!Inside, Sending!Refusing, Sending!HIGHEST, Sending!HIGH
  <2>2. m >= 2 /\ (highest = 3 => m = 3) /\ (min = 3 => m = 3)
    OBVIOUS
  <2>3. highest = 2 /\ Sending!Present(q, "P", frames.P) => Sending!Present(d, "P", frames.P)
    BY <1>11 DEF Sending!Present, Sending!Serves, Sending!Referred
  <2> HIDE DEF m
  <2> QED
    BY <2>1, <2>2, <2>3 DEF Sending!Refusing, Sending!HIGHEST, Sending!HIGH
<1>14. Near(d)
  BY <1>1, <1>3, <1>4 DEF Near
<1> QED
  BY <1>2, <1>7, <1>8, <1>9, <1>10, <1>12, <1>13, <1>14 DEF Queue, Sending!Inside, d

\* A queue with its least priority.
Pair(c) == c = [packets |-> c.packets, min |-> c.min]

LEMMA CheckKeeps ==
  ASSUME SendTypes, NEW q, NEW min \in {0, 2, 3}, Queue(q, min), NEW highest \in {2, 3},
         NEW threshold
  PROVE  LET s == [packets |-> q, min |-> min]
             c == Sending!check_to_drop_frames(s, highest, threshold)
         IN  /\ Pair(c)
             /\ c.min \in {0, 2, 3} /\ Queue(c.packets, c.min) /\ Len(c.packets) <= Len(q)
             /\ \/ c = s /\ ~Sending!Behind(q, threshold)
                \/ \A k \in DOMAIN c.packets : Stays(c.packets[k], highest)
<1> DEFINE s == [packets |-> q, min |-> min]
           c == Sending!check_to_drop_frames(s, highest, threshold)
           d == Sending!drop_frames(q, highest)
           m == IF min < highest THEN highest ELSE min
<1>1. CASE ~Sending!Behind(q, threshold)
  <2>1. c = s
    BY <1>1 DEF Sending!check_to_drop_frames
  <2>2. Len(q) <= Len(q)
    BY DEF Queue, SendPackets
  <2> QED
    BY <1>1, <2>1, <2>2 DEF Pair
<1>2. CASE Sending!Behind(q, threshold)
  <2>1. c = [packets |-> d, min |-> m]
    BY <1>2 DEF Sending!check_to_drop_frames
  <2>2. Queue(d, m) /\ m \in {2, 3}
    BY DropKeeps
  <2>3. Len(d) <= Len(q) /\ \A k \in DOMAIN d : Stays(d[k], highest)
    BY Dropped DEF Queue, DroppedFrom
  <2> HIDE DEF d, m
  <2> QED
    BY <2>1, <2>2, <2>3 DEF Pair
<1> QED
  BY <1>1, <1>2

\* No frame is too far behind one that could be dropped.
Settled(q) == \A i, j \in DOMAIN q :
  i < j /\ Sending!IsDelta(q[i]) /\ q[j].type \in Sending!Video
    => q[j].dts - q[i].dts <= pframe_drop_threshold

LEMMA IntervalCount ==
  ASSUME NEW a \in Nat, NEW b \in Nat, a <= b
  PROVE  IsFiniteSet((a + 1)..b) /\ Cardinality((a + 1)..b) = b - a
<1> DEFINE c == a + 1
<1>1. c \in Int /\ b \in Int /\ (c > b => b - a = 0) /\ b - c + 1 = b - a
  OBVIOUS
<1> HIDE DEF c
<1>2. IsFiniteSet(c..b) /\ Cardinality(c..b) = IF c > b THEN 0 ELSE b - c + 1
  BY <1>1, FS_Interval
<1>3. IsFiniteSet(c..b) /\ Cardinality(c..b) = b - a
  BY <1>1, <1>2
<1> QED
  BY <1>3 DEF c

\* The newest frame is as far from a frame as there is audio behind that.
LEMMA FewWait ==
  ASSUME SendTypes, NEW q, NEW min, Queue(q, min), frames.due = "video",
         NEW i \in DOMAIN q, NEW j \in DOMAIN q, i < j,
         q[i].type # "audio", q[j].type # "audio"
  PROVE  q[j].dts - q[i].dts <= Len(q) - 3
<1>1. /\ Len(q) \in Nat /\ DOMAIN q = 1..Len(q) /\ frames.dts \in Nat /\ last_dts \in Nat
      /\ \A k \in DOMAIN q : q[k].dts \in Nat
      /\ Sending!LastAudio = frames.dts /\ last_dts < frames.dts
      /\ q[i].dts <= last_dts /\ q[j].dts <= last_dts
  BY SendKinds DEF Queue, SendPackets, SendTypes, Sending!Inside, Sending!Past, Sending!LastAudio
<1> DEFINE T == (q[i].dts + 1)..frames.dts
           S == (i + 1)..Len(q)
           f == [t \in T |-> CHOOSE l \in DOMAIN q : i < l /\ Sending!IsAudio(q[l], t)]
<1>2. \A t \in T : f[t] \in DOMAIN q /\ i < f[t] /\ Sending!IsAudio(q[f[t]], t)
  <2> SUFFICES ASSUME NEW t \in T
               PROVE  \E l \in DOMAIN q : i < l /\ Sending!IsAudio(q[l], t)
    OBVIOUS
  <2> QED
    BY <1>1 DEF Queue, Sending!Inside, Sending!AudioFollows
<1>3. f \in Injection(T, S \ {j})
  <2>1. \A t \in T : f[t] \in S \ {j}
    <3>1. \A l \in DOMAIN q : i < l => l \in S
      BY <1>1
    <3> HIDE DEF f, S, T
    <3> QED
      BY <1>2, <3>1 DEF Sending!IsAudio
  <2>2. \A t, u \in T : f[t] = f[u] => t = u
    BY <1>2 DEF Sending!IsAudio
  <2>3. f \in [T -> S \ {j}]
    BY <2>1
  <2> HIDE DEF f, T, S
  <2> QED
    BY <2>2, <2>3 DEF Injection, IsInjective
<1>4. IsFiniteSet(S \ {j}) /\ Cardinality(S \ {j}) = Len(q) - i - 1
  <2>1. IsFiniteSet(S) /\ Cardinality(S) = Len(q) - i
    <3>1. i \in Nat /\ Len(q) \in Nat /\ i <= Len(q)
      BY <1>1
    <3> QED
      BY <3>1, IntervalCount
  <2>2. j \in S
    BY <1>1
  <2> HIDE DEF S
  <2>3. IsFiniteSet(S \ {j}) /\ Cardinality(S \ {j}) = Cardinality(S) - 1
    BY <2>1, <2>2, FS_RemoveElement
  <2> QED
    BY <2>1, <2>3
<1>5. Cardinality(T) = frames.dts - q[i].dts
  <2>1. q[i].dts \in Nat /\ frames.dts \in Nat /\ q[i].dts <= frames.dts
    BY <1>1
  <2> QED
    BY <2>1, IntervalCount
<1>6. Cardinality(T) <= Cardinality(S \ {j})
  <2> HIDE DEF T, S, f
  <2> QED
    BY <1>3, <1>4, FS_Injection
<1> HIDE DEF T, S, f
<1> QED
  BY <1>1, <1>4, <1>5, <1>6

LEMMA NotBehind ==
  ASSUME SendTypes, NEW q, NEW min, Queue(q, min), frames.due = "video",
         ~Sending!Behind(q, pframe_drop_threshold)
  PROVE  Settled(q)
<1> SUFFICES ASSUME NEW i \in DOMAIN q, NEW j \in DOMAIN q, i < j, Sending!IsDelta(q[i]),
                    q[j].type \in Sending!Video
             PROVE  q[j].dts - q[i].dts <= pframe_drop_threshold
  BY DEF Settled
<1>1. /\ Len(q) \in Nat /\ DOMAIN q = 1..Len(q) /\ last_dts \in Nat
      /\ \A k \in DOMAIN q : q[k] \in Sending!Packet /\ q[k].dts \in Nat
      /\ q[i].type # "audio" /\ q[j].type # "audio"
  BY SendKinds DEF Queue, SendPackets, SendTypes, Sending!IsDelta
<1>2. CASE Len(q) < CheckFrom
  <2>1. q[j].dts - q[i].dts <= Len(q) - 3
    BY <1>1, FewWait
  <2> QED
    BY <1>1, <1>2, <2>1, DropAssumption
<1>3. CASE ~ (Len(q) < CheckFrom)
  <2> DEFINE deltas == {k \in DOMAIN q : Sending!IsDelta(q[k])}
             f      == Sending!Nth(deltas, 1)
  <2>1. deltas \in SUBSET (1..Len(q)) /\ i \in deltas
    BY <1>1
  <2> HIDE DEF deltas
  <2>2. f \in deltas /\ \A k \in deltas : f <= k
    <3> DEFINE n == Sending!Cardinality(deltas)
    <3>1. /\ n \in Nat /\ \A k \in 1..n : Sending!Nth(deltas, k) \in deltas
          /\ \A k, l \in 1..n : k < l => Sending!Nth(deltas, k) < Sending!Nth(deltas, l)
          /\ \A k \in deltas : \E l \in 1..n : Sending!Nth(deltas, l) = k
      BY <1>1, <2>1, Nths
    <3> HIDE DEF n
    <3>2. 1 \in 1..n
      BY <2>1, <3>1
    <3>3. f \in deltas
      BY <3>1, <3>2
    <3>4. ASSUME NEW k \in deltas PROVE f <= k
      <4>1. PICK l \in 1..n : Sending!Nth(deltas, l) = k
        BY <3>1
      <4>2. CASE l = 1
        BY <1>1, <2>1, <4>1, <4>2
      <4>3. CASE 1 < l
        <5>1. f < k
          BY <3>1, <3>2, <4>1, <4>3
        <5> QED
          BY <1>1, <2>1, <3>3, <5>1
      <4> QED
        BY <3>1, <4>2, <4>3
    <3> QED
      BY <3>3, <3>4
  <2> HIDE DEF f
  <2>3. f \in DOMAIN q /\ Sending!IsDelta(q[f]) /\ \A k \in DOMAIN q : Sending!IsDelta(q[k]) => f <= k
    BY <2>2 DEF deltas
  <2>4. ~ (last_dts - q[f].dts > pframe_drop_threshold)
    BY <1>1, <1>3, <2>3, DropAssumption DEF Sending!Behind
  <2>5. q[f].dts <= q[i].dts
    <3>1. f = i \/ f < i
      BY <1>1, <2>3
    <3> QED
      BY <1>1, <2>3, <3>1 DEF Queue, Sending!Inside, Sending!Ordered
  <2>6. q[j].dts <= last_dts
    BY <1>1 DEF Queue, Sending!Inside, Sending!Past
  <2> QED
    BY <1>1, <2>3, <2>4, <2>5, <2>6, DropAssumption
<1> QED
  BY <1>2, <1>3

\* What add_video_packet finds before it adds the packet.
LEMMA CheckedKeeps ==
  ASSUME SendTypes, Queue(packets, min_priority),
         min_priority \in {0, 2, 3}
  PROVE  LET c == Sending!Checked
         IN  /\ c.min \in {0, 2, 3} /\ Queue(c.packets, c.min) /\ Len(c.packets) <= Len(packets)
             /\ frames.due = "video" => Settled(c.packets)
<1> DEFINE b == Sending!check_to_drop_frames([packets |-> packets, min |-> min_priority], 2,
                                             drop_threshold)
           c == Sending!check_to_drop_frames(b, 3, pframe_drop_threshold)
<1>1. Sending!Checked = c
  BY DEF Sending!Checked, Sending!HIGH, Sending!HIGHEST
<1>2. /\ b = [packets |-> b.packets, min |-> b.min] /\ b.min \in {0, 2, 3}
      /\ Queue(b.packets, b.min) /\ Len(b.packets) <= Len(packets)
  <2>1. 2 \in {2, 3}
    OBVIOUS
  <2>2. Pair(b) /\ b.min \in {0, 2, 3} /\ Queue(b.packets, b.min) /\ Len(b.packets) <= Len(packets)
    BY <2>1, CheckKeeps
  <2> HIDE DEF b
  <2> QED
    BY <2>2 DEF Pair
<1> HIDE DEF b
<1>3. /\ c.min \in {0, 2, 3} /\ Queue(c.packets, c.min) /\ Len(c.packets) <= Len(b.packets)
      /\ \/ c = b /\ ~Sending!Behind(b.packets, pframe_drop_threshold)
         \/ \A k \in DOMAIN c.packets : Stays(c.packets[k], 3)
  <2>1. 3 \in {2, 3}
    OBVIOUS
  <2> DEFINE e == Sending!check_to_drop_frames([packets |-> b.packets, min |-> b.min], 3,
                                               pframe_drop_threshold)
  <2>2. c = e
    BY <1>2
  <2>3. /\ e.min \in {0, 2, 3} /\ Queue(e.packets, e.min) /\ Len(e.packets) <= Len(b.packets)
        /\ \/ /\ e = [packets |-> b.packets, min |-> b.min]
              /\ ~Sending!Behind(b.packets, pframe_drop_threshold)
           \/ \A k \in DOMAIN e.packets : Stays(e.packets[k], 3)
    BY <1>2, <2>1, CheckKeeps
  <2> HIDE DEF c, e
  <2> QED
    BY <1>2, <2>2, <2>3
<1> HIDE DEF c
<1>4. ASSUME frames.due = "video" PROVE Settled(c.packets)
  <2>1. CASE c = b /\ ~Sending!Behind(b.packets, pframe_drop_threshold)
    BY <1>2, <1>4, <2>1, NotBehind
  <2>2. CASE \A k \in DOMAIN c.packets : Stays(c.packets[k], 3)
    <3>1. ASSUME NEW k \in DOMAIN c.packets PROVE ~Sending!IsDelta(c.packets[k])
      <4>1. c.packets[k] \in Sending!Packet /\ Stays(c.packets[k], 3)
        BY <1>3, <2>2 DEF Queue, SendPackets
      <4>2. c.packets[k].type \in {"audio", "I"}
        BY <4>1, SendKinds
      <4> QED
        BY <4>2 DEF Sending!IsDelta
    <3> QED
      BY <3>1 DEF Settled
  <2> QED
    BY <1>3, <2>1, <2>2
<1>5. Len(c.packets) <= Len(packets)
  BY <1>2, <1>3 DEF Queue, SendPackets
<1> QED
  BY <1>1, <1>3, <1>4, <1>5

LEMMA SendAppended ==
  ASSUME NEW q \in SendPackets, NEW p \in Sending!Packet
  PROVE  LET a == Append(q, p)
             n == Len(q) + 1
         IN  /\ a \in SendPackets /\ Len(a) = n /\ a[n] = p /\ n \in DOMAIN a
             /\ DOMAIN a = DOMAIN q \cup {n} /\ DOMAIN q = 1..Len(q)
             /\ \A i \in DOMAIN q : a[i] = q[i] /\ i < n /\ i \in DOMAIN a /\ i \in Nat
             /\ \A i \in DOMAIN a : i = n \/ i \in DOMAIN q
  BY DEF SendPackets

SendState == SendTypes /\ min_priority \in {0, 2, 3} /\ send_sem \in Nat /\ losses \in Nat
               /\ connected \in BOOLEAN /\ packets \in SendPackets

LEMMA SendTypeOK == Sending!TypeOK <=> SendState
  BY DEF Sending!TypeOK, SendState, SendTypes, SendPackets, Sending!HIGH, Sending!HIGHEST

LEMMA SendBounded == Sending!Bounded <=> Near(packets)
  BY DEF Sending!Bounded, Near, Sending!Video

LEMMA SendInvParts ==
  Sending!IInv <=> /\ SendState /\ Sending!Lost /\ Sending!Decodable /\ Sending!AudioWhole
                   /\ Sending!Served /\ Near(packets)
                   /\ connected => Queue(packets, min_priority)
  BY SendTypeOK, SendBounded DEF Sending!IInv, Sending!StreamUsable, Queue, SendState

LEMMA VideoTypes ==
  ASSUME SendTypes, NEW type \in Sending!Video
  PROVE  LET f == Sending!Frame(type)
             e == Sending!Encoded(type)
         IN  /\ f \in Sending!Packet /\ f.type = type /\ f.dts = frames.dts /\ type # "audio"
             /\ f.needs = CASE type = "I" -> 0 [] type = "B" -> frames.Bref [] OTHER -> frames.P
             /\ e \in [dts : Nat \ {0}, due : {"audio", "video"}, P : Nat, Bref : Nat,
                       first : Nat \ {0}]
             /\ e.dts = frames.dts + 1 /\ e.due = "audio" /\ e.first = frames.first
             /\ e.P = IF type \in {"P", "I"} THEN frames.dts ELSE frames.P
             /\ e.Bref = IF type = "B" THEN frames.Bref ELSE frames.dts
<1>1. type \in {"B", "Bref", "P", "I"}
  BY DEF Sending!Video, Sending!priority
<1>2. Sending!Frame(type).needs \in Nat
  BY <1>1 DEF SendTypes, Sending!Frame
<1>3. Sending!Frame(type) \in Sending!Packet
  BY <1>1, <1>2 DEF SendTypes, Sending!Frame, Sending!Packet
<1>4. LET f == Sending!Frame(type)
      IN  /\ f.type = type /\ f.dts = frames.dts
          /\ f.needs = CASE type = "I" -> 0 [] type = "B" -> frames.Bref [] OTHER -> frames.P
  BY DEF Sending!Frame
<1>5. LET e == Sending!Encoded(type)
      IN  /\ e \in [dts : Nat \ {0}, due : {"audio", "video"}, P : Nat, Bref : Nat,
                     first : Nat \ {0}]
          /\ e.dts = frames.dts + 1 /\ e.due = "audio" /\ e.first = frames.first
          /\ e.P = IF type \in {"P", "I"} THEN frames.dts ELSE frames.P
          /\ e.Bref = IF type = "B" THEN frames.Bref ELSE frames.dts
  <2> DEFINE P    == IF type \in {"P", "I"} THEN frames.dts ELSE frames.P
             Bref == IF type = "B" THEN frames.Bref ELSE frames.dts
             Rec  == [dts : Nat \ {0}, due : {"audio", "video"}, P : Nat, Bref : Nat,
                      first : Nat \ {0}]
             e    == [frames EXCEPT !.dts = frames.dts + 1, !.due = "audio", !.P = P, !.Bref = Bref]
  <2>1. Sending!Encoded(type) = e
    BY DEF Sending!Encoded, SendTypes
  <2>2. frames \in Rec /\ P \in Nat /\ Bref \in Nat /\ frames.dts + 1 \in Nat \ {0}
    BY DEF SendTypes
  <2> HIDE DEF P, Bref
  <2>3. /\ e \in Rec /\ e.dts = frames.dts + 1 /\ e.due = "audio" /\ e.first = frames.first
        /\ e.P = P /\ e.Bref = Bref
    BY <2>2
  <2> QED
    BY <2>1, <2>3 DEF P, Bref
<1> QED
  BY <1>1, <1>3, <1>4, <1>5

\* A frame is refused: later ones of its kind are too.
LEMMA VideoRefused ==
  ASSUME SendState, NEW q, NEW min \in {0, 2, 3}, Queue(q, min), frames.due = "video",
         NEW type \in Sending!Video, Sending!priority[type] < min,
         frames' = Sending!Encoded(type), packets' = q, min_priority' = min,
         UNCHANGED <<last_dts, sent>>
  PROVE  Queue(packets, min_priority)'
<1>1. /\ SendTypes /\ q \in SendPackets /\ Near(q) /\ Sending!Ordered(q) /\ Sending!Past(q)
      /\ Sending!AudioKept(q) /\ Sending!AudioFollows(q) /\ Sending!Led(q) /\ Sending!Refusing(q, min)
  BY DEF SendState, Queue, Sending!Inside
<1>2. /\ frames.dts \in Nat /\ last_dts \in Nat /\ frames'.dts = frames.dts + 1
      /\ frames'.due = "audio" /\ frames'.first = frames.first
      /\ Sending!LastAudio' = Sending!LastAudio
  BY <1>1, VideoTypes DEF SendTypes, Sending!LastAudio
<1>3. Sending!Ordered(packets)'
  BY <1>1 DEF Sending!Ordered
<1>4. Sending!Past(packets)'
  <2>1. last_dts < frames.dts + 1
    BY <1>1, <1>2 DEF Sending!Past
  <2> QED
    BY <1>1, <1>2, <2>1 DEF Sending!Past
<1>5. Sending!AudioKept(packets)'
  BY <1>1, <1>2 DEF Sending!AudioKept, Sending!IsAudio
<1>6. Sending!AudioFollows(packets)'
  BY <1>1, <1>2 DEF Sending!AudioFollows, Sending!IsAudio
<1>7. Sending!Led(packets)'
  BY <1>1 DEF Sending!Led, Sending!Serves, Sending!IsDelta, Sending!Referred
<1>8. Sending!Refusing(packets, min_priority)'
  <2>1. min >= 2 /\ (type \in {"P", "I"} => min = 3)
    BY DEF Sending!Video, Sending!priority
  <2>2. Sending!Present(packets, "P", frames.P)' <=> Sending!Present(q, "P", frames'.P)
    BY DEF Sending!Present, Sending!Serves, Sending!Referred
  <2>3. frames'.P = IF type \in {"P", "I"} THEN frames.dts ELSE frames.P
    BY <1>1, VideoTypes
  <2> QED
    BY <1>1, <2>1, <2>2, <2>3 DEF Sending!Refusing, Sending!HIGH, Sending!HIGHEST
<1>9. packets' \in SendPackets /\ Near(packets)'
  BY <1>1 DEF Near, Sending!IsDelta, Sending!Video, Sending!priority
<1> QED
  BY <1>3, <1>4, <1>5, <1>6, <1>7, <1>8, <1>9 DEF Queue, Sending!Inside, SendPackets, Sending!Packet,
     Sending!Video, Sending!priority

LEMMA VideoAdded ==
  ASSUME SendState, NEW q, NEW min \in {0, 2, 3}, Queue(q, min), Settled(q), frames.due = "video",
         NEW type \in Sending!Video, ~(Sending!priority[type] < min),
         frames' = Sending!Encoded(type), packets' = Append(q, Sending!Frame(type)),
         min_priority' = 0, last_dts' = frames.dts, UNCHANGED sent
  PROVE  Queue(packets, min_priority)'
<1> DEFINE f == Sending!Frame(type)
           n == Len(q) + 1
<1>1. /\ SendTypes /\ q \in SendPackets /\ Near(q) /\ Sending!Ordered(q) /\ Sending!Past(q)
      /\ Sending!AudioKept(q) /\ Sending!AudioFollows(q) /\ Sending!Led(q) /\ Sending!Refusing(q, min)
  BY DEF SendState, Queue, Sending!Inside
<1>2. /\ frames.dts \in Nat /\ last_dts \in Nat /\ frames'.dts = frames.dts + 1
      /\ frames'.due = "audio" /\ frames'.first = frames.first
      /\ Sending!LastAudio' = frames.dts /\ Sending!LastAudio = frames.dts
  BY <1>1, VideoTypes DEF SendTypes, Sending!LastAudio
<1>3. /\ f \in Sending!Packet /\ f.type = type /\ f.dts = frames.dts /\ type # "audio"
      /\ f.needs = CASE type = "I" -> 0 [] type = "B" -> frames.Bref [] OTHER -> frames.P
      /\ frames'.P = IF type \in {"P", "I"} THEN frames.dts ELSE frames.P
      /\ frames'.Bref = IF type = "B" THEN frames.Bref ELSE frames.dts
  BY <1>1, VideoTypes
<1> HIDE DEF f
<1>4. /\ packets' \in SendPackets /\ packets'[n] = f /\ n \in DOMAIN packets'
      /\ \A i \in DOMAIN q : packets'[i] = q[i] /\ i < n /\ i \in DOMAIN packets' /\ i \in Nat
      /\ \A i \in DOMAIN packets' : i = n \/ i \in DOMAIN q
  BY <1>1, <1>3, SendAppended DEF f
<1>5. n \in Nat /\ \A i \in DOMAIN q : q[i].dts \in Nat /\ i <= Len(q) /\ ~(n < i)
  BY <1>1, SendKinds DEF SendPackets
<1> HIDE DEF n
<1>6. Sending!Ordered(packets)'
  BY <1>1, <1>2, <1>3, <1>4, <1>5 DEF Sending!Ordered, Sending!Past
<1>7. Sending!Past(packets)'
  BY <1>1, <1>2, <1>3, <1>4, <1>5 DEF Sending!Past
<1>8. Sending!AudioKept(packets)'
  BY <1>1, <1>2, <1>4 DEF Sending!AudioKept, Sending!IsAudio
<1>9. Sending!AudioFollows(packets)'
  <2> SUFFICES ASSUME NEW i \in DOMAIN packets', NEW t \in (packets'[i].dts + 1)..frames.dts
               PROVE  \E j \in DOMAIN packets' : i < j /\ Sending!IsAudio(packets'[j], t)
    BY <1>2 DEF Sending!AudioFollows, Sending!IsAudio
  <2>1. i \in DOMAIN q
    BY <1>2, <1>3, <1>4
  <2>2. PICK j \in DOMAIN q : i < j /\ Sending!IsAudio(q[j], t)
    BY <1>1, <1>2, <1>4, <2>1 DEF Sending!AudioFollows
  <2> QED
    BY <1>4, <2>2
<1>10. /\ type \in {"B", "Bref", "P", "I"} /\ (type \in {"B", "Bref"} => min = 0)
       /\ (type = "P" => min # 3)
  BY DEF Sending!Video, Sending!priority
<1>11. Sending!Led(packets)'
  <2>1. f.needs # 0 => /\ Sending!IsDelta(f)
                       /\ \/ \E p \in sent : Sending!Serves(p, type, f.needs)
                          \/ \E j \in DOMAIN q : Sending!Serves(q[j], type, f.needs)
    BY <1>1, <1>3, <1>10 DEF Sending!Refusing, Sending!Present, Sending!Serves, Sending!Referred,
                             Sending!IsDelta, Sending!HIGH, Sending!HIGHEST
  <2>2. \A i \in DOMAIN q : packets'[i].needs # 0 =>
          /\ Sending!IsDelta(packets'[i])
          /\ \/ \E p \in sent : Sending!Serves(p, packets'[i].type, packets'[i].needs)
             \/ \E j \in DOMAIN packets' : j < i /\ Sending!Serves(packets'[j], packets'[i].type, packets'[i].needs)
    BY <1>1, <1>4 DEF Sending!Led
  <2>3. packets'[n].needs # 0 =>
          /\ Sending!IsDelta(packets'[n])
          /\ \/ \E p \in sent : Sending!Serves(p, packets'[n].type, packets'[n].needs)
             \/ \E j \in DOMAIN packets' : j < n /\ Sending!Serves(packets'[j], packets'[n].type, packets'[n].needs)
    BY <1>3, <1>4, <2>1
  <2> QED
    BY <1>4, <2>2, <2>3 DEF Sending!Led, Sending!Serves, Sending!IsDelta, Sending!Referred
<1>12. Sending!Refusing(packets, min_priority)'
  <2>1. frames'.P # 0 => Sending!Present(q, "P", frames'.P) \/ Sending!Serves(f, "P", frames'.P)
    BY <1>1, <1>3, <1>10 DEF Sending!Refusing, Sending!Serves, Sending!Referred, Sending!HIGHEST
  <2>2. frames'.Bref # 0 => Sending!Present(q, "B", frames'.Bref) \/ Sending!Serves(f, "B", frames'.Bref)
    BY <1>1, <1>3, <1>10 DEF Sending!Refusing, Sending!Serves, Sending!Referred, Sending!HIGH
  <2>3. Sending!Present(q, "P", frames'.P) \/ Sending!Serves(f, "P", frames'.P)
          => Sending!Present(packets, "P", frames.P)'
    BY <1>4 DEF Sending!Present, Sending!Serves, Sending!Referred
  <2>4. Sending!Present(q, "B", frames'.Bref) \/ Sending!Serves(f, "B", frames'.Bref)
          => Sending!Present(packets, "B", frames.Bref)'
    BY <1>4 DEF Sending!Present, Sending!Serves, Sending!Referred
  <2> QED
    BY <2>1, <2>2, <2>3, <2>4 DEF Sending!Refusing
<1>13. Near(packets)'
  <2> SUFFICES ASSUME NEW i \in DOMAIN packets', NEW j \in DOMAIN packets', NEW k \in DOMAIN packets',
                      i < j, j < k, Sending!IsDelta(packets'[i]),
                      {packets'[j].type, packets'[k].type} \subseteq Sending!Video
               PROVE  packets'[j].dts - packets'[i].dts <= pframe_drop_threshold
    BY DEF Near, Sending!IsDelta, Sending!Video, Sending!priority
  <2>1. i \in DOMAIN q /\ j \in DOMAIN q
    BY <1>4, <1>5
  <2> QED
    BY <1>1, <1>4, <2>1 DEF Near, Settled
<1> QED
  BY <1>4, <1>6, <1>7, <1>8, <1>9, <1>11, <1>12, <1>13 DEF Queue, Sending!Inside, SendPackets,
     Sending!Packet, Sending!Video, Sending!priority

LEMMA VideoDataKeeps ==
  ASSUME Sending!IInv, Sending!VideoData
  PROVE  Sending!IInv'
<1>1. PICK type \in Sending!Video :
      /\ connected /\ frames.due = "video" /\ frames' = Sending!Encoded(type)
      /\ Sending!AddVideo(Sending!Frame(type)) /\ UNCHANGED <<connected, losses, sent>>
  BY DEF Sending!VideoData, Sending!Video
<1>2. /\ SendState /\ Sending!Decodable /\ Sending!AudioWhole /\ Sending!Served
      /\ Queue(packets, min_priority) /\ SendTypes /\ packets \in SendPackets
  BY <1>1, SendInvParts DEF SendState
<1> DEFINE f == Sending!Frame(type)
           c == Sending!Checked
<1>3. /\ f \in Sending!Packet /\ f.type = type /\ f.dts = frames.dts
      /\ frames'.first = frames.first
      /\ frames' \in [dts : Nat \ {0}, due : {"audio", "video"}, P : Nat, Bref : Nat,
                      first : Nat \ {0}]
  BY <1>1, <1>2, VideoTypes
<1>4. /\ c.min \in {0, 2, 3} /\ Queue(c.packets, c.min) /\ Len(c.packets) <= Len(packets)
      /\ Settled(c.packets) /\ c.packets \in SendPackets
  BY <1>1, <1>2, CheckedKeeps DEF SendState, Queue
<1>5. send_sem \in Nat /\ send_sem >= Len(packets)
  BY <1>1, <1>2 DEF SendState, Sending!Served
<1> HIDE DEF f
<1>6. Queue(packets, min_priority)' /\ Sending!Served' /\ SendState'
  <2>1. CASE Sending!priority[type] < c.min
    <3>1. packets' = c.packets /\ min_priority' = c.min /\ UNCHANGED <<last_dts, send_sem>>
      BY <1>1, <1>3, <2>1 DEF Sending!AddVideo, f
    <3> HIDE DEF c
    <3>2. Queue(packets, min_priority)'
      BY <1>1, <1>2, <1>4, <2>1, <3>1, VideoRefused
    <3>3. Sending!Served'
      BY <1>1, <1>2, <1>4, <1>5, <3>1 DEF Sending!Served, SendPackets
    <3>4. SendState'
      BY <1>1, <1>2, <1>3, <1>4, <3>1 DEF SendState, SendTypes, SendPackets, Sending!Packet, Sending!Video,
         Sending!priority
    <3> QED
      BY <3>2, <3>3, <3>4
  <2>2. CASE ~(Sending!priority[type] < c.min)
    <3>1. /\ packets' = Append(c.packets, f) /\ min_priority' = 0
          /\ last_dts' = frames.dts /\ send_sem' = send_sem + 1
      BY <1>1, <1>3, <2>2 DEF Sending!AddVideo, f
    <3> HIDE DEF c
    <3>2. Queue(packets, min_priority)'
      BY <1>1, <1>2, <1>4, <2>2, <3>1, VideoAdded DEF f
    <3>3. packets' \in SendPackets /\ Len(packets') = Len(c.packets) + 1
      BY <1>3, <1>4, <3>1 DEF SendPackets
    <3>4. Sending!Served'
      BY <1>1, <1>2, <1>4, <1>5, <3>1, <3>3 DEF Sending!Served, SendPackets
    <3>5. SendState'
      BY <1>1, <1>2, <1>3, <1>4, <3>1, <3>3 DEF SendState, SendTypes, SendPackets, Sending!Packet, Sending!Video,
         Sending!priority
    <3> QED
      BY <3>2, <3>4, <3>5
  <2> QED
    BY <2>1, <2>2
<1>7. Sending!Decodable' /\ Sending!AudioWhole'
  BY <1>1, <1>2, <1>3 DEF Sending!Decodable, Sending!AudioWhole
<1>8. Sending!Lost' /\ Near(packets)'
  BY <1>1, <1>6 DEF Sending!Lost, Queue
<1> QED
  BY <1>6, <1>7, <1>8, SendInvParts, PTL

LEMMA AudioDataKeeps ==
  ASSUME Sending!IInv, Sending!AudioData
  PROVE  Sending!IInv'
<1> DEFINE a == [type |-> "audio", dts |-> frames.dts, needs |-> 0]
           n == Len(packets) + 1
<1>1. /\ connected /\ frames.due = "audio" /\ frames' = [frames EXCEPT !.due = "video"]
      /\ packets' = Append(packets, a) /\ send_sem' = send_sem + 1
      /\ UNCHANGED <<min_priority, last_dts, connected, losses, sent>>
  BY DEF Sending!AudioData
<1>2. /\ SendState /\ Sending!Decodable /\ Sending!AudioWhole /\ Sending!Served
      /\ SendTypes /\ packets \in SendPackets /\ Near(packets)
      /\ Sending!Ordered(packets) /\ Sending!Past(packets) /\ Sending!AudioKept(packets)
      /\ Sending!AudioFollows(packets) /\ Sending!Led(packets)
      /\ Sending!Refusing(packets, min_priority)
  BY <1>1, SendInvParts DEF SendState, Queue, Sending!Inside
<1>3. /\ frames.dts \in Nat \ {0} /\ last_dts \in Nat /\ frames'.dts = frames.dts
      /\ frames'.due = "video" /\ frames'.first = frames.first /\ frames'.P = frames.P
      /\ frames'.Bref = frames.Bref /\ frames.first \in Nat
      /\ frames' \in [dts : Nat \ {0}, due : {"audio", "video"}, P : Nat, Bref : Nat,
                      first : Nat \ {0}]
      /\ Sending!LastAudio' = frames.dts /\ Sending!LastAudio = frames.dts - 1
  BY <1>1, <1>2 DEF SendTypes, Sending!LastAudio
<1>4. a \in Sending!Packet /\ a.type = "audio" /\ a.dts = frames.dts /\ a.needs = 0
  BY <1>3 DEF Sending!Packet
<1> HIDE DEF a
<1>5. /\ packets' \in SendPackets /\ packets'[n] = a /\ n \in DOMAIN packets' /\ Len(packets') = n
      /\ \A i \in DOMAIN packets : packets'[i] = packets[i] /\ i < n /\ i \in DOMAIN packets' /\ i \in Nat
      /\ \A i \in DOMAIN packets' : i = n \/ i \in DOMAIN packets
  BY <1>1, <1>2, <1>4, SendAppended
<1>6. /\ n \in Nat /\ n = Len(packets) + 1 /\ Len(packets) \in Nat
      /\ \A i \in DOMAIN packets : packets[i].dts \in Nat /\ i <= Len(packets) /\ ~(n < i)
  BY <1>2, SendKinds DEF SendPackets
<1> HIDE DEF n
<1>7. Sending!Ordered(packets)'
  <2>1. \A i \in DOMAIN packets : packets[i].dts < frames.dts
    BY <1>2, <1>3, <1>6 DEF Sending!Past
  <2> QED
    BY <1>2, <1>4, <1>5, <1>6, <2>1 DEF Sending!Ordered
<1>8. Sending!Past(packets)'
  BY <1>1, <1>2, <1>3, <1>4, <1>5, <1>6 DEF Sending!Past
<1>9. Sending!AudioKept(packets)'
  <2> SUFFICES ASSUME NEW t \in frames.first..frames.dts
               PROVE  \/ \E p \in sent : Sending!IsAudio(p, t)
                      \/ \E i \in DOMAIN packets' : Sending!IsAudio(packets'[i], t)
    BY <1>1, <1>3 DEF Sending!AudioKept, Sending!IsAudio
  <2>1. CASE t = frames.dts
    BY <1>4, <1>5, <2>1 DEF Sending!IsAudio
  <2>2. CASE t # frames.dts
    <3>1. t \in frames.first..Sending!LastAudio
      BY <1>3, <2>2
    <3> QED
      BY <1>2, <1>5, <3>1 DEF Sending!AudioKept
  <2> QED
    BY <2>1, <2>2
<1>10. Sending!AudioFollows(packets)'
  <2> SUFFICES ASSUME NEW i \in DOMAIN packets', NEW t \in (packets'[i].dts + 1)..frames.dts
               PROVE  \E j \in DOMAIN packets' : i < j /\ Sending!IsAudio(packets'[j], t)
    BY <1>3 DEF Sending!AudioFollows, Sending!IsAudio
  <2>1. i \in DOMAIN packets
    BY <1>3, <1>4, <1>5
  <2>2. CASE t = frames.dts
    BY <1>4, <1>5, <2>1, <2>2 DEF Sending!IsAudio
  <2>3. CASE t # frames.dts
    <3>1. t \in (packets[i].dts + 1)..Sending!LastAudio
      BY <1>3, <1>5, <1>6, <2>1, <2>3
    <3>2. PICK j \in DOMAIN packets : i < j /\ Sending!IsAudio(packets[j], t)
      BY <1>2, <2>1, <3>1 DEF Sending!AudioFollows
    <3> QED
      BY <1>5, <3>2
  <2> QED
    BY <2>2, <2>3
<1>11. Sending!Led(packets)'
  BY <1>1, <1>2, <1>4, <1>5 DEF Sending!Led, Sending!Serves, Sending!IsDelta, Sending!Referred
<1>12. Sending!Refusing(packets, min_priority)'
  BY <1>1, <1>2, <1>3, <1>5 DEF Sending!Refusing, Sending!Present, Sending!Serves,
                                Sending!Referred, Sending!HIGH, Sending!HIGHEST
<1>13. Near(packets)'
  <2> SUFFICES ASSUME NEW i \in DOMAIN packets', NEW j \in DOMAIN packets', NEW k \in DOMAIN packets',
                      i < j, j < k, Sending!IsDelta(packets'[i]),
                      {packets'[j].type, packets'[k].type} \subseteq Sending!Video
               PROVE  packets'[j].dts - packets'[i].dts <= pframe_drop_threshold
    BY DEF Near, Sending!IsDelta, Sending!Video, Sending!priority
  <2>1. "audio" \notin Sending!Video
    BY DEF Sending!Video, Sending!priority
  <2>2. i \in DOMAIN packets /\ j \in DOMAIN packets /\ k \in DOMAIN packets
    BY <1>4, <1>5, <1>6, <2>1
  <2> QED
    BY <1>2, <1>5, <2>2 DEF Near
<1>14. Queue(packets, min_priority)'
  BY <1>5, <1>7, <1>8, <1>9, <1>10, <1>11, <1>12, <1>13 DEF Queue, Sending!Inside, SendPackets,
     Sending!Packet, Sending!Video, Sending!priority
<1>15. Sending!Served' /\ Sending!Lost'
  BY <1>1, <1>2, <1>5, <1>6 DEF Sending!Served, Sending!Lost, SendState
<1>16. Sending!Decodable' /\ Sending!AudioWhole'
  BY <1>1, <1>2, <1>3 DEF Sending!Decodable, Sending!AudioWhole
<1>17. SendState'
  <2>1. SendTypes'
    BY <1>1, <1>2, <1>3 DEF SendTypes, Sending!Packet, Sending!Video, Sending!priority
  <2>2. (packets \in SendPackets)'
    BY <1>5 DEF SendPackets, Sending!Packet, Sending!Video, Sending!priority
  <2>3. (/\ min_priority \in {0, 2, 3} /\ send_sem \in Nat /\ losses \in Nat
         /\ connected \in BOOLEAN)'
    BY <1>1, <1>2 DEF SendState
  <2> QED
    BY <2>1, <2>2, <2>3 DEF SendState
<1> QED
  BY <1>13, <1>14, <1>15, <1>16, <1>17, SendInvParts, PTL

LEMMA SendKeeps ==
  ASSUME Sending!IInv, Sending!Send
  PROVE  Sending!IInv'
<1>1. /\ connected /\ send_sem > 0 /\ send_sem' = send_sem - 1
      /\ UNCHANGED <<min_priority, last_dts, connected, frames, losses>>
      /\ \/ packets = <<>> /\ UNCHANGED <<packets, sent>>
         \/ packets # <<>> /\ packets' = Tail(packets) /\ sent' = sent \cup {Head(packets)}
  BY DEF Sending!Send
<1>2. /\ SendState /\ Sending!Decodable /\ Sending!AudioWhole /\ Sending!Served
      /\ SendTypes /\ packets \in SendPackets /\ Near(packets)
      /\ Sending!Ordered(packets) /\ Sending!Past(packets) /\ Sending!AudioKept(packets)
      /\ Sending!AudioFollows(packets) /\ Sending!Led(packets)
      /\ Sending!Refusing(packets, min_priority)
  BY <1>1, SendInvParts DEF SendState, Queue, Sending!Inside
<1>3. CASE packets = <<>> /\ UNCHANGED <<packets, sent>>
  <2>1. SendState' /\ Sending!Served'
    BY <1>1, <1>2, <1>3 DEF SendState, SendTypes, SendPackets, Sending!Packet, Sending!Video,
       Sending!priority, Sending!Served
  <2>2. Sending!Decodable' /\ Sending!AudioWhole' /\ Sending!Lost' /\ Near(packets)'
    BY <1>1, <1>2, <1>3 DEF Sending!Decodable, Sending!AudioWhole, Sending!Lost, Near,
       Sending!IsDelta, Sending!Video, Sending!priority
  <2>3. Sending!Inside(packets, min_priority)'
    BY <1>1, <1>2, <1>3 DEF Sending!Inside, Sending!Ordered, Sending!Past, Sending!AudioKept,
       Sending!AudioFollows, Sending!Led, Sending!Refusing, Sending!Present, Sending!Serves,
       Sending!Referred, Sending!IsAudio, Sending!IsDelta, Sending!LastAudio, Sending!HIGH, Sending!HIGHEST
  <2>4. Queue(packets, min_priority)'
    BY <2>1, <2>2, <2>3 DEF Queue, SendState
  <2> QED
    BY <2>1, <2>2, <2>4, SendInvParts, PTL
<1>4. CASE packets # <<>> /\ packets' = Tail(packets) /\ sent' = sent \cup {Head(packets)}
  <2> DEFINE h == packets[1]
  <2>1. /\ Len(packets) \in Nat \ {0} /\ 1 \in DOMAIN packets /\ h \in Sending!Packet
        /\ sent' = sent \cup {h}
        /\ packets' \in SendPackets /\ Len(packets') = Len(packets) - 1
        /\ DOMAIN packets' = 1..(Len(packets) - 1) /\ DOMAIN packets = 1..Len(packets)
        /\ \A i \in DOMAIN packets' : packets'[i] = packets[i + 1]
    BY <1>2, <1>4 DEF SendPackets
  <2>2. /\ \A i \in DOMAIN packets' : i \in Nat /\ i + 1 \in DOMAIN packets /\ 1 < i + 1
        /\ \A i \in DOMAIN packets : i = 1 \/ (i - 1 \in DOMAIN packets' /\ packets'[i - 1] = packets[i])
    BY <2>1
  <2>3. /\ frames.dts \in Nat /\ last_dts \in Nat /\ Sending!LastAudio' = Sending!LastAudio
        /\ Sending!LastAudio \in Int /\ \A i \in DOMAIN packets : packets[i].dts \in Nat
        /\ frames.first \in Nat
    BY <1>1, <1>2, SendKinds DEF SendTypes, SendPackets, Sending!LastAudio
  <2> HIDE DEF h
  <2>4. Sending!Ordered(packets)' /\ Sending!Past(packets)' /\ Near(packets)'
    <3>1. Sending!Ordered(packets)'
      BY <1>2, <2>1, <2>2 DEF Sending!Ordered
    <3>2. Sending!Past(packets)'
      BY <1>1, <1>2, <2>1, <2>2, <2>3 DEF Sending!Past
    <3>3. ASSUME NEW i \in DOMAIN packets', NEW j \in DOMAIN packets', NEW k \in DOMAIN packets',
                 i < j, j < k, Sending!IsDelta(packets'[i]),
                 {packets'[j].type, packets'[k].type} \subseteq Sending!Video
          PROVE  packets'[j].dts - packets'[i].dts <= pframe_drop_threshold
      <4>1. /\ packets'[i] = packets[i + 1] /\ packets'[j] = packets[j + 1]
            /\ packets'[k] = packets[k + 1] /\ i + 1 < j + 1 /\ j + 1 < k + 1
            /\ {i + 1, j + 1, k + 1} \subseteq DOMAIN packets
        BY <2>1, <2>2, <3>3
      <4> QED
        BY <1>2, <3>3, <4>1 DEF Near
    <3>4. Near(packets)'
      BY <3>3 DEF Near, Sending!IsDelta, Sending!Video, Sending!priority
    <3> QED
      BY <3>1, <3>2, <3>4
  <2>5. Sending!AudioKept(packets)'
    <3> SUFFICES ASSUME NEW t \in frames.first..Sending!LastAudio
                 PROVE  \/ \E p \in sent' : Sending!IsAudio(p, t)
                        \/ \E i \in DOMAIN packets' : Sending!IsAudio(packets'[i], t)
      BY <1>1, <2>3 DEF Sending!AudioKept, Sending!IsAudio
    <3>1. CASE \E p \in sent : Sending!IsAudio(p, t)
      BY <2>1, <3>1
    <3>2. CASE \E i \in DOMAIN packets : Sending!IsAudio(packets[i], t)
      <4>1. PICK i \in DOMAIN packets : Sending!IsAudio(packets[i], t)
        BY <3>2
      <4>2. CASE i = 1
        BY <2>1, <4>1, <4>2 DEF h
      <4>3. CASE i # 1
        BY <2>2, <4>1, <4>3
      <4> QED
        BY <4>2, <4>3
    <3> QED
      BY <1>2, <3>1, <3>2 DEF Sending!AudioKept
  <2>6. Sending!AudioFollows(packets)'
    <3> SUFFICES ASSUME NEW i \in DOMAIN packets', NEW t \in (packets'[i].dts + 1)..Sending!LastAudio
                 PROVE  \E j \in DOMAIN packets' : i < j /\ Sending!IsAudio(packets'[j], t)
      BY <2>3 DEF Sending!AudioFollows, Sending!IsAudio
    <3>1. PICK j \in DOMAIN packets : i + 1 < j /\ Sending!IsAudio(packets[j], t)
      BY <1>2, <2>1, <2>2 DEF Sending!AudioFollows
    <3>2. j - 1 \in DOMAIN packets' /\ packets'[j - 1] = packets[j] /\ i < j - 1
      BY <2>1, <2>2, <3>1
    <3> QED
      BY <3>1, <3>2
  <2>7. Sending!Led(packets)'
    <3> SUFFICES ASSUME NEW i \in DOMAIN packets', packets'[i].needs # 0
                 PROVE  /\ Sending!IsDelta(packets'[i])
                        /\ \/ \E p \in sent' : Sending!Serves(p, packets'[i].type, packets'[i].needs)
                           \/ \E j \in DOMAIN packets' :
                                j < i /\ Sending!Serves(packets'[j], packets'[i].type, packets'[i].needs)
      BY DEF Sending!Led, Sending!Serves, Sending!IsDelta, Sending!Referred
    <3>1. /\ Sending!IsDelta(packets'[i])
          /\ \/ \E p \in sent : Sending!Serves(p, packets'[i].type, packets'[i].needs)
             \/ \E j \in DOMAIN packets :
                  j < i + 1 /\ Sending!Serves(packets[j], packets'[i].type, packets'[i].needs)
      BY <1>2, <2>1, <2>2 DEF Sending!Led
    <3>2. ASSUME NEW j \in DOMAIN packets, j < i + 1, j # 1
          PROVE  j - 1 \in DOMAIN packets' /\ packets'[j - 1] = packets[j] /\ j - 1 < i
      BY <2>1, <2>2, <3>2
    <3> QED
      BY <2>1, <3>1, <3>2 DEF h
  <2>8. Sending!Refusing(packets, min_priority)'
    <3>1. Sending!Present(packets, "P", frames.P) => Sending!Present(packets, "P", frames.P)'
      BY <1>1, <2>1, <2>2 DEF Sending!Present, Sending!Serves, Sending!Referred, h
    <3>2. Sending!Present(packets, "B", frames.Bref) => Sending!Present(packets, "B", frames.Bref)'
      BY <1>1, <2>1, <2>2 DEF Sending!Present, Sending!Serves, Sending!Referred, h
    <3> QED
      BY <1>1, <1>2, <3>1, <3>2 DEF Sending!Refusing, Sending!HIGH, Sending!HIGHEST
  <2>9. Sending!Decodable'
    <3>1. h.needs # 0 => \E q \in sent : q.type # "audio" /\ q.dts = h.needs
      BY <1>2, <2>1 DEF Sending!Led, Sending!Serves, Sending!Referred, h
    <3> QED
      BY <1>2, <2>1, <3>1 DEF Sending!Decodable
  <2>10. Sending!AudioWhole'
    <3>1. ASSUME h.type = "audio", NEW t \in frames.first..h.dts
          PROVE  \E q \in sent' : q.type = "audio" /\ q.dts = t
      <4>1. h.dts <= Sending!LastAudio /\ h.dts \in Nat
        BY <1>2, <2>1, <2>3, <3>1 DEF Sending!Past, h
      <4>2. t \in frames.first..Sending!LastAudio
        BY <2>3, <4>1
      <4>3. CASE \E p \in sent : Sending!IsAudio(p, t)
        BY <2>1, <4>3 DEF Sending!IsAudio
      <4>4. CASE \E i \in DOMAIN packets : Sending!IsAudio(packets[i], t)
        <5>1. PICK i \in DOMAIN packets : packets[i].type = "audio" /\ packets[i].dts = t
          BY <4>4 DEF Sending!IsAudio
        <5>2. CASE i = 1
          BY <2>1, <5>1, <5>2 DEF h
        <5>3. CASE 1 < i
          <6>1. h.dts < t
            BY <1>2, <2>1, <5>1, <5>3 DEF Sending!Ordered, h
          <6> QED
            BY <2>3, <4>1, <4>2, <6>1
        <5> QED
          BY <2>1, <5>2, <5>3
      <4> QED
        BY <1>2, <4>2, <4>3, <4>4 DEF Sending!AudioKept
    <3> QED
      BY <1>1, <1>2, <2>1, <3>1 DEF Sending!AudioWhole
  <2>11. SendState' /\ Sending!Served' /\ Sending!Lost'
    <3>1. send_sem \in Nat /\ send_sem >= Len(packets)
      BY <1>1, <1>2 DEF SendState, Sending!Served
    <3>2. Sending!Served' /\ Sending!Lost' /\ send_sem' \in Nat
      BY <1>1, <2>1, <3>1 DEF Sending!Served, Sending!Lost
    <3>3. sent' \in SUBSET Sending!Packet
      BY <1>2, <2>1 DEF SendTypes
    <3> QED
      BY <1>1, <1>2, <2>1, <3>2, <3>3 DEF SendState, SendTypes, SendPackets, Sending!Packet,
         Sending!Video, Sending!priority
  <2>12. Queue(packets, min_priority)'
    BY <2>1, <2>4, <2>5, <2>6, <2>7, <2>8 DEF Queue, Sending!Inside, SendPackets,
     Sending!Packet, Sending!Video, Sending!priority
  <2> QED
    BY <2>4, <2>9, <2>10, <2>11, <2>12, SendInvParts, PTL
<1> QED
  BY <1>1, <1>3, <1>4

LEMMA SendBreaksKeeps ==
  ASSUME Sending!IInv, Sending!SendFails
  PROVE  Sending!IInv'
<1>1. /\ connected /\ connected' = FALSE /\ losses' = losses + 1 /\ packets' = <<>>
      /\ UNCHANGED <<min_priority, last_dts, send_sem, frames, sent>>
  BY DEF Sending!SendFails
<1>2. SendState /\ Sending!Decodable /\ Sending!AudioWhole /\ last_dts < frames.dts
  BY <1>1, SendInvParts DEF Queue, Sending!Inside, Sending!Past
<1>3. SendState'
  <2>1. packets' \in SendPackets /\ losses' \in Nat /\ connected' \in BOOLEAN
    <3>1. packets' \in SendPackets
      BY <1>1 DEF SendPackets
    <3>2. losses' \in Nat
      BY <1>1, <1>2 DEF SendState
    <3>3. connected' \in BOOLEAN
      BY <1>1
    <3> QED
      BY <3>1, <3>2, <3>3
  <2> QED
    BY <1>1, <1>2, <2>1 DEF SendState, SendTypes, SendPackets, Sending!Packet, Sending!Video,
       Sending!priority
<1>4. Sending!Decodable' /\ Sending!AudioWhole'
  BY <1>1, <1>2 DEF Sending!Decodable, Sending!AudioWhole
<1>5. Sending!Served' /\ Sending!Lost' /\ Near(packets)'
  BY <1>1, <1>2 DEF Sending!Served, Sending!Lost, Near
<1>6. ~connected'
  BY <1>1
<1> QED
  BY <1>3, <1>4, <1>5, <1>6, SendInvParts, PTL

\* The queue of a connection that begins.
SendAnew ==
  /\ frames.dts \in Nat \ {0} /\ frames.first = frames.dts /\ frames.due = "audio"
  /\ frames.P = 0 /\ frames.Bref = 0 /\ packets = <<>> /\ last_dts < frames.dts

LEMMA SendFresh == SendAnew => Queue(packets, min_priority)
<1> SUFFICES ASSUME SendAnew PROVE Queue(packets, min_priority)
  OBVIOUS
<1> USE DEF SendAnew
<1>1. packets \in SendPackets /\ DOMAIN packets = {}
  BY DEF SendPackets
<1>2. Sending!Ordered(packets) /\ Sending!Past(packets) /\ Sending!AudioFollows(packets)
      /\ Sending!Led(packets) /\ Near(packets)
  BY <1>1 DEF Sending!Ordered, Sending!Past, Sending!AudioFollows, Sending!Led, Near
<1>3. Sending!AudioKept(packets)
  BY DEF Sending!AudioKept, Sending!LastAudio
<1>4. Sending!Refusing(packets, min_priority)
  BY DEF Sending!Refusing
<1> QED
  BY <1>1, <1>2, <1>3, <1>4 DEF Queue, Sending!Inside

LEMMA ConnectKeeps ==
  ASSUME Sending!IInv, Sending!Connect
  PROVE  Sending!IInv'
<1>1. /\ ~connected /\ connected' = TRUE /\ packets' = <<>> /\ min_priority' = 0 /\ send_sem' = 0
      /\ frames' = Sending!Fresh(frames.dts) /\ sent' = {} /\ UNCHANGED <<last_dts, losses>>
  BY DEF Sending!Connect
<1>2. SendState /\ last_dts < frames.dts
  BY <1>1, SendInvParts DEF Sending!Lost
<1>3. /\ frames.dts \in Nat \ {0} /\ frames'.dts = frames.dts /\ frames'.first = frames.dts
      /\ frames'.due = "audio" /\ frames'.P = 0 /\ frames'.Bref = 0
      /\ frames' \in [dts : Nat \ {0}, due : {"audio", "video"}, P : Nat, Bref : Nat,
                      first : Nat \ {0}]
  BY <1>1, <1>2 DEF SendState, SendTypes, Sending!Fresh
<1>4. packets' \in SendPackets /\ Len(packets') = 0
  BY <1>1 DEF SendPackets
<1>5. SendState'
  BY <1>1, <1>2, <1>3, <1>4 DEF SendState, SendTypes, SendPackets, Sending!Packet, Sending!Video,
     Sending!priority
<1>6. Queue(packets, min_priority)'
  <2>1. SendAnew'
    BY <1>1, <1>2, <1>3 DEF SendAnew
  <2> QED
    BY <2>1, SendFresh, PTL
<1>7. Sending!Decodable' /\ Sending!AudioWhole' /\ Sending!Served' /\ Sending!Lost'
  BY <1>1, <1>4 DEF Sending!Decodable, Sending!AudioWhole, Sending!Served, Sending!Lost
<1>8. Near(packets)'
  BY <1>6 DEF Queue
<1> QED
  BY <1>5, <1>6, <1>7, <1>8, SendInvParts, PTL

LEMMA SendingInit == Sending!Init => Sending!IInv
<1> SUFFICES ASSUME Sending!Init PROVE Sending!IInv
  OBVIOUS
<1>1. /\ packets = <<>> /\ min_priority = 0 /\ last_dts = 0 /\ send_sem = 0 /\ connected = TRUE
      /\ frames = Sending!Fresh(1) /\ losses = 0 /\ sent = {}
  BY DEF Sending!Init
<1>2. /\ frames.dts = 1 /\ frames.first = 1 /\ frames.due = "audio" /\ frames.P = 0
      /\ frames.Bref = 0
      /\ frames \in [dts : Nat \ {0}, due : {"audio", "video"}, P : Nat, Bref : Nat,
                     first : Nat \ {0}]
  BY <1>1 DEF Sending!Fresh
<1>3. packets \in SendPackets /\ Len(packets) = 0
  BY <1>1 DEF SendPackets
<1>4. SendState
  BY <1>1, <1>2, <1>3 DEF SendState, SendTypes
<1>5. Queue(packets, min_priority)
  BY <1>1, <1>2, SendFresh DEF SendAnew
<1>6. Sending!Decodable /\ Sending!AudioWhole /\ Sending!Served /\ Sending!Lost
  BY <1>1, <1>3 DEF Sending!Decodable, Sending!AudioWhole, Sending!Served, Sending!Lost
<1> QED
  BY <1>4, <1>5, <1>6, SendInvParts DEF Queue

LEMMA SendingStep == Sending!IInv /\ [Sending!Next]_sendVars => Sending!IInv'
<1> SUFFICES ASSUME Sending!IInv, [Sending!Next]_sendVars PROVE Sending!IInv'
  OBVIOUS
<1>1. CASE UNCHANGED sendVars
  BY <1>1 DEF sendVars, Sending!IInv, Sending!TypeOK, Sending!Lost, Sending!StreamUsable,
     Sending!Decodable, Sending!AudioWhole, Sending!Served, Sending!Bounded, Sending!Inside,
     Sending!Ordered, Sending!Past, Sending!AudioKept, Sending!AudioFollows, Sending!Led,
     Sending!Refusing, Sending!Present, Sending!Serves, Sending!Referred, Sending!IsAudio,
     Sending!IsDelta, Sending!LastAudio, Sending!HIGH, Sending!HIGHEST, Sending!Packet,
     Sending!Video, Sending!priority
<1> QED
  BY <1>1, VideoDataKeeps, AudioDataKeeps, SendKeeps, SendBreaksKeeps, ConnectKeeps
  DEF Sending!Next

\* What the queue of a stream holds while it is connected, and what was sent, for
\* any thresholds, any network, and any frames an encoder can make.
THEOREM SendingInvariant == Spec => []Sending!IInv
<1>1. Init => Sending!IInv
  BY SendingInit DEF Init
<1>2. Sending!IInv /\ [Next]_vars => Sending!IInv'
  <2>1. [Next]_vars => [Sending!Next]_sendVars
    BY DEF Next, Objects, Raw, Encoded, vars, packetVars, sendVars
  <2> QED
    BY <2>1, SendingStep
<1>3. QED
  BY <1>1, <1>2, PTL DEF Spec

\* See Parts: frames thrown away for a slow network leave a stream that can be
\* decoded, has all its audio, does not wait for nothing and does not fall behind.
THEOREM StreamUsableHolds == Spec => []StreamUsable
<1>1. Sending!IInv => StreamUsable
  BY DEF Sending!IInv, StreamUsable
<1>2. QED
  BY <1>1, SendingInvariant, PTL
=============================================================================
