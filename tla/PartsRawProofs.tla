--------------------------- MODULE PartsRawProofs ---------------------------
(***************************************************************************)
(* Safety of the machines that make raw video and audio, as parts of       *)
(* Parts: VideoPipeline, for every number of textures, AsyncFrames, for    *)
(* any number of frames, and AudioBuffering, for any sources and ticks.    *)
(***************************************************************************)
EXTENDS Parts, FiniteSetTheorems, TLAPS

----------------------------------------------------------------------------
(* The pipeline of textures.                                               *)

\* Before the texture that comes next is the current one, before the current one
\* another.
LEMMA TexturesCycle ==
  ASSUME NEW c \in 0..(NUM_TEXTURES - 1)
  PROVE  /\ (c + 1) % NUM_TEXTURES \in 0..(NUM_TEXTURES - 1)
         /\ (((c + 1) % NUM_TEXTURES) + NUM_TEXTURES - 1) % NUM_TEXTURES = c
         /\ (c + NUM_TEXTURES - 1) % NUM_TEXTURES \in 0..(NUM_TEXTURES - 1)
         /\ (c + NUM_TEXTURES - 1) % NUM_TEXTURES # c
<1> USE TexturesAssumption
<1>1. \A d \in 0..(NUM_TEXTURES - 1) :
        (d + 1) % NUM_TEXTURES = IF d = NUM_TEXTURES - 1 THEN 0 ELSE d + 1
  OBVIOUS
<1>2. \A d \in 0..(NUM_TEXTURES - 1) :
        (d + NUM_TEXTURES - 1) % NUM_TEXTURES = IF d = 0 THEN NUM_TEXTURES - 1 ELSE d - 1
  OBVIOUS
<1>3. (c + 1) % NUM_TEXTURES \in 0..(NUM_TEXTURES - 1)
  BY <1>1
<1>4. QED
  BY <1>1, <1>2, <1>3

LEMMA RenderingInit == Rendering!Init => Rendering!IInv
<1> SUFFICES ASSUME Rendering!Init PROVE Rendering!IInv
  OBVIOUS
<1> USE TexturesAssumption DEF Rendering!Init, Rendering!None, Rendering!Nothing, Rendering!Empty
<1>1. Rendering!TypeOK
  BY DEF Rendering!TypeOK, Rendering!Info
<1>2. Rendering!Times
  BY DEF Rendering!Times, Rendering!StartOf
<1>3. Rendering!FramesInStep
  BY DEF Rendering!FramesInStep
<1>4. Rendering!Session(1)
  BY DEF Rendering!Session, Rendering!Pipeline, Rendering!Holds, Rendering!Waiting,
         Rendering!Coming, Rendering!Lag
<1>5. QED
  BY <1>1, <1>2, <1>3, <1>4 DEF Rendering!IInv

\* One step of the pipeline: the current texture takes what the texture before
\* has of the step before.
LEMMA PassHolds ==
  ASSUME Rendering!TypeOK, Rendering!OutputFrame,
         NEW from, NEW to, NEW k \in Nat, NEW s \in 1..tick,
         Rendering!Holds(from, k, s), Rendering!Holds(to, k + 1, s)
  PROVE  /\ Rendering!Pass(from, to) \in [0..(NUM_TEXTURES - 1) -> Nat]
         /\ tick - k >= s => Rendering!Pass(from, to)[cur_texture] = tick - k
         /\ tick - k < s =>
              \A i \in 0..(NUM_TEXTURES - 1) : Rendering!Pass(from, to)[i] = Rendering!None
         /\ Rendering!Pass(from, to)[Rendering!prev_texture] = to[Rendering!prev_texture]
<1> USE DEF Rendering!Holds, Rendering!Coming, Rendering!None
<1>1. cur_texture \in 0..(NUM_TEXTURES - 1) /\ tick \in Nat /\ render_at = "render"
  BY DEF Rendering!TypeOK, Rendering!OutputFrame
<1>2. /\ Rendering!prev_texture \in 0..(NUM_TEXTURES - 1)
      /\ Rendering!prev_texture # cur_texture
  BY <1>1, TexturesCycle DEF Rendering!prev_texture
<1>3. CASE tick - k >= s
  <2>1. from[Rendering!prev_texture] = tick - k /\ tick - k \in Nat \ {0}
    BY <1>1, <1>3
  <2>2. Rendering!Pass(from, to) = [to EXCEPT ![cur_texture] = tick - k]
    BY <2>1 DEF Rendering!Pass
  <2>3. QED
    BY <1>1, <1>2, <1>3, <2>1, <2>2
<1>4. CASE tick - k < s
  <2>1. Rendering!Pass(from, to) = to
    BY <1>1, <1>2, <1>4 DEF Rendering!Pass
  <2>2. QED
    BY <1>1, <1>4, <2>1
<1>5. QED
  BY <1>1, <1>3, <1>4

\* The textures after a tick, and the picture that is downloaded.
LEMMA PipelineMoves ==
  ASSUME Rendering!TypeOK, Rendering!OutputFrame, NEW s \in 1..tick, Rendering!Pipeline(s)
  PROVE  /\ Rendering!Pipeline(s)'
         /\ DOMAIN textures' = {"rendered", "output", "converted", "copied"}
         /\ textures'.copied[Rendering!prev_texture] =
              IF tick - Rendering!Lag >= s THEN tick - Rendering!Lag ELSE Rendering!None
<1> USE DEF Rendering!Coming, Rendering!None
<1>1. /\ cur_texture \in 0..(NUM_TEXTURES - 1) /\ tick \in Nat \ {0} /\ gpu_conversion \in BOOLEAN
      /\ render_at = "render" /\ render_at' = "sleep" /\ tick' = tick /\ gpu_conversion' = gpu_conversion
      /\ cur_texture' = (cur_texture + 1) % NUM_TEXTURES
      /\ textures' = Rendering!render_video
  BY DEF Rendering!TypeOK, Rendering!OutputFrame
<1>2. Rendering!prev_texture' = cur_texture
  BY <1>1, TexturesCycle DEF Rendering!prev_texture
<1>3. Rendering!prev_texture \in 0..(NUM_TEXTURES - 1)
  BY <1>1, TexturesCycle DEF Rendering!prev_texture
<1>4. /\ Rendering!Holds(textures.rendered, 1, s) /\ Rendering!Holds(textures.output, 2, s)
      /\ gpu_conversion => Rendering!Holds(textures.converted, 3, s)
      /\ Rendering!Holds(textures.copied, Rendering!Lag, s)
  BY DEF Rendering!Pipeline
<1>5. /\ textures'.rendered = [textures.rendered EXCEPT ![cur_texture] = tick]
      /\ textures'.output = Rendering!Pass(textures.rendered, textures.output)
      /\ gpu_conversion => textures'.converted = Rendering!Pass(textures.output, textures.converted)
      /\ gpu_conversion => textures'.copied = Rendering!Pass(textures.converted, textures.copied)
      /\ ~gpu_conversion => textures'.copied = Rendering!Pass(textures.output, textures.copied)
      /\ DOMAIN textures' = {"rendered", "output", "converted", "copied"}
  BY <1>1 DEF Rendering!render_video
<1>6. /\ textures'.rendered \in [0..(NUM_TEXTURES - 1) -> Nat]
      /\ textures'.rendered[cur_texture] = tick
  BY <1>1, <1>4, <1>5 DEF Rendering!Holds
<1>7. /\ textures'.output \in [0..(NUM_TEXTURES - 1) -> Nat]
      /\ tick - 1 >= s => textures'.output[cur_texture] = tick - 1
      /\ tick - 1 < s => \A i \in 0..(NUM_TEXTURES - 1) : textures'.output[i] = Rendering!None
  BY <1>1, <1>4, <1>5, PassHolds
<1>8. gpu_conversion =>
      /\ textures'.converted \in [0..(NUM_TEXTURES - 1) -> Nat]
      /\ tick - 2 >= s => textures'.converted[cur_texture] = tick - 2
      /\ tick - 2 < s => \A i \in 0..(NUM_TEXTURES - 1) : textures'.converted[i] = Rendering!None
  <2>1. CASE gpu_conversion
    <3>1. Rendering!Holds(textures.output, 2, s) /\ Rendering!Holds(textures.converted, 2 + 1, s)
      BY <1>4, <2>1
    <3>2. QED
      BY <1>1, <1>5, <2>1, <3>1, PassHolds
  <2>2. QED
    BY <2>1
<1>9. /\ textures'.copied \in [0..(NUM_TEXTURES - 1) -> Nat]
      /\ tick + 1 - Rendering!Lag >= s => textures'.copied[cur_texture] = tick + 1 - Rendering!Lag
      /\ tick + 1 - Rendering!Lag < s =>
           \A i \in 0..(NUM_TEXTURES - 1) : textures'.copied[i] = Rendering!None
      /\ textures'.copied[Rendering!prev_texture] = textures.copied[Rendering!prev_texture]
  <2>1. CASE gpu_conversion
    <3>1. Rendering!Holds(textures.converted, 3, s) /\ Rendering!Holds(textures.copied, 3 + 1, s)
      BY <1>4, <2>1 DEF Rendering!Lag
    <3>2. QED
      BY <1>1, <1>5, <2>1, <3>1, PassHolds DEF Rendering!Lag
  <2>2. CASE ~gpu_conversion
    <3>1. Rendering!Holds(textures.output, 2, s) /\ Rendering!Holds(textures.copied, 2 + 1, s)
      BY <1>4, <2>2 DEF Rendering!Lag
    <3>2. QED
      BY <1>1, <1>5, <2>2, <3>1, PassHolds DEF Rendering!Lag
  <2>3. QED
    BY <2>1, <2>2
<1>10. Rendering!Coming' = tick + 1 /\ Rendering!Lag' = Rendering!Lag
  BY <1>1 DEF Rendering!Lag
<1>11. Rendering!Holds(textures.rendered, 1, s)'
  BY <1>1, <1>2, <1>6, <1>10 DEF Rendering!Holds
<1>12. Rendering!Holds(textures.output, 2, s)'
  BY <1>1, <1>2, <1>7, <1>10 DEF Rendering!Holds
<1>13. gpu_conversion => Rendering!Holds(textures.converted, 3, s)'
  BY <1>1, <1>2, <1>8, <1>10 DEF Rendering!Holds
<1>14. Rendering!Holds(textures.copied, Rendering!Lag, s)'
  BY <1>1, <1>2, <1>9, <1>10 DEF Rendering!Holds, Rendering!Lag
<1>15. Rendering!Pipeline(s)'
  BY <1>1, <1>11, <1>12, <1>13, <1>14 DEF Rendering!Pipeline
<1>16. QED
  BY <1>1, <1>3, <1>4, <1>5, <1>9, <1>15 DEF Rendering!Holds, Rendering!Lag

\* A tick: the frame that is put out takes the time that has waited longest,
\* which is that of its picture but for the pictures that were lost.
LEMMA RenderingOutputFrame ==
  ASSUME Rendering!IInv, Rendering!OutputFrame
  PROVE  Rendering!IInv'
<1> USE TexturesAssumption DEF Rendering!None
<1>1. PICK s \in 1..tick : Rendering!Session(s)
  BY DEF Rendering!IInv
<1> DEFINE n == Len(vframe_info_buffer)
           pic == textures'.copied[Rendering!prev_texture]
<1>2. /\ Rendering!TypeOK /\ Rendering!Times /\ Rendering!FramesInStep
      /\ Rendering!Pipeline(s) /\ Rendering!Waiting(s)
  BY <1>1 DEF Rendering!IInv, Rendering!Session
<1>3. /\ Rendering!Pipeline(s)'
      /\ DOMAIN textures' = {"rendered", "output", "converted", "copied"}
      /\ pic = IF tick - Rendering!Lag >= s THEN tick - Rendering!Lag ELSE 0
  BY <1>2, PipelineMoves
<1>4. /\ render_at = "render" /\ render_at' = "sleep"
      /\ UNCHANGED <<gpu_conversion, video_time, tick>>
      /\ cur_texture' \in 0..(NUM_TEXTURES - 1)
      /\ Rendering!Download(pic)
  BY <1>2, TexturesCycle DEF Rendering!OutputFrame, Rendering!TypeOK
<1>5. /\ tick \in Nat \ {0} /\ failed \in Nat /\ s \in Nat \ {0} /\ video_time \in Nat
      /\ n \in Nat /\ Rendering!Lag \in Nat
      /\ shown.next \in Nat
      /\ vframe_info_buffer \in Seq(Rendering!Info)
  BY <1>2 DEF Rendering!TypeOK, Rendering!Lag
<1>6. n = tick - s + failed - (IF tick - Rendering!Lag >= s THEN tick - Rendering!Lag - s ELSE 0)
  BY <1>2, <1>4 DEF Rendering!Waiting, Rendering!Coming
<1>7. CASE pic # 0 /\ Rendering!Show(pic) /\ UNCHANGED failed
  <2> DEFINE info == vframe_info_buffer[1]
  <2>1. /\ tick - Rendering!Lag >= s /\ pic = tick - Rendering!Lag /\ n = Rendering!Lag + failed
        /\ n > 0
    BY <1>3, <1>5, <1>6, <1>7 DEF Rendering!Lag
  <2>2. /\ info \in Rendering!Info /\ Head(vframe_info_buffer) = info
        /\ info.tick = tick - n /\ info.timestamp = shown.next
        /\ info.timestamp + info.count = Rendering!StartOf(2)
    BY <1>2, <1>5, <2>1 DEF Rendering!Times, Rendering!StartOf
  <2>3. /\ shown' = [pic |-> pic, tick |-> info.tick, timestamp |-> info.timestamp,
                     due |-> shown.next, next |-> info.timestamp + info.count, failed |-> failed]
        /\ vframe_info_buffer' = Tail(vframe_info_buffer)
    BY <1>7, <2>2 DEF Rendering!Show
  <2>4. /\ vframe_info_buffer' \in Seq(Rendering!Info) /\ Len(vframe_info_buffer') = n - 1
        /\ \A i \in 1..(n - 1) : vframe_info_buffer'[i] = vframe_info_buffer[i + 1]
    BY <1>5, <2>1, <2>3
  <2>5. Rendering!TypeOK'
    <3>1. pic \in Nat /\ {info.tick, info.timestamp, info.count} \subseteq Nat
      BY <1>5, <2>1, <2>2 DEF Rendering!Info
    <3>2. shown' \in [pic : Nat, tick : Nat, timestamp : Nat, due : Nat, next : Nat, failed : Nat]
      BY <1>5, <2>3, <3>1
    <3>3. QED
      BY <1>2, <1>3, <1>4, <1>7, <2>4, <3>2 DEF Rendering!TypeOK
  <2>6. \A i \in 1..n : Rendering!StartOf(i)' = Rendering!StartOf(i + 1)
    BY <1>4, <1>5, <2>4 DEF Rendering!StartOf
  <2>7. Rendering!Times'
    <3>1. shown'.next = Rendering!StartOf(1)'
      BY <2>1, <2>2, <2>3, <2>6
    <3>2. ASSUME NEW i \in 1..(n - 1)
          PROVE  /\ vframe_info_buffer'[i].tick = tick + i - (n - 1) - 1
                 /\ vframe_info_buffer'[i].timestamp + vframe_info_buffer'[i].count
                      = Rendering!StartOf(i + 1)'
      <4>1. i + 1 \in 1..n
        BY <1>5
      <4>2. /\ vframe_info_buffer[i + 1].tick = tick + (i + 1) - n - 1
            /\ vframe_info_buffer[i + 1].timestamp + vframe_info_buffer[i + 1].count
                 = Rendering!StartOf(i + 1 + 1)
        BY <1>2, <4>1 DEF Rendering!Times
      <4>3. QED
        BY <1>5, <2>4, <2>6, <4>1, <4>2
    <3>3. QED
      BY <1>4, <2>4, <3>1, <3>2 DEF Rendering!Times
  <2>8. Rendering!FramesInStep'
    BY <1>5, <2>1, <2>2, <2>3 DEF Rendering!FramesInStep
  <2>9. Rendering!Waiting(s)'
    BY <1>4, <1>5, <1>7, <2>1, <2>4 DEF Rendering!Waiting, Rendering!Coming, Rendering!Lag
  <2>10. QED
    BY <1>3, <1>4, <2>5, <2>7, <2>8, <2>9 DEF Rendering!IInv, Rendering!Session
<1>8. CASE pic # 0 /\ failed' = failed + 1 /\ UNCHANGED <<vframe_info_buffer, shown>>
  <2>1. tick - Rendering!Lag >= s
    BY <1>3, <1>8
  <2>2. Rendering!TypeOK'
    BY <1>2, <1>3, <1>4, <1>8 DEF Rendering!TypeOK
  <2>3. Rendering!Times' /\ Rendering!FramesInStep'
    BY <1>2, <1>4, <1>8 DEF Rendering!Times, Rendering!StartOf, Rendering!FramesInStep
  <2>4. Rendering!Waiting(s)'
    <3>1. Rendering!Coming' = tick + 1 /\ Rendering!Lag' = Rendering!Lag
      BY <1>4 DEF Rendering!Coming, Rendering!Lag
    <3>2. Len(vframe_info_buffer') = tick - s + failed' - (tick + 1 - Rendering!Lag - s)
      BY <1>5, <1>6, <1>8, <2>1
    <3>3. QED
      BY <1>4, <1>5, <2>1, <3>1, <3>2 DEF Rendering!Waiting
  <2>5. QED
    BY <1>3, <1>4, <2>2, <2>3, <2>4 DEF Rendering!IInv, Rendering!Session
<1>9. CASE pic = 0 /\ UNCHANGED <<vframe_info_buffer, shown, failed>>
  <2>1. tick - Rendering!Lag < s
    BY <1>3, <1>5, <1>9
  <2>2. Rendering!TypeOK'
    BY <1>2, <1>3, <1>4, <1>9 DEF Rendering!TypeOK
  <2>3. Rendering!Times' /\ Rendering!FramesInStep'
    BY <1>2, <1>4, <1>9 DEF Rendering!Times, Rendering!StartOf, Rendering!FramesInStep
  <2>4. Rendering!Waiting(s)'
    BY <1>4, <1>5, <1>6, <1>9, <2>1 DEF Rendering!Waiting, Rendering!Coming, Rendering!Lag
  <2>5. QED
    BY <1>3, <1>4, <2>2, <2>3, <2>4 DEF Rendering!IInv, Rendering!Session
<1>10. QED
  BY <1>4, <1>7, <1>8, <1>9 DEF Rendering!Download

\* The thread sleeps: the time of the tick joins those that wait.
LEMMA RenderingVideoSleep ==
  ASSUME Rendering!IInv, Rendering!VideoSleep
  PROVE  Rendering!IInv'
<1> USE TexturesAssumption DEF Rendering!None
<1>1. PICK s \in 1..tick : Rendering!Session(s)
  BY DEF Rendering!IInv
<1> DEFINE n == Len(vframe_info_buffer)
<1>2. PICK count \in 1..MaxCount :
        /\ vframe_info_buffer' = Append(vframe_info_buffer,
             [timestamp |-> video_time, count |-> count, tick |-> tick])
        /\ video_time' = video_time + count
  BY DEF Rendering!VideoSleep
<1>3. /\ render_at = "sleep" /\ render_at' = "render" /\ tick' = tick + 1
      /\ UNCHANGED <<gpu_conversion, cur_texture, textures, failed, shown>>
  BY DEF Rendering!VideoSleep
<1>4. /\ Rendering!TypeOK /\ Rendering!Times /\ Rendering!FramesInStep
      /\ Rendering!Pipeline(s) /\ Rendering!Waiting(s)
  BY <1>1 DEF Rendering!IInv, Rendering!Session
<1>5. /\ tick \in Nat \ {0} /\ failed \in Nat /\ video_time \in Nat /\ count \in Nat /\ n \in Nat
      /\ s \in Nat /\ vframe_info_buffer \in Seq(Rendering!Info)
  BY <1>4 DEF Rendering!TypeOK
<1>6. /\ vframe_info_buffer' \in Seq(Rendering!Info) /\ Len(vframe_info_buffer') = n + 1
      /\ \A i \in 1..n : vframe_info_buffer'[i] = vframe_info_buffer[i]
      /\ vframe_info_buffer'[n + 1] = [timestamp |-> video_time, count |-> count, tick |-> tick]
  BY <1>2, <1>5 DEF Rendering!Info
<1>7. Rendering!TypeOK'
  BY <1>2, <1>3, <1>4, <1>5, <1>6 DEF Rendering!TypeOK
<1>8. \A i \in 1..(n + 1) : Rendering!StartOf(i)' = Rendering!StartOf(i)
  BY <1>2, <1>5, <1>6 DEF Rendering!StartOf
<1>9. Rendering!Times'
  <2>1. shown'.next = Rendering!StartOf(1)'
    BY <1>3, <1>4, <1>5, <1>8 DEF Rendering!Times
  <2>2. ASSUME NEW i \in 1..(n + 1)
        PROVE  /\ vframe_info_buffer'[i].tick = (tick + 1) + i - (n + 1) - 1
               /\ vframe_info_buffer'[i].timestamp + vframe_info_buffer'[i].count
                    = Rendering!StartOf(i + 1)'
    <3>1. CASE i \in 1..n
      <4>1. /\ vframe_info_buffer[i].tick = tick + i - n - 1
            /\ vframe_info_buffer[i].timestamp + vframe_info_buffer[i].count = Rendering!StartOf(i + 1)
        BY <1>4, <3>1 DEF Rendering!Times
      <4>2. i + 1 \in 1..(n + 1) /\ vframe_info_buffer'[i] = vframe_info_buffer[i]
        BY <1>5, <1>6, <3>1
      <4>3. Rendering!StartOf(i + 1)' = Rendering!StartOf(i + 1)
        BY <1>8, <4>2
      <4>4. tick + i - n - 1 = (tick + 1) + i - (n + 1) - 1
        BY <1>5
      <4>5. vframe_info_buffer'[i].tick = (tick + 1) + i - (n + 1) - 1
        BY <4>1, <4>2, <4>4
      <4>6. vframe_info_buffer'[i].timestamp + vframe_info_buffer'[i].count = Rendering!StartOf(i + 1)'
        BY <4>1, <4>2, <4>3
      <4>7. QED
        BY <4>5, <4>6
    <3>2. CASE i = n + 1
      <4>1. (tick + 1) + i - (n + 1) - 1 = tick /\ i + 1 = n + 2
        BY <1>5, <3>2
      <4>2. vframe_info_buffer'[i] = [timestamp |-> video_time, count |-> count, tick |-> tick]
        BY <1>6, <3>2
      <4>3. Rendering!StartOf(i + 1)' = video_time + count
        BY <1>2, <1>5, <1>6, <3>2 DEF Rendering!StartOf
      <4>4. QED
        BY <4>1, <4>2, <4>3
    <3>3. QED
      BY <1>5, <3>1, <3>2
  <2>3. QED
    BY <1>3, <1>6, <2>1, <2>2 DEF Rendering!Times
<1>10. Rendering!FramesInStep'
  BY <1>3, <1>4 DEF Rendering!FramesInStep
<1>11. /\ Rendering!Coming' = Rendering!Coming /\ Rendering!Lag' = Rendering!Lag
       /\ Rendering!Coming \in Int /\ Rendering!Lag \in Int
  BY <1>3, <1>5 DEF Rendering!Coming, Rendering!Lag
<1>12. Rendering!Pipeline(s)'
  BY <1>3, <1>4, <1>11 DEF Rendering!Pipeline, Rendering!Holds, Rendering!prev_texture
<1>13. Rendering!Waiting(s)'
  <2>1. n = tick - s + failed - (IF Rendering!Coming - Rendering!Lag >= s
                                 THEN Rendering!Coming - Rendering!Lag - s ELSE 0)
    BY <1>4 DEF Rendering!Waiting
  <2>2. n + 1 = tick + 1 - s + failed - (IF Rendering!Coming - Rendering!Lag >= s
                                         THEN Rendering!Coming - Rendering!Lag - s ELSE 0)
    BY <1>5, <1>11, <2>1
  <2>3. QED
    BY <1>3, <1>5, <1>6, <1>11, <2>2 DEF Rendering!Waiting
<1>14. s \in 1..tick'
  BY <1>3, <1>5
<1>15. QED
  BY <1>7, <1>9, <1>10, <1>12, <1>13, <1>14 DEF Rendering!IInv, Rendering!Session

\* A reset begins another session, with nothing left of the one before.
LEMMA RenderingResetVideo ==
  ASSUME Rendering!IInv, Rendering!ResetVideo
  PROVE  Rendering!IInv'
<1> USE TexturesAssumption DEF Rendering!IInv, Rendering!ResetVideo, Rendering!None,
                               Rendering!Nothing, Rendering!Empty
<1>1. Rendering!TypeOK'
  BY DEF Rendering!TypeOK, Rendering!Info
<1>2. Rendering!Times'
  BY DEF Rendering!Times, Rendering!StartOf
<1>3. Rendering!FramesInStep'
  BY DEF Rendering!FramesInStep
<1>4. tick' = tick /\ tick \in 1..tick /\ tick \in Nat
  BY DEF Rendering!TypeOK
<1>5. Rendering!Coming' = tick /\ Rendering!Lag' \in {3, 4}
  BY <1>4 DEF Rendering!Coming, Rendering!Lag
<1>6. Rendering!Waiting(tick)'
  BY <1>4, <1>5 DEF Rendering!Waiting
<1>7. Rendering!Pipeline(tick)'
  <2>1. \A t \in {"rendered", "output", "converted", "copied"} :
          textures'[t] = [i \in 0..(NUM_TEXTURES - 1) |-> 0]
    OBVIOUS
  <2>2. \A k \in {1, 2, 3, 4} : Rendering!Coming' - k < tick
    BY <1>4, <1>5
  <2>3. \A t \in {"rendered", "output", "converted", "copied"} :
          /\ textures'[t] \in [0..(NUM_TEXTURES - 1) -> Nat]
          /\ \A i \in 0..(NUM_TEXTURES - 1) : textures'[t][i] = 0
    BY <2>1
  <2>4. \A t \in {"rendered", "output", "converted", "copied"}, k \in {1, 2, 3, 4} :
          /\ textures'[t] \in [0..(NUM_TEXTURES - 1) -> Nat]
          /\ ~(Rendering!Coming' - k >= tick)
          /\ \A i \in 0..(NUM_TEXTURES - 1) : textures'[t][i] = 0
    BY <1>4, <1>5, <2>2, <2>3
  <2>5. /\ Rendering!Holds(textures.rendered, 1, tick)' /\ Rendering!Holds(textures.output, 2, tick)'
        /\ Rendering!Holds(textures.converted, 3, tick)'
        /\ Rendering!Holds(textures.copied, Rendering!Lag, tick)'
    BY <1>4, <1>5, <2>4 DEF Rendering!Holds
  <2>6. QED
    BY <2>5 DEF Rendering!Pipeline
<1>8. QED
  BY <1>1, <1>2, <1>3, <1>4, <1>6, <1>7 DEF Rendering!Session

LEMMA RenderingStep ==
  ASSUME Rendering!IInv, [Rendering!Next]_renderVars
  PROVE  Rendering!IInv'
<1>1. CASE UNCHANGED renderVars
  <2> USE <1>1 DEF renderVars
  <2>1. Rendering!TypeOK' /\ Rendering!Times' /\ Rendering!FramesInStep'
    BY DEF Rendering!IInv, Rendering!TypeOK, Rendering!Times, Rendering!StartOf, Rendering!FramesInStep
  <2>2. \A s : Rendering!Session(s) => Rendering!Session(s)'
    BY DEF Rendering!Session, Rendering!Pipeline, Rendering!Holds, Rendering!Waiting,
           Rendering!Coming, Rendering!Lag, Rendering!prev_texture
  <2>3. QED
    BY <2>1, <2>2 DEF Rendering!IInv
<1>2. QED
  BY <1>1, RenderingOutputFrame, RenderingVideoSleep, RenderingResetVideo DEF Rendering!Next

THEOREM RenderingInvariant == Spec => []Rendering!IInv
<1>1. Init => Rendering!IInv
  BY RenderingInit DEF Init
<1>2. Rendering!IInv /\ [Next]_vars => Rendering!IInv'
  <2>1. [Next]_vars => [Rendering!Next]_renderVars
    BY DEF Next, Objects, Raw, Encoded, vars, rawVars, renderVars
  <2>2. QED
    BY <2>1, RenderingStep
<1>3. QED
  BY <1>1, <1>2, PTL DEF Spec

\* Frames and their times stay in step through the pipeline of textures, late
\* ticks, lost pictures and resets: output_frame and video_sleep of obs-video.c.
THEOREM FramesInStepHolds == Spec => []FramesInStep
<1>1. Rendering!IInv => FramesInStep
  BY DEF Rendering!IInv, FramesInStep
<1>2. QED
  BY <1>1, RenderingInvariant, PTL

----------------------------------------------------------------------------
(* Asynchronous frames.                                                    *)

\* Among natural numbers there is a least one.
LEMMA Least ==
  ASSUME NEW T, T \subseteq Nat, T # {}
  PROVE  \E n \in T : \A m \in T : n <= m
<1> DEFINE R == OpToRel(<, Nat)
<1>1. IsWellFoundedOn(R, Nat)
  BY NatLessThanWellFounded
<1>2. \A x, y \in Nat : x < y => <<x, y>> \in R
  BY DEF OpToRel
<1> HIDE DEF R
<1>3. PICK x \in T : \A y \in T : ~(<<y, x>> \in R)
  BY <1>1, WFMin
<1>4. ASSUME NEW m \in T PROVE x <= m
  <2>1. x \in Nat /\ m \in Nat
    OBVIOUS
  <2>2. ~(m < x)
    BY <1>2, <1>3, <2>1
  <2>3. QED
    BY <2>1, <2>2
<1>5. QED
  BY <1>4

\* What is in a part of a sequence, and that nothing is in it twice.
LEMMA SubElements ==
  ASSUME NEW S, NEW s \in Seq(S), NEW a \in 1..(Len(s) + 1), NEW b \in 0..Len(s)
  PROVE  /\ SubSeq(s, a, b) \in Seq(S)
         /\ Async!Elements(SubSeq(s, a, b)) = {s[k] : k \in a..b}
         /\ Async!Distinct(s) => Async!Distinct(SubSeq(s, a, b))
<1> USE DEF Async!Elements, Async!Distinct
<1>1. CASE a > b
  <2>1. SubSeq(s, a, b) = <<>>
    BY <1>1
  <2>2. a..b = {} /\ <<>> \in Seq(S) /\ DOMAIN <<>> = {}
    BY <1>1
  <2>3. Async!Elements(<<>>) = {} /\ Async!Distinct(<<>>)
    BY <2>2
  <2>4. {s[k] : k \in a..b} = {}
    BY <2>2
  <2>5. QED
    BY <2>1, <2>2, <2>3, <2>4
<1>2. CASE a <= b
  <2> DEFINE t == SubSeq(s, a, b)
  <2>1. /\ t \in Seq(S) /\ Len(t) = b - a + 1 /\ DOMAIN t = 1..(b - a + 1)
        /\ \A i \in 1..(b - a + 1) : t[i] = s[a + i - 1]
    BY <1>2
  <2>2. DOMAIN s = 1..Len(s)
    OBVIOUS
  <2>3. \A k \in a..b : k - a + 1 \in 1..(b - a + 1) /\ a + (k - a + 1) - 1 = k
    OBVIOUS
  <2>4. \A i \in 1..(b - a + 1) : a + i - 1 \in a..b
    OBVIOUS
  <2>5. {t[i] : i \in DOMAIN t} = {s[k] : k \in a..b}
    <3>1. ASSUME NEW i \in DOMAIN t PROVE t[i] \in {s[k] : k \in a..b}
      BY <2>1, <2>4
    <3>2. ASSUME NEW k \in a..b PROVE s[k] \in {t[i] : i \in DOMAIN t}
      <4>1. t[k - a + 1] = s[k]
        BY <2>1, <2>3
      <4>2. k - a + 1 \in DOMAIN t
        BY <2>1, <2>3
      <4>3. QED
        BY <4>1, <4>2
    <3>3. QED
      BY <3>1, <3>2
  <2>6. Async!Distinct(s) => \A i, j \in DOMAIN t : t[i] = t[j] => i = j
    BY <2>1, <2>2, <2>4
  <2>7. QED
    BY <2>1, <2>5, <2>6
<1>3. a > b \/ a <= b
  OBVIOUS
<1>4. QED
  BY <1>1, <1>2, <1>3, Zenon

LEMMA AppendElements ==
  ASSUME NEW S, NEW s \in Seq(S), NEW x \in S
  PROVE  /\ Append(s, x) \in Seq(S) /\ Append(s, x) # <<>>
         /\ Async!Elements(Append(s, x)) = Async!Elements(s) \cup {x}
         /\ Async!Distinct(s) /\ x \notin Async!Elements(s) => Async!Distinct(Append(s, x))
<1> USE DEF Async!Elements, Async!Distinct
<1>1. /\ Append(s, x) \in Seq(S) /\ Append(s, x) # <<>>
      /\ DOMAIN Append(s, x) = 1..(Len(s) + 1) /\ DOMAIN s = 1..Len(s)
      /\ \A i \in 1..Len(s) : Append(s, x)[i] = s[i]
      /\ Append(s, x)[Len(s) + 1] = x
  OBVIOUS
<1>2. Len(s) \in Nat
  OBVIOUS
<1>3. QED
  BY <1>1, <1>2

LEMMA OneElement ==
  ASSUME NEW S, NEW x \in S
  PROVE  /\ <<x>> \in Seq(S) /\ <<x>> # <<>>
         /\ Async!Elements(<<x>>) = {x} /\ Async!Distinct(<<x>>)
<1>1. <<x>> \in Seq(S) /\ <<x>> # <<>> /\ DOMAIN <<x>> = {1} /\ <<x>>[1] = x
  OBVIOUS
<1>2. QED
  BY <1>1 DEF Async!Elements, Async!Distinct

LEMMA HeadElements ==
  ASSUME NEW S, NEW s \in Seq(S), s # <<>>
  PROVE  /\ Head(s) \in S /\ Tail(s) \in Seq(S)
         /\ Async!Elements(s) = {Head(s)} \cup Async!Elements(Tail(s))
         /\ Async!Distinct(s) => Async!Distinct(Tail(s)) /\ Head(s) \notin Async!Elements(Tail(s))
<1>1. /\ Len(s) \in Nat \ {0} /\ Head(s) = s[1] /\ Tail(s) = SubSeq(s, 2, Len(s)) /\ DOMAIN s = 1..Len(s)
      /\ s[1] \in S
  OBVIOUS
<1>2. /\ Tail(s) \in Seq(S)
      /\ Async!Elements(Tail(s)) = {s[k] : k \in 2..Len(s)}
      /\ Async!Distinct(s) => Async!Distinct(Tail(s))
  <2>1. 2 \in 1..(Len(s) + 1) /\ Len(s) \in 0..Len(s)
    BY <1>1
  <2>2. /\ SubSeq(s, 2, Len(s)) \in Seq(S)
        /\ Async!Elements(SubSeq(s, 2, Len(s))) = {s[k] : k \in 2..Len(s)}
        /\ Async!Distinct(s) => Async!Distinct(SubSeq(s, 2, Len(s)))
    BY <2>1, SubElements, Zenon
  <2>3. QED
    BY <1>1, <2>2, Zenon
<1>3. 1..Len(s) = {1} \cup 2..Len(s) /\ 1 \notin 2..Len(s)
  BY <1>1
<1>4. Async!Elements(s) = {s[1]} \cup {s[k] : k \in 2..Len(s)}
  BY <1>1, <1>3 DEF Async!Elements
<1>5. Async!Distinct(s) => s[1] \notin {s[k] : k \in 2..Len(s)}
  BY <1>1, <1>3 DEF Async!Distinct
<1>6. QED
  BY <1>1, <1>2, <1>4, <1>5

LEMMA SeqElements ==
  ASSUME NEW S, NEW s \in Seq(S)
  PROVE  Async!Elements(s) \subseteq S /\ Async!Elements(s) = {s[k] : k \in 1..Len(s)}
BY DEF Async!Elements

LEMMA NoElements == Async!Elements(<<>>) = {} /\ Async!Distinct(<<>>)
BY DEF Async!Elements, Async!Distinct

LEMMA AsyncInit == Async!Init => Async!IInv
<1> SUFFICES ASSUME Async!Init PROVE Async!InPlace
  BY DEF Async!IInv
<1> USE FramesAssumption, NoElements DEF Async!Init, Async!None, Async!Ids, Async!Fresh
<1>1. Async!TypeOK
  <2>1. [refs |-> 0, used |-> FALSE, unused_count |-> 0, prev_frame |-> FALSE] \in Async!Frame
    BY DEF Async!Frame
  <2>2. frame \in [Async!Ids -> Async!Frame]
    BY <2>1
  <2>3. <<>> \in Seq(1..MaxAllocated) /\ {} \in SUBSET (1..MaxAllocated) /\ 0 \in 0..MaxAllocated
    OBVIOUS
  <2>4. async \in [async_cache : SUBSET Async!Ids, async_frames : Seq(Async!Ids),
                   cur : Async!Ids \cup {0}, prev : Async!Ids \cup {0},
                   deinterlace : BOOLEAN, allocated : 0..MaxAllocated]
    BY <2>3
  <2>5. /\ video_frames \in Seq(Async!Ids) /\ misread \in BOOLEAN
        /\ producer \in [at : {"idle", "copy", "push"}, f : Async!Ids \cup {0}]
    BY <2>3
  <2>6. graphics \in [at : {"tick", "size", "prev", "show prev", "cur", "show cur"},
                      f : Async!Ids \cup {0}]
    OBVIOUS
  <2>7. QED
    BY <2>2, <2>4, <2>5, <2>6 DEF Async!TypeOK
<1>2. Async!Counted
  BY DEF Async!Counted, Async!Taken, Async!Lent
<1>3. Async!Working
  BY DEF Async!Working
<1>4. Async!Separate
  BY DEF Async!Separate
<1>5. Async!InUse
  BY DEF Async!InUse
<1>6. QED
  BY <1>1, <1>2, <1>3, <1>4, <1>5 DEF Async!InPlace

LEMMA Successors == \A n \in Nat : n + 1 \in Nat
OBVIOUS

LEMMA EmptySeq == \A S : <<>> \in Seq(S)
OBVIOUS

LEMMA IdsArePositive == \A f \in Async!Ids : f \in Nat /\ f # 0
<1>1. MaxAllocated \in Nat
  BY FramesAssumption
<1>2. QED
  BY <1>1 DEF Async!Ids

\* What the invariant says of the fields.
LEMMA AsyncFields ==
  ASSUME Async!TypeOK
  PROVE  /\ async.async_cache \subseteq Async!Ids
         /\ async.async_frames \in Seq(Async!Ids) /\ video_frames \in Seq(Async!Ids)
         /\ {async.cur, async.prev, producer.f, graphics.f} \subseteq Async!Ids \cup {0}
         /\ Async!Elements(async.async_frames) \subseteq Async!Ids
         /\ Async!Elements(video_frames) \subseteq Async!Ids
         /\ async.allocated \in 0..MaxAllocated
         /\ \A f \in Async!Ids : f \in Nat /\ f # 0 /\ frame[f] \in Async!Frame /\ frame[f].refs \in Nat
<1> USE FramesAssumption DEF Async!TypeOK, Async!None
<1>1. /\ async.async_cache \subseteq Async!Ids
      /\ async.async_frames \in Seq(Async!Ids) /\ video_frames \in Seq(Async!Ids)
      /\ {async.cur, async.prev, producer.f, graphics.f} \subseteq Async!Ids \cup {0}
      /\ async.allocated \in 0..MaxAllocated
  OBVIOUS
<1>2. /\ Async!Elements(async.async_frames) \subseteq Async!Ids
      /\ Async!Elements(video_frames) \subseteq Async!Ids
  BY <1>1, SeqElements
<1>3. \A f \in Async!Ids : f \in Nat /\ f # 0 /\ frame[f] \in Async!Frame /\ frame[f].refs \in Nat
  <2> SUFFICES ASSUME NEW f \in Async!Ids
               PROVE  f \in Nat /\ f # 0 /\ frame[f] \in Async!Frame /\ frame[f].refs \in Nat
    OBVIOUS
  <2>1. frame[f] \in Async!Frame
    OBVIOUS
  <2>2. frame[f].refs \in Nat
    BY <2>1 DEF Async!Frame
  <2>3. f \in Nat /\ f # 0
    BY IdsArePositive, Zenon
  <2>4. QED
    BY <2>1, <2>2, <2>3
<1>4. QED
  BY <1>1, <1>2, <1>3

\* A reference less for each: who had one only is gone.
LEMMA UnrefEffect ==
  ASSUME Async!TypeOK, NEW fs, \A f \in fs : f \in Async!Ids /\ frame[f].refs > 0
  PROVE  /\ Async!Unref(fs) \in [Async!Ids -> Async!Frame]
         /\ \A f \in Async!Ids :
              /\ Async!Unref(fs)[f].refs = IF f \in fs THEN frame[f].refs - 1 ELSE frame[f].refs
              /\ f \notin fs => Async!Unref(fs)[f] = frame[f]
              /\ frame[f].refs # 1 => Async!Unref(fs)[f].used = frame[f].used
<1>1. frame \in [Async!Ids -> Async!Frame]
  BY DEF Async!TypeOK
<1>2. ASSUME NEW f \in Async!Ids
      PROVE  /\ Async!Unref(fs)[f] \in Async!Frame
             /\ Async!Unref(fs)[f].refs = IF f \in fs THEN frame[f].refs - 1 ELSE frame[f].refs
             /\ f \notin fs => Async!Unref(fs)[f] = frame[f]
             /\ frame[f].refs # 1 => Async!Unref(fs)[f].used = frame[f].used
  <2>1. frame[f] \in Async!Frame /\ frame[f].refs \in Nat
    BY <1>1, AsyncFields
  <2>4. f \in fs => frame[f].refs > 0 /\ frame[f].refs - 1 \in Nat
    BY <2>1
  <2>2. Async!Unref(fs)[f] = IF f \notin fs THEN frame[f]
                             ELSE IF frame[f].refs = 1 THEN Async!Fresh
                             ELSE [frame[f] EXCEPT !.refs = @ - 1]
    BY DEF Async!Unref
  <2>3. QED
    <3>1. CASE f \notin fs
      BY <2>1, <2>2, <3>1
    <3>2. CASE f \in fs /\ frame[f].refs = 1
      BY <2>1, <2>2, <3>2 DEF Async!Fresh, Async!Frame
    <3>3. CASE f \in fs /\ frame[f].refs # 1
      BY <2>1, <2>2, <2>4, <3>3 DEF Async!Frame
    <3>4. QED
      BY <3>1, <3>2, <3>3
<1>3. Async!Unref(fs) \in [Async!Ids -> Async!Frame]
  BY <1>2 DEF Async!Unref
<1>4. QED
  BY <1>2, <1>3

\* remove_async_frame: a frame of the cache is free to be used again.
LEMMA RemovedEffect ==
  ASSUME Async!TypeOK, NEW fs
  PROVE  /\ Async!Removed(fs) \in [Async!Ids -> Async!Frame]
         /\ \A f \in Async!Ids :
              /\ Async!Removed(fs)[f].refs = frame[f].refs
              /\ f \notin fs => Async!Removed(fs)[f] = frame[f]
              /\ f \in fs /\ f \in async.async_cache => ~Async!Removed(fs)[f].used
<1>1. frame \in [Async!Ids -> Async!Frame]
  BY DEF Async!TypeOK
<1>2. ASSUME NEW f \in Async!Ids
      PROVE  /\ Async!Removed(fs)[f] \in Async!Frame
             /\ Async!Removed(fs)[f].refs = frame[f].refs
             /\ f \notin fs => Async!Removed(fs)[f] = frame[f]
             /\ f \in fs /\ f \in async.async_cache => ~Async!Removed(fs)[f].used
  <2>1. frame[f] \in Async!Frame
    BY <1>1
  <2>2. Async!Removed(fs)[f] = IF f \in fs
                               THEN [frame[f] EXCEPT !.prev_frame = FALSE,
                                                     !.used = @ /\ f \notin async.async_cache]
                               ELSE frame[f]
    BY DEF Async!Removed
  <2>3. QED
    BY <2>1, <2>2 DEF Async!Frame
<1>3. Async!Removed(fs) \in [Async!Ids -> Async!Frame]
  BY <1>2 DEF Async!Removed
<1>4. QED
  BY <1>2, <1>3

\* obs_source_release_frame: the same, and a reference less.
LEMMA ReleaseEffect ==
  ASSUME Async!TypeOK, NEW fs, \A f \in fs : f \in Async!Ids /\ frame[f].refs > 0, Async!Release(fs)
  PROVE  /\ frame' \in [Async!Ids -> Async!Frame]
         /\ \A f \in Async!Ids :
              /\ frame'[f].refs = IF f \in fs THEN frame[f].refs - 1 ELSE frame[f].refs
              /\ f \notin fs => frame'[f] = frame[f]
              /\ f \in fs /\ frame[f].refs # 1 /\ f \in async.async_cache => ~frame'[f].used
         /\ alive' = alive \ {f \in fs : frame[f].refs = 1}
<1>1. frame \in [Async!Ids -> Async!Frame]
  BY DEF Async!TypeOK
<1>2. /\ \A f \in fs : f \in Async!Dead(fs) <=> frame[f].refs = 1
      /\ Async!Dead(fs) = {f \in fs : frame[f].refs = 1}
  BY DEF Async!Dead
<1>3. frame' = [f \in Async!Ids |->
                  IF f \in fs \ Async!Dead(fs) THEN [Async!Removed(fs)[f] EXCEPT !.refs = @ - 1]
                  ELSE Async!Unref(fs)[f]]
  BY DEF Async!Release
<1>4. ASSUME NEW f \in Async!Ids
      PROVE  /\ frame'[f] \in Async!Frame
             /\ frame'[f].refs = IF f \in fs THEN frame[f].refs - 1 ELSE frame[f].refs
             /\ f \notin fs => frame'[f] = frame[f]
             /\ f \in fs /\ frame[f].refs # 1 /\ f \in async.async_cache => ~frame'[f].used
  <2>1. CASE f \in fs /\ frame[f].refs # 1
    <3>1. /\ Async!Removed(fs)[f] \in Async!Frame /\ Async!Removed(fs)[f].refs = frame[f].refs
          /\ f \in async.async_cache => ~Async!Removed(fs)[f].used
      BY <2>1, RemovedEffect
    <3>2. frame'[f] = [Async!Removed(fs)[f] EXCEPT !.refs = @ - 1]
      BY <1>2, <1>3, <2>1
    <3>3. frame[f].refs - 1 \in Nat
      BY <1>1, <2>1 DEF Async!Frame
    <3>4. QED
      BY <2>1, <3>1, <3>2, <3>3 DEF Async!Frame
  <2>2. CASE ~(f \in fs /\ frame[f].refs # 1)
    <3>1. frame'[f] = Async!Unref(fs)[f]
      BY <1>2, <1>3, <2>2
    <3>2. QED
      BY <2>2, <3>1, UnrefEffect
  <2>3. QED
    BY <2>1, <2>2
<1>5. alive' = alive \ {f \in fs : frame[f].refs = 1}
  BY <1>2 DEF Async!Release
<1>6. frame' \in [Async!Ids -> Async!Frame]
  BY <1>3, <1>4
<1>7. QED
  BY <1>4, <1>5, <1>6

\* What the invariant says of a frame that somebody has.
LEMMA AsyncMeaning ==
  ASSUME Async!InPlace
  PROVE  /\ Async!Taken \subseteq Async!Ids /\ Async!Lent \subseteq async.async_cache
         /\ async.async_cache \subseteq Async!Ids
         /\ \A f \in Async!Ids :
              frame[f].refs = (IF f \in async.async_cache THEN 1 ELSE 0)
                                + (IF f \in Async!Taken THEN 1 ELSE 0)
         /\ \A f \in async.async_cache \cup Async!Taken : f \in Async!Ids /\ frame[f].refs > 0
         /\ \A f \in async.async_cache : frame[f].refs = 1 <=> f \notin Async!Taken
         /\ \A f \in Async!Taken : frame[f].refs = 1 <=> f \notin async.async_cache
         /\ alive = async.async_cache \cup Async!Taken
         /\ alive \subseteq 1..async.allocated
         /\ Async!Shared \cup Async!Being = Async!Taken \cup Async!Lent
         /\ \A f \in async.async_cache : frame[f].used <=> f \in Async!Taken \cup Async!Lent
<1> USE DEF Async!InPlace, Async!None
<1>1. Async!Taken \subseteq Async!Ids /\ async.async_cache \subseteq Async!Ids
  <2>1. producer.at = "copy" => producer.f # 0
    BY DEF Async!Working
  <2>2. QED
    BY <2>1, AsyncFields DEF Async!Taken
<1>2. /\ \A f \in Async!Ids :
           frame[f].refs = (IF f \in async.async_cache THEN 1 ELSE 0)
                             + (IF f \in Async!Taken THEN 1 ELSE 0)
      /\ Async!Lent \subseteq async.async_cache
      /\ alive = async.async_cache \cup Async!Taken
      /\ alive \subseteq 1..async.allocated
  BY DEF Async!Counted
<1>3. /\ \A f \in async.async_cache \cup Async!Taken : f \in Async!Ids /\ frame[f].refs > 0
      /\ \A f \in async.async_cache : frame[f].refs = 1 <=> f \notin Async!Taken
      /\ \A f \in Async!Taken : frame[f].refs = 1 <=> f \notin async.async_cache
  BY <1>1, <1>2
<1>4. Async!Shared \cup Async!Being = Async!Taken \cup Async!Lent
  <2>1. producer.at \in {"idle", "copy", "push"}
    BY DEF Async!TypeOK
  <2>2. QED
    BY <2>1 DEF Async!Working, Async!Shared, Async!Being, Async!Taken, Async!Lent
<1>5. QED
  BY <1>1, <1>2, <1>3, <1>4 DEF Async!InUse

LEMMA AsyncRebuilt ==
  ASSUME Async!TypeOK', Async!Working', Async!Separate', Async!Counted',
         \A f \in async'.async_cache : frame'[f].used <=> f \in Async!Taken' \cup Async!Lent'
  PROVE  Async!InPlace'
<1>1. Async!Shared' \cup Async!Being' = Async!Taken' \cup Async!Lent'
  <2>1. producer'.at \in {"idle", "copy", "push"}
    BY DEF Async!TypeOK
  <2>2. QED
    BY <2>1 DEF Async!Working, Async!Shared, Async!Being, Async!Taken, Async!Lent, Async!None
<1>2. Async!InUse'
  BY <1>1 DEF Async!InUse
<1>3. QED
  BY <1>2 DEF Async!InPlace

\* cache_video, when too many wait: nothing is left in the queue nor rendered.
LEMMA TooManyStep == ASSUME Async!InPlace, Async!TooMany PROVE Async!InPlace'
<1> USE DEF Async!InPlace, Async!None
<1> DEFINE C == async.async_cache
<1>1. /\ async' = [async EXCEPT !.async_cache = {}, !.async_frames = <<>>, !.cur = 0, !.prev = 0]
      /\ frame' = Async!Unref(C) /\ alive' = alive \ {f \in C : frame[f].refs = 1}
  BY DEF Async!TooMany, Async!Emptied, Async!Dead
<1>2. /\ producer' = producer /\ graphics' = graphics /\ video_frames' = video_frames
      /\ misread' = misread /\ producer.at = "idle" /\ producer.f = 0
  BY DEF Async!TooMany, Async!Working
<1>3. /\ async'.async_cache = {} /\ async'.async_frames = <<>> /\ async'.cur = 0 /\ async'.prev = 0
      /\ async'.allocated = async.allocated
      /\ async' \in [async_cache : SUBSET Async!Ids, async_frames : Seq(Async!Ids),
                     cur : Async!Ids \cup {0}, prev : Async!Ids \cup {0},
                     deinterlace : BOOLEAN, allocated : 0..MaxAllocated]
  BY <1>1, EmptySeq DEF Async!TypeOK
<1>4. /\ Async!Elements(async.async_frames)' = {} /\ Async!Distinct(async.async_frames)'
      /\ Async!Elements(video_frames)' = Async!Elements(video_frames)
      /\ Async!Distinct(video_frames)' = Async!Distinct(video_frames)
  BY <1>2, <1>3 DEF Async!Elements, Async!Distinct
<1>5. Async!Taken' = Async!Taken /\ Async!Lent' = {}
  BY <1>2, <1>3, <1>4 DEF Async!Taken, Async!Lent
<1>6. /\ frame' \in [Async!Ids -> Async!Frame]
      /\ \A f \in Async!Ids :
           frame'[f].refs = IF f \in C THEN frame[f].refs - 1 ELSE frame[f].refs
  BY <1>1, AsyncMeaning, UnrefEffect
<1>7. Async!TypeOK'
  BY <1>2, <1>3, <1>6 DEF Async!TypeOK
<1>8. Async!Counted'
  BY <1>1, <1>3, <1>5, <1>6, AsyncMeaning DEF Async!Counted
<1>9. Async!Separate' /\ Async!Working'
  BY <1>2, <1>3, <1>4 DEF Async!Separate, Async!Working
<1>10. QED
  BY <1>3, <1>7, <1>8, <1>9, AsyncRebuilt

\* What a record of the source is: it stays one when its fields are in place.
LEMMA SourceRecord ==
  ASSUME Async!TypeOK, NEW c \in SUBSET Async!Ids, NEW q \in Seq(Async!Ids),
         NEW n \in Async!Ids \cup {0}, NEW l \in Async!Ids \cup {0}, NEW a \in 0..MaxAllocated
  PROVE  [async EXCEPT !.async_cache = c, !.async_frames = q, !.cur = n, !.prev = l, !.allocated = a]
           \in [async_cache : SUBSET Async!Ids, async_frames : Seq(Async!Ids),
                cur : Async!Ids \cup {0}, prev : Async!Ids \cup {0},
                deinterlace : BOOLEAN, allocated : 0..MaxAllocated]
BY DEF Async!TypeOK, Async!None

LEMMA InUseAgain ==
  ASSUME NEW r \in Async!Frame, NEW n \in Nat
  PROVE  /\ [r EXCEPT !.used = TRUE, !.unused_count = 0, !.refs = n] \in Async!Frame
         /\ [r EXCEPT !.used = TRUE, !.unused_count = 0, !.refs = n].used
         /\ [r EXCEPT !.used = TRUE, !.unused_count = 0, !.refs = n].refs = n
<1>1. [r EXCEPT !.used = TRUE, !.unused_count = 0, !.refs = n] \in Async!Frame
  BY DEF Async!Frame
<1>2. [r EXCEPT !.used = TRUE, !.unused_count = 0, !.refs = n].used
  BY DEF Async!Frame
<1>3. [r EXCEPT !.used = TRUE, !.unused_count = 0, !.refs = n].refs = n
  BY DEF Async!Frame
<1>4. QED
  BY <1>1, <1>2, <1>3, Zenon

\* cache_video: the copy has a reference of its own to a frame nobody had, and
\* what clean_cache frees nobody has.
LEMMA ReuseStep == ASSUME Async!InPlace, Async!Reuse PROVE Async!InPlace'
<1> USE DEF Async!InPlace, Async!None
<1> DEFINE C == async.async_cache
           A == Async!Ageing(C)
           f == Async!Min(A)
           O == Async!Old(C \ {f})
<1>1. f \in A
  <2>1. A # {} /\ A \subseteq Nat
    BY AsyncMeaning, IdsArePositive DEF Async!Reuse, Async!Ageing
  <2>2. \E n \in A : \A m \in A : n <= m
    BY <2>1, Least
  <2>3. QED
    BY <2>2 DEF Async!Min
<1>2. /\ f \in C /\ f \in Async!Ids /\ ~frame[f].used
      /\ f \notin Async!Taken /\ f \notin Async!Lent /\ f # 0
      /\ O \subseteq C /\ f \notin O /\ \A g \in O : g \notin Async!Taken /\ g \notin Async!Lent
  BY <1>1, AsyncMeaning, IdsArePositive DEF Async!Ageing, Async!Old
<1>3. /\ async' = [async EXCEPT !.async_cache = C \ O] /\ alive' = alive \ O
      /\ producer' = [at |-> "copy", f |-> f]
      /\ graphics' = graphics /\ video_frames' = video_frames /\ misread' = misread
      /\ producer.at = "idle" /\ producer.f = 0
  BY DEF Async!Reuse, Async!Filling, Async!Working
<1>15. \A g \in Async!Ids :
         frame'[g] = IF g = f THEN [frame[g] EXCEPT !.used = TRUE, !.unused_count = 0, !.refs = @ + 1]
                     ELSE IF g \in O THEN Async!Fresh
                     ELSE IF g \in Async!Ageing(C \ {f}) THEN [frame[g] EXCEPT !.unused_count = @ + 1]
                     ELSE frame[g]
  BY DEF Async!Reuse
<1>16. async.async_cache = C
  OBVIOUS
<1> HIDE DEF f, O, A, C
<1>4. ASSUME NEW g \in Async!Ids
      PROVE  /\ frame'[g] \in Async!Frame
             /\ frame'[g].refs = IF g = f THEN 2 ELSE IF g \in O THEN 0 ELSE frame[g].refs
             /\ frame'[g].used <=> g = f \/ (frame[g].used /\ g \notin O)
  <2>1. frame[g] \in Async!Frame /\ frame[g].refs \in Nat
    BY AsyncFields
  <2>2. frame'[g] = IF g = f THEN [frame[g] EXCEPT !.used = TRUE, !.unused_count = 0, !.refs = @ + 1]
                    ELSE IF g \in O THEN Async!Fresh
                    ELSE IF g \in Async!Ageing(C \ {f}) THEN [frame[g] EXCEPT !.unused_count = @ + 1]
                    ELSE frame[g]
    BY <1>15
  <2>3. CASE g = f
    <3>1. frame[g].refs = 1
      BY <1>2, <1>16, <2>3, AsyncMeaning
    <3>2. frame'[g] = [frame[g] EXCEPT !.used = TRUE, !.unused_count = 0, !.refs = @ + 1]
      BY <2>2, <2>3
    <3>3. QED
      <4>1. frame[g].refs + 1 = 2
        BY <3>1
      <4>2. frame'[g] = [frame[g] EXCEPT !.used = TRUE, !.unused_count = 0, !.refs = 2]
        BY <3>2, <4>1
      <4>3. frame'[g] \in Async!Frame /\ frame'[g].used /\ frame'[g].refs = 2
        <5>1. 2 \in Nat
          OBVIOUS
        <5> DEFINE r == frame[g]
        <5> HIDE DEF r
        <5>2. r \in Async!Frame
          BY <2>1 DEF r
        <5>3. frame'[g] = [r EXCEPT !.used = TRUE, !.unused_count = 0, !.refs = 2]
          BY <4>2 DEF r
        <5>4. /\ [r EXCEPT !.used = TRUE, !.unused_count = 0, !.refs = 2] \in Async!Frame
              /\ [r EXCEPT !.used = TRUE, !.unused_count = 0, !.refs = 2].used
              /\ [r EXCEPT !.used = TRUE, !.unused_count = 0, !.refs = 2].refs = 2
          BY <5>1, <5>2, InUseAgain
        <5>5. QED
          BY <5>3, <5>4, Zenon
      <4>4. QED
        BY <2>3, <4>3
  <2>4. CASE g # f /\ g \in O
    BY <2>2, <2>4 DEF Async!Fresh, Async!Frame
  <2>5. CASE g # f /\ g \notin O
    BY <2>1, <2>2, <2>5 DEF Async!Frame
  <2>6. QED
    BY <2>3, <2>4, <2>5
<1>5. frame' \in [Async!Ids -> Async!Frame]
  <2>1. frame' = [g \in Async!Ids |-> frame'[g]]
    BY DEF Async!Reuse
  <2>2. QED
    BY <1>4, <2>1
<1>6. /\ async'.async_cache = C \ O /\ async'.async_frames = async.async_frames
      /\ async'.cur = async.cur /\ async'.prev = async.prev /\ async'.allocated = async.allocated
      /\ async' \in [async_cache : SUBSET Async!Ids, async_frames : Seq(Async!Ids),
                     cur : Async!Ids \cup {0}, prev : Async!Ids \cup {0},
                     deinterlace : BOOLEAN, allocated : 0..MaxAllocated]
  BY <1>2, <1>3, <1>16 DEF Async!TypeOK
<1>7. /\ Async!Elements(async.async_frames)' = Async!Elements(async.async_frames)
      /\ Async!Distinct(async.async_frames)' = Async!Distinct(async.async_frames)
      /\ Async!Elements(video_frames)' = Async!Elements(video_frames)
      /\ Async!Distinct(video_frames)' = Async!Distinct(video_frames)
  BY <1>3, <1>6 DEF Async!Elements, Async!Distinct
<1>8. Async!Taken' = Async!Taken \cup {f} /\ Async!Lent' = Async!Lent
  BY <1>3, <1>6, <1>7 DEF Async!Taken, Async!Lent
<1>9. Async!TypeOK'
  BY <1>2, <1>3, <1>5, <1>6 DEF Async!TypeOK
<1>10. Async!Counted'
  <2>1. \A g \in Async!Ids :
          frame'[g].refs = (IF g \in async'.async_cache THEN 1 ELSE 0)
                             + (IF g \in Async!Taken' THEN 1 ELSE 0)
    BY <1>2, <1>4, <1>6, <1>8, AsyncMeaning, <1>16
  <2>2. alive' = async'.async_cache \cup Async!Taken'
    BY <1>2, <1>3, <1>6, <1>8, AsyncMeaning, <1>16
  <2>3. Async!Lent' \subseteq async'.async_cache /\ alive' \subseteq 1..async'.allocated
    BY <1>2, <1>3, <1>6, <1>8, AsyncMeaning, <1>16
  <2>4. QED
    BY <2>1, <2>2, <2>3 DEF Async!Counted
<1>11. Async!Working'
  BY <1>2, <1>3 DEF Async!Working
<1>12. Async!Separate'
  <2>1. /\ f \notin Async!Elements(async.async_frames) /\ f \notin Async!Elements(video_frames)
        /\ f # async.cur /\ f # async.prev /\ f # graphics.f
    BY <1>2 DEF Async!Taken, Async!Lent
  <2>2. QED
    BY <1>3, <1>6, <1>7, <2>1 DEF Async!Separate
<1>13. \A g \in async'.async_cache : frame'[g].used <=> g \in Async!Taken' \cup Async!Lent'
  BY <1>2, <1>4, <1>6, <1>8, <1>16, AsyncMeaning
<1>14. QED
  BY <1>9, <1>10, <1>11, <1>12, <1>13, AsyncRebuilt

\* cache_video: a new frame is nobody's yet.
LEMMA AllocateStep == ASSUME Async!InPlace, Async!Allocate PROVE Async!InPlace'
<1> USE DEF Async!InPlace, Async!None
<1> DEFINE C == async.async_cache
           f == async.allocated + 1
<1>1. PICK changed \in BOOLEAN :
        LET base == IF changed THEN Async!Emptied ELSE async
            gone == IF changed THEN C ELSE {}
        IN /\ frame' = Async!Allocated(f, Async!Unref(gone))
           /\ alive' = (alive \ Async!Dead(gone)) \cup {f}
           /\ async' = [base EXCEPT !.async_cache = @ \cup {f}, !.allocated = f]
  BY DEF Async!Allocate
<1> DEFINE gone == IF changed THEN C ELSE {}
           kept == C \ gone
<1>2. /\ producer' = [at |-> "copy", f |-> f]
      /\ graphics' = graphics /\ video_frames' = video_frames /\ misread' = misread
      /\ producer.at = "idle" /\ producer.f = 0 /\ async.allocated < MaxAllocated
  BY DEF Async!Allocate, Async!Filling, Async!Working
<1>3. /\ f \in Async!Ids /\ f \in 0..MaxAllocated /\ f # 0 /\ f \notin 1..async.allocated
      /\ 1..async.allocated \subseteq 1..f
  <2>1. async.allocated \in Nat /\ MaxAllocated \in Nat
    BY AsyncFields, FramesAssumption
  <2>2. QED
    BY <1>2, <2>1 DEF Async!Ids
<1>4. f \notin C /\ f \notin Async!Taken /\ f \notin Async!Lent
  BY <1>3, AsyncMeaning
<1>5. /\ async'.async_cache = kept \cup {f} /\ async'.allocated = f
      /\ changed => async'.async_frames = <<>> /\ async'.cur = 0 /\ async'.prev = 0
      /\ ~changed => /\ async'.async_frames = async.async_frames
                     /\ async'.cur = async.cur /\ async'.prev = async.prev
      /\ async' \in [async_cache : SUBSET Async!Ids, async_frames : Seq(Async!Ids),
                     cur : Async!Ids \cup {0}, prev : Async!Ids \cup {0},
                     deinterlace : BOOLEAN, allocated : 0..MaxAllocated]
  <2>1. CASE changed
    BY <1>1, <1>3, <2>1, EmptySeq DEF Async!TypeOK, Async!Emptied
  <2>2. CASE ~changed
    BY <1>1, <1>3, <2>2 DEF Async!TypeOK
  <2>3. QED
    BY <2>1, <2>2
<1>6. /\ Async!Unref(gone) \in [Async!Ids -> Async!Frame]
      /\ \A g \in Async!Ids :
           /\ Async!Unref(gone)[g].refs = IF g \in gone THEN frame[g].refs - 1 ELSE frame[g].refs
           /\ g \notin gone => Async!Unref(gone)[g] = frame[g]
  BY AsyncMeaning, UnrefEffect
<1>7. frame' = [Async!Unref(gone) EXCEPT ![f] = [Async!Fresh EXCEPT !.refs = 2, !.used = TRUE]]
  BY <1>1 DEF Async!Allocated
<1>8. /\ frame' \in [Async!Ids -> Async!Frame]
      /\ frame'[f].refs = 2 /\ frame'[f].used
      /\ \A g \in Async!Ids \ {f} :
           /\ frame'[g].refs = IF g \in gone THEN frame[g].refs - 1 ELSE frame[g].refs
           /\ g \notin gone => frame'[g] = frame[g]
  <2>1. /\ [Async!Fresh EXCEPT !.refs = 2, !.used = TRUE] \in Async!Frame
        /\ [Async!Fresh EXCEPT !.refs = 2, !.used = TRUE].refs = 2
        /\ [Async!Fresh EXCEPT !.refs = 2, !.used = TRUE].used
    BY DEF Async!Fresh, Async!Frame
  <2> DEFINE fresh == [Async!Fresh EXCEPT !.refs = 2, !.used = TRUE]
  <2> HIDE DEF fresh
  <2>2. /\ frame' \in [Async!Ids -> Async!Frame] /\ frame'[f] = fresh
        /\ \A g \in Async!Ids \ {f} : frame'[g] = Async!Unref(gone)[g]
    BY <1>3, <1>6, <1>7, <2>1 DEF fresh
  <2>3. QED
    BY <1>6, <2>1, <2>2 DEF fresh
<1>9. /\ changed => Async!Elements(async.async_frames)' = {} /\ Async!Distinct(async.async_frames)'
      /\ ~changed => /\ Async!Elements(async.async_frames)' = Async!Elements(async.async_frames)
                     /\ Async!Distinct(async.async_frames)' = Async!Distinct(async.async_frames)
      /\ Async!Elements(video_frames)' = Async!Elements(video_frames)
      /\ Async!Distinct(video_frames)' = Async!Distinct(video_frames)
  BY <1>2, <1>5 DEF Async!Elements, Async!Distinct
<1>10. /\ Async!Taken' = Async!Taken \cup {f}
       /\ Async!Lent' = IF changed THEN {} ELSE Async!Lent
  BY <1>2, <1>5, <1>9 DEF Async!Taken, Async!Lent
<1>11. Async!TypeOK'
  BY <1>2, <1>3, <1>5, <1>8 DEF Async!TypeOK
<1>12. Async!Counted'
  <2>1. \A g \in Async!Ids :
          frame'[g].refs = (IF g \in async'.async_cache THEN 1 ELSE 0)
                             + (IF g \in Async!Taken' THEN 1 ELSE 0)
    BY <1>4, <1>5, <1>8, <1>10, AsyncMeaning
  <2>2. alive' = async'.async_cache \cup Async!Taken'
    <3>1. alive' = (alive \ {g \in gone : frame[g].refs = 1}) \cup {f}
      BY <1>1 DEF Async!Dead
    <3>2. QED
      BY <1>5, <1>10, <3>1, AsyncMeaning
  <2>3. Async!Lent' \subseteq async'.async_cache /\ alive' \subseteq 1..async'.allocated
    <3>1. alive' \subseteq 1..f
      BY <1>3, <1>5, <1>10, <2>2, AsyncMeaning DEF Async!Dead
    <3>2. QED
      BY <1>5, <1>10, <3>1, AsyncMeaning
  <2>4. QED
    BY <2>1, <2>2, <2>3 DEF Async!Counted
<1>13. Async!Working'
  BY <1>2, <1>3 DEF Async!Working
<1>14. Async!Separate'
  <2>1. /\ f \notin Async!Elements(async.async_frames) /\ f \notin Async!Elements(video_frames)
        /\ f # async.cur /\ f # async.prev /\ f # graphics.f
    BY <1>3, <1>4 DEF Async!Taken, Async!Lent
  <2>2. QED
    BY <1>2, <1>3, <1>5, <1>9, <2>1 DEF Async!Separate
<1>15. \A g \in async'.async_cache : frame'[g].used <=> g \in Async!Taken' \cup Async!Lent'
  BY <1>4, <1>5, <1>8, <1>10, AsyncMeaning
<1>16. QED
  BY <1>11, <1>12, <1>13, <1>14, <1>15, AsyncRebuilt


\* After the copy the frame lives by the reference of the cache, or is given up.
LEMMA CopiedStep == ASSUME Async!InPlace, Async!Copied PROVE Async!InPlace'
<1> USE DEF Async!InPlace, Async!None
<1> DEFINE f == producer.f
<1>1. /\ frame' = Async!Unref({f}) /\ alive' = alive \ {g \in {f} : frame[g].refs = 1}
      /\ producer' = IF frame[f].refs = 1 THEN [at |-> "idle", f |-> 0] ELSE [producer EXCEPT !.at = "push"]
      /\ async' = async /\ graphics' = graphics /\ video_frames' = video_frames /\ misread' = misread
      /\ producer.at = "copy"
  BY DEF Async!Copied, Async!Dead
<1>2. /\ f # 0 /\ f \in Async!Taken /\ f \in Async!Ids
      /\ frame[f].refs = 1 <=> f \notin async.async_cache
  <2>1. f # 0
    BY <1>1 DEF Async!Working
  <2>2. f \in Async!Taken
    BY <1>1, <2>1 DEF Async!Taken
  <2>3. QED
    BY <2>1, <2>2, AsyncMeaning
<1>3. \/ producer' = [at |-> "idle", f |-> 0] /\ f \notin async.async_cache
      \/ /\ producer'.at = "push" /\ producer'.f = f /\ f \in async.async_cache
         /\ producer' \in [at : {"idle", "copy", "push"}, f : Async!Ids \cup {0}]
  BY <1>1, <1>2 DEF Async!TypeOK
<1>4. /\ frame' \in [Async!Ids -> Async!Frame]
      /\ \A g \in Async!Ids :
           /\ frame'[g].refs = IF g \in {f} THEN frame[g].refs - 1 ELSE frame[g].refs
           /\ g \notin {f} => frame'[g] = frame[g]
           /\ frame[g].refs # 1 => frame'[g].used = frame[g].used
  BY <1>1, <1>2, AsyncMeaning, UnrefEffect
<1>5. /\ f \notin Async!Elements(video_frames) /\ f # graphics.f
      /\ f \notin Async!Elements(async.async_frames) /\ f # async.cur /\ f # async.prev
  BY <1>2 DEF Async!Separate
<1>6. Async!Taken' = Async!Taken \ {f}
      /\ Async!Lent' = Async!Lent \cup ({f} \cap async.async_cache)
  <2>1. /\ Async!Elements(async.async_frames)' = Async!Elements(async.async_frames)
        /\ Async!Elements(video_frames)' = Async!Elements(video_frames)
    BY <1>1 DEF Async!Elements
  <2>2. QED
    BY <1>1, <1>3, <1>5, <2>1 DEF Async!Taken, Async!Lent
<1> HIDE DEF f
<1>7. Async!TypeOK'
  BY <1>1, <1>3, <1>4 DEF Async!TypeOK
<1>8. Async!Counted'
  <2>1. \A g \in Async!Ids :
          frame'[g].refs = (IF g \in async'.async_cache THEN 1 ELSE 0)
                             + (IF g \in Async!Taken' THEN 1 ELSE 0)
    <3> SUFFICES ASSUME NEW g \in Async!Ids
                 PROVE  frame'[g].refs = (IF g \in async.async_cache THEN 1 ELSE 0)
                                            + (IF g \in Async!Taken' THEN 1 ELSE 0)
      BY <1>1
    <3>1. frame[g].refs = (IF g \in async.async_cache THEN 1 ELSE 0)
                            + (IF g \in Async!Taken THEN 1 ELSE 0)
      BY AsyncMeaning
    <3>2. CASE g = f
      BY <1>2, <1>4, <1>6, <3>1, <3>2
    <3>3. CASE g # f
      BY <1>4, <1>6, <3>1, <3>3
    <3>4. QED
      BY <3>2, <3>3
  <2>2. alive' = async'.async_cache \cup Async!Taken'
    BY <1>1, <1>2, <1>6, AsyncMeaning
  <2>3. Async!Lent' \subseteq async'.async_cache /\ alive' \subseteq 1..async'.allocated
    BY <1>1, <1>2, <1>6, AsyncMeaning
  <2>4. QED
    BY <2>1, <2>2, <2>3 DEF Async!Counted
<1>9. Async!Working'
  BY <1>1, <1>2, <1>3 DEF Async!Working
<1>10. Async!Separate'
  <2>1. /\ Async!Elements(async.async_frames)' = Async!Elements(async.async_frames)
        /\ Async!Distinct(async.async_frames)' = Async!Distinct(async.async_frames)
        /\ Async!Elements(video_frames)' = Async!Elements(video_frames)
        /\ Async!Distinct(video_frames)' = Async!Distinct(video_frames)
    BY <1>1 DEF Async!Elements, Async!Distinct
  <2>2. 0 \notin Async!Elements(async.async_frames) /\ 0 \notin Async!Elements(video_frames)
    BY AsyncFields, IdsArePositive
  <2>3. QED
    BY <1>1, <1>3, <1>5, <2>1, <2>2 DEF Async!Separate
<1>11. \A g \in async'.async_cache : frame'[g].used <=> g \in Async!Taken' \cup Async!Lent'
  <2> SUFFICES ASSUME NEW g \in async.async_cache
               PROVE  frame'[g].used <=> g \in Async!Taken' \cup Async!Lent'
    BY <1>1
  <2>1. g \in Async!Ids /\ (frame[g].used <=> g \in Async!Taken \cup Async!Lent)
    BY AsyncMeaning
  <2>2. CASE g = f
    BY <1>2, <1>4, <1>6, <2>1, <2>2
  <2>3. CASE g # f
    BY <1>4, <1>6, <2>1, <2>3
  <2>4. QED
    BY <2>2, <2>3
<1>12. QED
  BY <1>7, <1>8, <1>9, <1>10, <1>11, AsyncRebuilt

\* The frame filled goes to the end of the queue.
LEMMA PushStep == ASSUME Async!InPlace, Async!Push PROVE Async!InPlace'
<1> USE DEF Async!InPlace, Async!None
<1> DEFINE f == producer.f
           q == Append(async.async_frames, f)
<1>1. /\ producer.at = "push" /\ producer' = [at |-> "idle", f |-> 0]
      /\ async' = [async EXCEPT !.async_frames = q]
      /\ frame' = frame /\ alive' = alive
      /\ graphics' = graphics /\ video_frames' = video_frames /\ misread' = misread
  BY DEF Async!Push
<1>2. f # 0 /\ f \in Async!Ids
  BY <1>1, AsyncFields DEF Async!Working
<1>3. /\ f \notin Async!Elements(video_frames) /\ f # graphics.f
      /\ f \notin Async!Elements(async.async_frames) /\ f # async.cur /\ f # async.prev
  BY <1>2 DEF Async!Separate
<1>4. /\ q \in Seq(Async!Ids)
      /\ Async!Elements(q) = Async!Elements(async.async_frames) \cup {f}
      /\ Async!Distinct(q)
  <2>1. async.async_frames \in Seq(Async!Ids) /\ Async!Distinct(async.async_frames)
    BY AsyncFields DEF Async!Separate
  <2>2. QED
    BY <1>2, <1>3, <2>1, AppendElements
<1> HIDE DEF q, f
<1>5. /\ async'.async_cache = async.async_cache /\ async'.async_frames = q
      /\ async'.cur = async.cur /\ async'.prev = async.prev /\ async'.allocated = async.allocated
      /\ async' \in [async_cache : SUBSET Async!Ids, async_frames : Seq(Async!Ids),
                     cur : Async!Ids \cup {0}, prev : Async!Ids \cup {0},
                     deinterlace : BOOLEAN, allocated : 0..MaxAllocated]
  BY <1>1, <1>4 DEF Async!TypeOK
<1>6. /\ Async!Elements(async.async_frames)' = Async!Elements(async.async_frames) \cup {f}
      /\ Async!Distinct(async.async_frames)'
      /\ Async!Elements(video_frames)' = Async!Elements(video_frames)
      /\ Async!Distinct(video_frames)' = Async!Distinct(video_frames)
  <2>1. /\ Async!Elements(async.async_frames)' = Async!Elements(q)
        /\ Async!Distinct(async.async_frames)' = Async!Distinct(q)
    BY <1>5 DEF Async!Elements, Async!Distinct
  <2>2. /\ Async!Elements(video_frames)' = Async!Elements(video_frames)
        /\ Async!Distinct(video_frames)' = Async!Distinct(video_frames)
    BY <1>1 DEF Async!Elements, Async!Distinct
  <2>3. QED
    BY <1>4, <2>1, <2>2
<1>7. producer.f = f
  BY DEF f
<1>8. Async!Taken' = Async!Taken /\ Async!Lent' = Async!Lent
  BY <1>1, <1>5, <1>6, <1>7 DEF Async!Taken, Async!Lent
<1>9. Async!TypeOK'
  BY <1>1, <1>5 DEF Async!TypeOK
<1>10. Async!Counted'
  BY <1>1, <1>5, <1>8 DEF Async!Counted
<1>11. Async!Working'
  BY <1>1 DEF Async!Working
<1>12. Async!Separate'
  <2>1. 0 \notin Async!Elements(async.async_frames) /\ 0 \notin Async!Elements(video_frames)
    BY AsyncFields, IdsArePositive
  <2>2. QED
    BY <1>1, <1>2, <1>3, <1>5, <1>6, <1>7, <2>1 DEF Async!Separate
<1>13. \A g \in async'.async_cache : frame'[g].used <=> g \in Async!Taken' \cup Async!Lent'
  BY <1>1, <1>5, <1>8, AsyncMeaning
<1>14. QED
  BY <1>9, <1>10, <1>11, <1>12, <1>13, AsyncRebuilt


\* What none of the places of a frame notices.
LEMMA QuietStep ==
  ASSUME Async!InPlace, Async!TypeOK', Async!Working',
         frame' = frame, alive' = alive, video_frames' = video_frames, producer' = producer,
         async'.async_cache = async.async_cache, async'.async_frames = async.async_frames,
         async'.cur = async.cur, async'.prev = async.prev, async'.allocated = async.allocated,
         graphics'.f = graphics.f
  PROVE  Async!InPlace'
<1>1. Async!Taken' = Async!Taken /\ Async!Lent' = Async!Lent
  BY DEF Async!Taken, Async!Lent, Async!Elements
<1>2. Async!Counted'
  BY <1>1 DEF Async!InPlace, Async!Counted
<1>3. Async!Separate'
  BY DEF Async!InPlace, Async!Separate, Async!Elements, Async!Distinct
<1>4. \A g \in async'.async_cache : frame'[g].used <=> g \in Async!Taken' \cup Async!Lent'
  BY <1>1, AsyncMeaning
<1>5. QED
  BY <1>2, <1>3, <1>4, AsyncRebuilt

LEMMA SizeStep == ASSUME Async!InPlace, Async!Size PROVE Async!InPlace'
<1>1. /\ graphics.at = "size" /\ graphics' = [graphics EXCEPT !.at = "prev"] /\ async' = async
      /\ frame' = frame /\ alive' = alive /\ video_frames' = video_frames
      /\ producer' = producer /\ misread' = misread
  BY DEF Async!Size
<1>2. graphics'.f = graphics.f /\ Async!TypeOK' /\ Async!Working'
  BY <1>1 DEF Async!InPlace, Async!TypeOK, Async!Working
<1>3. QED
  BY <1>1, <1>2, QuietStep

LEMMA SetModeStep == ASSUME Async!InPlace, Async!SetMode PROVE Async!InPlace'
<1>1. /\ graphics' = graphics /\ async' = [async EXCEPT !.deinterlace = ~@]
      /\ frame' = frame /\ alive' = alive /\ video_frames' = video_frames
      /\ producer' = producer /\ misread' = misread
  BY DEF Async!SetMode
<1>2. /\ async'.async_cache = async.async_cache /\ async'.async_frames = async.async_frames
      /\ async'.cur = async.cur /\ async'.prev = async.prev /\ async'.allocated = async.allocated
      /\ async' \in [async_cache : SUBSET Async!Ids, async_frames : Seq(Async!Ids),
                     cur : Async!Ids \cup {0}, prev : Async!Ids \cup {0},
                     deinterlace : BOOLEAN, allocated : 0..MaxAllocated]
  BY <1>1 DEF Async!InPlace, Async!TypeOK, Async!None
<1>3. Async!TypeOK' /\ Async!Working'
  BY <1>1, <1>2 DEF Async!InPlace, Async!TypeOK, Async!Working, Async!None
<1>4. QED
  BY <1>1, <1>2, <1>3, QuietStep

LEMMA QueueKept ==
  ASSUME async'.async_frames = async.async_frames
  PROVE  /\ Async!Elements(async.async_frames)' = Async!Elements(async.async_frames)
         /\ Async!Distinct(async.async_frames)' = Async!Distinct(async.async_frames)
BY DEF Async!Elements, Async!Distinct

LEMMA FilterKept ==
  ASSUME video_frames' = video_frames
  PROVE  /\ Async!Elements(video_frames)' = Async!Elements(video_frames)
         /\ Async!Distinct(video_frames)' = Async!Distinct(video_frames)
BY DEF Async!Elements, Async!Distinct

\* A frame taken to be rendered has a reference of the renderer from then on.
LEMMA TakeStep ==
  ASSUME Async!InPlace, graphics.f = 0,
         NEW f, NEW at \in {"tick", "size", "prev", "show prev", "cur", "show cur"},
         Async!Take(f, at), at \in {"tick", "cur"} => f = 0,
         \/ f = 0 /\ async' = async
         \/ f = async.prev /\ async' = [async EXCEPT !.prev = 0]
         \/ f = async.cur /\ async' = [async EXCEPT !.cur = 0],
         at # "size" /\ at # "prev"
  PROVE  Async!InPlace'
<1> USE DEF Async!InPlace, Async!None
<1>1. /\ graphics' = [at |-> at, f |-> f]
      /\ frame' = IF f = 0 THEN frame ELSE [frame EXCEPT ![f].refs = @ + 1]
      /\ alive' = alive /\ video_frames' = video_frames /\ producer' = producer
      /\ misread' = misread
  BY DEF Async!Take
<1>2. f \in Async!Ids \cup {0} /\ (f # 0 => f \in Async!Lent /\ f \in async.async_cache)
  <2>1. f # 0 => f \in Async!Lent
    BY DEF Async!Lent
  <2>2. QED
    BY <2>1, AsyncMeaning
<1>3. /\ async'.async_cache = async.async_cache /\ async'.async_frames = async.async_frames
      /\ async'.allocated = async.allocated
      /\ \/ f = 0 /\ async'.cur = async.cur /\ async'.prev = async.prev
         \/ f = async.prev /\ async'.cur = async.cur /\ async'.prev = 0
         \/ f = async.cur /\ async'.cur = 0 /\ async'.prev = async.prev
      /\ async' \in [async_cache : SUBSET Async!Ids, async_frames : Seq(Async!Ids),
                     cur : Async!Ids \cup {0}, prev : Async!Ids \cup {0},
                     deinterlace : BOOLEAN, allocated : 0..MaxAllocated]
  BY DEF Async!TypeOK
<1>4. /\ f # 0 => /\ f \notin Async!Elements(video_frames) /\ f # producer.f
                  /\ f \notin Async!Elements(async.async_frames)
                  /\ async'.cur # f /\ async'.prev # f
      /\ 0 \notin Async!Elements(async.async_frames) /\ 0 \notin Async!Elements(video_frames)
  <2>1. 0 \notin Async!Elements(async.async_frames) /\ 0 \notin Async!Elements(video_frames)
    BY AsyncFields, IdsArePositive
  <2>2. QED
    BY <1>3, <2>1 DEF Async!Separate
<1>5. f # 0 => f \notin Async!Taken
  BY <1>4 DEF Async!Taken
<1>6. /\ Async!Elements(async.async_frames)' = Async!Elements(async.async_frames)
      /\ Async!Distinct(async.async_frames)' = Async!Distinct(async.async_frames)
      /\ Async!Elements(video_frames)' = Async!Elements(video_frames)
      /\ Async!Distinct(video_frames)' = Async!Distinct(video_frames)
  BY <1>1, <1>3, QueueKept, FilterKept
<1>7. Async!Taken' = Async!Taken \cup ({f} \ {0}) /\ Async!Lent' = Async!Lent \ {f}
  <2>1. Async!Taken' = Async!Taken \cup ({f} \ {0})
    BY <1>1, <1>6 DEF Async!Taken
  <2>2. 0 \notin Async!Lent
    BY <1>4 DEF Async!Lent, Async!Working
  <2>3. QED
    <3>1. {async'.cur, async'.prev} \ {0} = ({async.cur, async.prev} \ {0}) \ {f}
      <4>1. async.cur # 0 => async.cur # async.prev
        BY DEF Async!Separate
      <4>2. QED
        BY <1>3, <4>1
    <3>2. Async!Elements(async.async_frames) \ {f} = Async!Elements(async.async_frames)
      BY <1>4
    <3>3. (IF producer.at = "push" THEN {producer.f} ELSE {}) \ {f} =
            (IF producer.at = "push" THEN {producer.f} ELSE {})
      BY <1>4, <2>2 DEF Async!Lent
    <3>4. QED
      <4>1. Async!Lent' = Async!Elements(async.async_frames)' \cup ({async'.cur, async'.prev} \ {0})
                            \cup (IF producer'.at = "push" THEN {producer'.f} ELSE {})
        BY DEF Async!Lent
      <4>2. Async!Lent \ {f} = (Async!Elements(async.async_frames) \ {f})
                                 \cup (({async.cur, async.prev} \ {0}) \ {f})
                                 \cup ((IF producer.at = "push" THEN {producer.f} ELSE {}) \ {f})
        BY DEF Async!Lent
      <4>3. Async!Lent' = Async!Lent \ {f}
        BY <1>1, <1>6, <3>1, <3>2, <3>3, <4>1, <4>2
      <4>4. QED
        BY <2>1, <4>3
<1>8. /\ frame' \in [Async!Ids -> Async!Frame]
      /\ \A g \in Async!Ids : /\ frame'[g].refs = IF g = f THEN frame[g].refs + 1 ELSE frame[g].refs
                              /\ frame'[g].used = frame[g].used
  <2>1. CASE f = 0
    BY <1>1, <2>1, IdsArePositive DEF Async!TypeOK
  <2>2. CASE f # 0
    <3>1. frame \in [Async!Ids -> Async!Frame] /\ f \in Async!Ids /\ frame[f].refs \in Nat
      BY <1>2, <2>2, AsyncFields DEF Async!TypeOK
    <3>2. frame' = [frame EXCEPT ![f].refs = @ + 1] /\ frame[f].refs + 1 \in Nat
      <4>1. frame' = [frame EXCEPT ![f].refs = @ + 1]
        BY <1>1, <2>2, Zenon
      <4>2. QED
        BY <3>1, <4>1, Successors, Zenon
    <3>3. ASSUME NEW g \in Async!Ids
          PROVE  /\ frame'[g] \in Async!Frame
                 /\ frame'[g].refs = IF g = f THEN frame[g].refs + 1 ELSE frame[g].refs
                 /\ frame'[g].used = frame[g].used
      <4>1. frame[g] \in Async!Frame
        BY <3>1
      <4>2. CASE g # f
        BY <3>1, <3>2, <4>1, <4>2
      <4>3. CASE g = f
        <5> DEFINE n == frame[g].refs + 1
        <5>1. n \in Nat /\ frame'[g] = [frame[g] EXCEPT !.refs = n]
          BY <3>1, <3>2, <4>3
        <5> HIDE DEF n
        <5>2. frame'[g] \in Async!Frame /\ frame'[g].refs = n
          BY <4>1, <5>1 DEF Async!Frame
        <5>3. frame'[g].used = frame[g].used
          BY <4>1, <5>1 DEF Async!Frame
        <5>4. QED
          BY <4>3, <5>2, <5>3 DEF n
      <4>4. QED
        BY <4>2, <4>3
    <3>4. QED
      BY <3>1, <3>2, <3>3
  <2>3. QED
    BY <2>1, <2>2
<1>9. Async!TypeOK'
  BY <1>1, <1>2, <1>3, <1>8 DEF Async!TypeOK
<1>10. Async!Counted'
  <2>1. \A g \in Async!Ids :
          frame'[g].refs = (IF g \in async'.async_cache THEN 1 ELSE 0)
                             + (IF g \in Async!Taken' THEN 1 ELSE 0)
    <3> SUFFICES ASSUME NEW g \in Async!Ids
                 PROVE  frame'[g].refs = (IF g \in async.async_cache THEN 1 ELSE 0)
                                            + (IF g \in Async!Taken' THEN 1 ELSE 0)
      BY <1>3
    <3>1. g # 0 /\ frame[g].refs = (IF g \in async.async_cache THEN 1 ELSE 0)
                                     + (IF g \in Async!Taken THEN 1 ELSE 0)
      BY AsyncMeaning, IdsArePositive
    <3>2. CASE g = f
      <4>1. g \in async.async_cache /\ g \notin Async!Taken /\ g \in Async!Taken'
        BY <1>2, <1>5, <1>7, <3>1, <3>2
      <4>2. frame[g].refs = 1 /\ frame'[g].refs = frame[g].refs + 1
        <5>1. frame[g].refs = 1
          BY <4>1, AsyncMeaning
        <5>2. frame'[g].refs = IF g = f THEN frame[g].refs + 1 ELSE frame[g].refs
          BY <1>8
        <5>3. QED
          BY <3>2, <5>1, <5>2
      <4>3. QED
        BY <4>1, <4>2
    <3>3. CASE g # f
      BY <1>7, <1>8, <3>1, <3>3
    <3>4. QED
      BY <3>2, <3>3
  <2>2. alive' = async'.async_cache \cup Async!Taken'
    BY <1>1, <1>2, <1>3, <1>7, AsyncMeaning, ZenonT(30)
  <2>3. Async!Lent' \subseteq async'.async_cache /\ alive' \subseteq 1..async'.allocated
    BY <1>1, <1>3, <1>7, AsyncMeaning
  <2>4. QED
    BY <2>1, <2>2, <2>3 DEF Async!Counted
<1>11. Async!Working'
  BY <1>1 DEF Async!Working
<1>12. Async!Separate'
  <2>1. graphics'.f = f /\ producer'.f = producer.f
    BY <1>1
  <2>2. CASE f = 0 /\ async'.cur = async.cur /\ async'.prev = async.prev
    BY <1>3, <1>4, <1>6, <2>1, <2>2 DEF Async!Separate
  <2>3. CASE f # 0 /\ f = async.prev /\ async'.cur = async.cur /\ async'.prev = 0
    <3>1. /\ Async!Distinct(async.async_frames)' /\ Async!Distinct(video_frames)'
          /\ Async!Elements(async.async_frames)' \cap Async!Elements(video_frames)' = {}
      BY <1>6 DEF Async!Separate
    <3>2. (Async!Elements(async.async_frames)' \cup Async!Elements(video_frames)')
             \cap {async'.cur, async'.prev, graphics'.f, producer'.f} = {}
      BY <1>4, <1>6, <2>1, <2>3 DEF Async!Separate
    <3>3. /\ async'.cur # 0 => async'.cur \notin {async'.prev, graphics'.f, producer'.f}
          /\ async'.prev # 0 => async'.prev \notin {graphics'.f, producer'.f}
          /\ graphics'.f # 0 => graphics'.f # producer'.f
      BY <1>4, <2>1, <2>3 DEF Async!Separate
    <3>4. QED
      BY <3>1, <3>2, <3>3 DEF Async!Separate
  <2>4. CASE f # 0 /\ f = async.cur /\ async'.cur = 0 /\ async'.prev = async.prev
    <3>1. /\ Async!Distinct(async.async_frames)' /\ Async!Distinct(video_frames)'
          /\ Async!Elements(async.async_frames)' \cap Async!Elements(video_frames)' = {}
      BY <1>6 DEF Async!Separate
    <3>2. (Async!Elements(async.async_frames)' \cup Async!Elements(video_frames)')
             \cap {async'.cur, async'.prev, graphics'.f, producer'.f} = {}
      BY <1>4, <1>6, <2>1, <2>4 DEF Async!Separate
    <3>3. /\ async'.cur # 0 => async'.cur \notin {async'.prev, graphics'.f, producer'.f}
          /\ async'.prev # 0 => async'.prev \notin {graphics'.f, producer'.f}
          /\ graphics'.f # 0 => graphics'.f # producer'.f
      BY <1>4, <2>1, <2>4 DEF Async!Separate
    <3>4. QED
      BY <3>1, <3>2, <3>3 DEF Async!Separate
  <2>5. QED
    BY <1>3, <2>2, <2>3, <2>4
<1>13. \A g \in async'.async_cache : frame'[g].used <=> g \in Async!Taken' \cup Async!Lent'
  BY <1>2, <1>3, <1>7, <1>8, AsyncMeaning, IdsArePositive
<1>14. QED
  BY <1>9, <1>10, <1>11, <1>12, <1>13, AsyncRebuilt

LEMMA RenderSteps ==
  ASSUME Async!InPlace, Async!RenderPrev \/ Async!RenderCur
  PROVE  Async!InPlace'
<1>1. graphics.f = 0
  BY DEF Async!InPlace, Async!Working, Async!RenderPrev, Async!RenderCur, Async!None
<1>2. CASE Async!RenderPrev
  <2>1. CASE Async!Take(async.prev, "show prev") /\ async' = [async EXCEPT !.prev = 0]
    BY <1>1, <2>1, TakeStep
  <2>2. CASE Async!Take(0, "cur") /\ async' = async
    BY <1>1, <2>2, TakeStep
  <2>3. CASE Async!Take(0, "tick") /\ async' = async
    BY <1>1, <2>3, TakeStep
  <2>4. QED
    BY <1>2, <2>1, <2>2, <2>3 DEF Async!RenderPrev, Async!None
<1>3. CASE Async!RenderCur
  <2>1. Async!Take(async.cur, "show cur") /\ async' = [async EXCEPT !.cur = 0]
    BY <1>3 DEF Async!RenderCur, Async!None
  <2>2. QED
    BY <1>1, <2>1, TakeStep
<1>4. QED
  BY <1>2, <1>3


\* The source lets go of R, and of nothing else; they count as free.
LetsGo(R) ==
  /\ R \subseteq Async!Elements(async.async_frames) \cup ({async.cur, async.prev} \ {0})
  /\ Async!Elements(async.async_frames)' \cup ({async'.cur, async'.prev} \ {0}) =
       (Async!Elements(async.async_frames) \cup ({async.cur, async.prev} \ {0})) \ R
  /\ \A f \in Async!Ids : /\ frame'[f].refs = frame[f].refs
                          /\ f \notin R => frame'[f].used = frame[f].used
                          /\ f \in R /\ f \in async.async_cache => ~frame'[f].used

\* Frames the source lets go of are free: nobody else has them.
LEMMA LetGo ==
  ASSUME Async!InPlace, Async!TypeOK', Async!Working', NEW R, LetsGo(R),
         alive' = alive, video_frames' = video_frames, producer' = producer,
         graphics'.f = graphics.f,
         async'.async_cache = async.async_cache, async'.allocated = async.allocated,
         Async!Distinct(async.async_frames)',
         async'.cur \notin Async!Elements(async.async_frames)',
         async'.prev \notin Async!Elements(async.async_frames)',
         async'.cur # 0 => async'.cur # async'.prev
  PROVE  Async!InPlace'
<1> USE DEF Async!InPlace, Async!None, LetsGo
<1> DEFINE M == Async!Elements(async.async_frames) \cup ({async.cur, async.prev} \ {0})
           N == Async!Elements(async.async_frames)' \cup ({async'.cur, async'.prev} \ {0})
           P == IF producer.at = "push" THEN {producer.f} ELSE {}
<1>1. Async!Elements(video_frames)' = Async!Elements(video_frames)
      /\ Async!Distinct(video_frames)' = Async!Distinct(video_frames)
  BY DEF Async!Elements, Async!Distinct
<1>2. Async!Lent = M \cup P /\ Async!Lent' = N \cup P /\ N = M \ R /\ R \subseteq M
  BY DEF Async!Lent
<1>3. /\ 0 \notin M /\ M \cap Async!Elements(video_frames) = {}
      /\ producer.f \notin M /\ graphics.f \notin M
  <2>1. 0 \notin Async!Elements(async.async_frames)
    BY AsyncFields, IdsArePositive
  <2>2. QED
    BY <2>1 DEF Async!Separate
<1>4. Async!Taken' = Async!Taken
  BY <1>1 DEF Async!Taken
<1>5. M \cap Async!Taken = {} /\ M \cap P = {} /\ M \subseteq async.async_cache
  BY <1>2, <1>3, AsyncMeaning DEF Async!Taken
<1>6. Async!Counted'
  <2>1. Async!Lent' \subseteq Async!Lent
    BY <1>2
  <2>2. \A f \in Async!Ids : frame'[f].refs = (IF f \in async'.async_cache THEN 1 ELSE 0)
                                               + (IF f \in Async!Taken' THEN 1 ELSE 0)
    BY <1>4, AsyncMeaning
  <2>3. QED
    BY <1>4, <2>1, <2>2 DEF Async!Counted
<1>7. Async!Separate'
  <2>1. /\ Async!Elements(async.async_frames)' \subseteq M /\ async'.cur \in M \cup {0}
        /\ async'.prev \in M \cup {0}
    BY <1>2
  <2>2. Async!Elements(async.async_frames)' \cap Async!Elements(video_frames)' = {}
    BY <1>1, <1>3, <2>1
  <2>3. (Async!Elements(async.async_frames)' \cup Async!Elements(video_frames)')
           \cap {async'.cur, async'.prev, graphics'.f, producer'.f} = {}
    <3>1. ASSUME NEW x \in Async!Elements(async.async_frames)'
          PROVE  x \notin {async'.cur, async'.prev, graphics'.f, producer'.f}
      BY <1>3, <2>1
    <3>2. ASSUME NEW x \in Async!Elements(video_frames)'
          PROVE  x \notin {async'.cur, async'.prev, graphics'.f, producer'.f}
      <4>1. x \notin M /\ x # 0
        BY <1>1, <1>3, AsyncFields, IdsArePositive
      <4>2. x # graphics'.f /\ x # producer'.f
        BY <1>1 DEF Async!Separate
      <4>3. QED
        BY <2>1, <4>1, <4>2
    <3>3. QED
      BY <3>1, <3>2
  <2>4. /\ async'.cur # 0 => async'.cur \notin {async'.prev, graphics'.f, producer'.f}
        /\ async'.prev # 0 => async'.prev \notin {graphics'.f, producer'.f}
    BY <1>3, <2>1
  <2>5. graphics'.f # 0 => graphics'.f # producer'.f
    BY DEF Async!Separate
  <2>6. QED
    BY <1>1, <2>2, <2>3, <2>4, <2>5 DEF Async!Separate
<1> HIDE DEF M, N, P
<1>8. \A f \in async'.async_cache : frame'[f].used <=> f \in Async!Taken' \cup Async!Lent'
  <2> SUFFICES ASSUME NEW f \in async.async_cache
               PROVE  frame'[f].used <=> f \in Async!Taken' \cup Async!Lent'
    OBVIOUS
  <2>1. f \in Async!Ids /\ (frame[f].used <=> f \in Async!Taken \cup Async!Lent)
    BY AsyncMeaning
  <2>2. CASE f \in R
    BY <1>2, <1>4, <1>5, <2>1, <2>2
  <2>3. CASE f \notin R
    BY <1>2, <1>4, <2>1, <2>3
  <2>4. QED
    BY <2>2, <2>3
<1>9. QED
  BY <1>6, <1>7, <1>8, AsyncRebuilt

\* What is left of a queue after its first k is what it had, without those.
LEMMA QueueSplit ==
  ASSUME NEW s \in Seq(Async!Ids), NEW k \in 0..Len(s), Async!Distinct(s)
  PROVE  /\ SubSeq(s, 1, k) \in Seq(Async!Ids) /\ SubSeq(s, k + 1, Len(s)) \in Seq(Async!Ids)
         /\ Async!Elements(SubSeq(s, 1, k)) \cup Async!Elements(SubSeq(s, k + 1, Len(s))) =
              Async!Elements(s)
         /\ Async!Elements(SubSeq(s, 1, k)) \cap Async!Elements(SubSeq(s, k + 1, Len(s))) = {}
         /\ Async!Distinct(SubSeq(s, k + 1, Len(s)))
<1>1. /\ 1 \in 1..(Len(s) + 1) /\ k + 1 \in 1..(Len(s) + 1) /\ Len(s) \in 0..Len(s)
      /\ DOMAIN s = 1..Len(s) /\ Len(s) \in Nat /\ k \in Nat
  OBVIOUS
<1>2. /\ SubSeq(s, 1, k) \in Seq(Async!Ids) /\ SubSeq(s, k + 1, Len(s)) \in Seq(Async!Ids)
      /\ Async!Elements(SubSeq(s, 1, k)) = {s[i] : i \in 1..k}
      /\ Async!Elements(SubSeq(s, k + 1, Len(s))) = {s[i] : i \in (k + 1)..Len(s)}
      /\ Async!Distinct(SubSeq(s, k + 1, Len(s)))
  BY <1>1, SubElements, Zenon
<1>3. Async!Elements(s) = {s[i] : i \in 1..Len(s)}
  BY SeqElements, Zenon
<1>4. 1..Len(s) = 1..k \cup (k + 1)..Len(s) /\ 1..k \cap (k + 1)..Len(s) = {}
  BY <1>1
<1>5. {s[i] : i \in 1..Len(s)} = {s[i] : i \in 1..k} \cup {s[i] : i \in (k + 1)..Len(s)}
  BY <1>4
<1>6. {s[i] : i \in 1..k} \cap {s[i] : i \in (k + 1)..Len(s)} = {}
  BY <1>1, <1>4 DEF Async!Distinct
<1>7. QED
  BY <1>2, <1>3, <1>5, <1>6

\* The first of what is left.
LEMMA QueueHead ==
  ASSUME NEW s \in Seq(Async!Ids), s # <<>>, Async!Distinct(s)
  PROVE  /\ s[1] \in Async!Ids /\ SubSeq(s, 2, Len(s)) \in Seq(Async!Ids)
         /\ Async!Elements(s) = {s[1]} \cup Async!Elements(SubSeq(s, 2, Len(s)))
         /\ s[1] \notin Async!Elements(SubSeq(s, 2, Len(s)))
         /\ Async!Distinct(SubSeq(s, 2, Len(s)))
<1>1. Head(s) = s[1] /\ Tail(s) = SubSeq(s, 2, Len(s))
  OBVIOUS
<1>2. /\ Head(s) \in Async!Ids /\ Tail(s) \in Seq(Async!Ids)
      /\ Async!Elements(s) = {Head(s)} \cup Async!Elements(Tail(s))
      /\ Async!Distinct(Tail(s)) /\ Head(s) \notin Async!Elements(Tail(s))
  BY HeadElements
<1>3. QED
  BY <1>1, <1>2, Zenon


\* The frame in the middle, those before it and those after it.
LEMMA QueueSplitAt ==
  ASSUME NEW s \in Seq(Async!Ids), NEW i \in DOMAIN s, Async!Distinct(s)
  PROVE  /\ SubSeq(s, i + 1, Len(s)) \in Seq(Async!Ids) /\ s[i] \in Async!Ids
         /\ Async!Elements(SubSeq(s, 1, i - 1)) \cup {s[i]}
              \cup Async!Elements(SubSeq(s, i + 1, Len(s))) = Async!Elements(s)
         /\ Async!Elements(SubSeq(s, 1, i - 1)) \cap Async!Elements(SubSeq(s, i + 1, Len(s))) = {}
         /\ s[i] \notin Async!Elements(SubSeq(s, 1, i - 1)) \cup Async!Elements(SubSeq(s, i + 1, Len(s)))
         /\ Async!Distinct(SubSeq(s, i + 1, Len(s)))
<1>1. /\ 1 \in 1..(Len(s) + 1) /\ i + 1 \in 1..(Len(s) + 1) /\ Len(s) \in 0..Len(s)
      /\ i - 1 \in 0..Len(s) /\ DOMAIN s = 1..Len(s) /\ Len(s) \in Nat /\ i \in Nat \ {0}
      /\ s[i] \in Async!Ids
  OBVIOUS
<1>2. /\ SubSeq(s, i + 1, Len(s)) \in Seq(Async!Ids)
      /\ Async!Elements(SubSeq(s, 1, i - 1)) = {s[k] : k \in 1..(i - 1)}
      /\ Async!Elements(SubSeq(s, i + 1, Len(s))) = {s[k] : k \in (i + 1)..Len(s)}
      /\ Async!Distinct(SubSeq(s, i + 1, Len(s)))
  <2>1. Async!Elements(SubSeq(s, 1, i - 1)) = {s[k] : k \in 1..(i - 1)}
    <3> DEFINE b == i - 1
    <3>1. b \in 0..Len(s) /\ 1 \in 1..(Len(s) + 1)
      BY <1>1
    <3> HIDE DEF b
    <3>2. Async!Elements(SubSeq(s, 1, b)) = {s[k] : k \in 1..b}
      BY <3>1, SubElements, Zenon
    <3>3. QED
      BY <3>2 DEF b
  <2>2. /\ SubSeq(s, i + 1, Len(s)) \in Seq(Async!Ids)
        /\ Async!Elements(SubSeq(s, i + 1, Len(s))) = {s[k] : k \in (i + 1)..Len(s)}
        /\ Async!Distinct(s) => Async!Distinct(SubSeq(s, i + 1, Len(s)))
    BY <1>1, SubElements, Zenon
  <2>3. QED
    BY <2>1, <2>2
<1>3. Async!Elements(s) = {s[k] : k \in 1..Len(s)}
  BY SeqElements, Zenon
<1>4. /\ 1..Len(s) = 1..(i - 1) \cup {i} \cup (i + 1)..Len(s)
      /\ 1..(i - 1) \cap (i + 1)..Len(s) = {} /\ i \notin 1..(i - 1) /\ i \notin (i + 1)..Len(s)
  BY <1>1
<1>5. {s[k] : k \in 1..Len(s)} =
        {s[k] : k \in 1..(i - 1)} \cup {s[i]} \cup {s[k] : k \in (i + 1)..Len(s)}
  BY <1>4
<1>6. /\ {s[k] : k \in 1..(i - 1)} \cap {s[k] : k \in (i + 1)..Len(s)} = {}
      /\ s[i] \notin {s[k] : k \in 1..(i - 1)} /\ s[i] \notin {s[k] : k \in (i + 1)..Len(s)}
  BY <1>1, <1>4, SMTT(20) DEF Async!Distinct
<1>7. QED
  BY <1>1, <1>2, <1>3, <1>5, <1>6


LEMMA ClearPrevStep == ASSUME Async!InPlace, Async!ClearPrev PROVE Async!InPlace'
<1> USE DEF Async!InPlace, Async!None
<1> DEFINE R == {async.prev} \ {0}
<1>1. /\ frame' = Async!Removed(R) /\ async' = [async EXCEPT !.prev = 0]
      /\ alive' = alive /\ video_frames' = video_frames /\ producer' = producer
      /\ graphics' = graphics /\ misread' = misread
  BY DEF Async!ClearPrev
<1>2. /\ async'.async_cache = async.async_cache /\ async'.async_frames = async.async_frames
      /\ async'.cur = async.cur /\ async'.prev = 0 /\ async'.allocated = async.allocated
      /\ async' \in [async_cache : SUBSET Async!Ids, async_frames : Seq(Async!Ids),
                     cur : Async!Ids \cup {0}, prev : Async!Ids \cup {0},
                     deinterlace : BOOLEAN, allocated : 0..MaxAllocated]
  BY <1>1 DEF Async!TypeOK
<1>3. /\ frame' \in [Async!Ids -> Async!Frame]
      /\ \A f \in Async!Ids : /\ frame'[f].refs = frame[f].refs
                              /\ f \notin R => frame'[f] = frame[f]
                              /\ f \in R /\ f \in async.async_cache => ~frame'[f].used
  BY <1>1, RemovedEffect
<1>4. Async!TypeOK' /\ Async!Working'
  BY <1>1, <1>2, <1>3 DEF Async!TypeOK, Async!Working
<1>5. /\ Async!Elements(async.async_frames)' = Async!Elements(async.async_frames)
      /\ Async!Distinct(async.async_frames)'
  BY <1>2 DEF Async!Elements, Async!Distinct, Async!Separate
<1>6. /\ 0 \notin Async!Elements(async.async_frames)
      /\ async.cur \notin Async!Elements(async.async_frames)
      /\ async.prev \notin Async!Elements(async.async_frames)
      /\ async.cur # 0 => async.cur # async.prev
  <2>1. 0 \notin Async!Elements(async.async_frames)
    BY AsyncFields, IdsArePositive
  <2>2. QED
    BY <2>1 DEF Async!Separate
<1>7. LetsGo(R)
  BY <1>2, <1>3, <1>5, <1>6 DEF LetsGo
<1>8. QED
  BY <1>1, <1>2, <1>4, <1>5, <1>6, <1>7, LetGo

\* get_closest_frame: what is dropped is free, what is due is the current frame.
LEMMA TickPlainStep == ASSUME Async!InPlace, Async!TickPlain PROVE Async!InPlace'
<1> USE DEF Async!InPlace, Async!None
<1> DEFINE q == async.async_frames
<1>1. /\ graphics.at = "tick" /\ graphics' = [graphics EXCEPT !.at = "size"]
      /\ alive' = alive /\ video_frames' = video_frames /\ producer' = producer
      /\ misread' = misread
  BY DEF Async!TickPlain
<1>2. graphics'.f = graphics.f /\ graphics'.at = "size" /\ Async!Working'
      /\ graphics' \in [at : {"tick", "size", "prev", "show prev", "cur", "show cur"},
                        f : Async!Ids \cup {0}]
  BY <1>1 DEF Async!TypeOK, Async!Working
<1>3. /\ q \in Seq(Async!Ids) /\ Async!Distinct(q) /\ 0 \notin Async!Elements(q)
      /\ async.cur \notin Async!Elements(q) /\ async.prev \notin Async!Elements(q)
      /\ async.cur # 0 => async.cur # async.prev
      /\ {async.cur, async.prev} \subseteq Async!Ids \cup {0}
  BY AsyncFields, IdsArePositive DEF Async!Separate
<1>4. CASE /\ frame' = Async!Removed({async.cur} \ {0})
           /\ async' = [async EXCEPT !.cur = 0]
  <2> DEFINE R == {async.cur} \ {0}
  <2>1. /\ async'.async_cache = async.async_cache /\ async'.async_frames = async.async_frames
        /\ async'.cur = 0 /\ async'.prev = async.prev /\ async'.allocated = async.allocated
        /\ async' \in [async_cache : SUBSET Async!Ids, async_frames : Seq(Async!Ids),
                       cur : Async!Ids \cup {0}, prev : Async!Ids \cup {0},
                       deinterlace : BOOLEAN, allocated : 0..MaxAllocated]
    BY <1>4 DEF Async!TypeOK
  <2>2. /\ frame' \in [Async!Ids -> Async!Frame]
        /\ \A f \in Async!Ids : /\ frame'[f].refs = frame[f].refs
                                /\ f \notin R => frame'[f] = frame[f]
                                /\ f \in R /\ f \in async.async_cache => ~frame'[f].used
    BY <1>4, RemovedEffect
  <2>3. Async!TypeOK'
    BY <1>1, <1>2, <2>1, <2>2 DEF Async!TypeOK
  <2>4. /\ Async!Elements(async.async_frames)' = Async!Elements(async.async_frames)
        /\ Async!Distinct(async.async_frames)'
    BY <2>1 DEF Async!Elements, Async!Distinct, Async!Separate
  <2>5. LetsGo(R)
    BY <1>3, <2>1, <2>2, <2>4 DEF LetsGo
  <2>6. QED
    BY <1>1, <1>2, <1>3, <2>1, <2>3, <2>4, <2>5, LetGo
<1>5. ASSUME NEW i \in DOMAIN q,
             frame' = Async!Removed(({async.cur} \ {0}) \cup Async!Elements(SubSeq(q, 1, i - 1))),
             async' = [async EXCEPT !.cur = q[i], !.async_frames = SubSeq(q, i + 1, Len(q))]
      PROVE  Async!InPlace'
  <2> DEFINE drop == SubSeq(q, 1, i - 1)
             rest == SubSeq(q, i, Len(q))
             then == SubSeq(q, i + 1, Len(q))
             R == ({async.cur} \ {0}) \cup Async!Elements(drop)
  <2>1. /\ Async!Elements(drop) \cup {q[i]} \cup Async!Elements(then) = Async!Elements(q)
        /\ Async!Elements(drop) \cap Async!Elements(then) = {}
        /\ q[i] \notin Async!Elements(drop) \cup Async!Elements(then)
        /\ Async!Distinct(then) /\ then \in Seq(Async!Ids) /\ q[i] \in Async!Ids
    BY <1>3, QueueSplitAt
  <2> HIDE DEF drop, rest, then
  <2>2. /\ async'.async_cache = async.async_cache /\ async'.async_frames = then
        /\ async'.cur = q[i] /\ async'.prev = async.prev /\ async'.allocated = async.allocated
        /\ async' \in [async_cache : SUBSET Async!Ids, async_frames : Seq(Async!Ids),
                       cur : Async!Ids \cup {0}, prev : Async!Ids \cup {0},
                       deinterlace : BOOLEAN, allocated : 0..MaxAllocated]
    BY <1>5, <2>1 DEF Async!TypeOK, then
  <2>3. /\ frame' \in [Async!Ids -> Async!Frame]
        /\ \A f \in Async!Ids : /\ frame'[f].refs = frame[f].refs
                                /\ f \notin R => frame'[f] = frame[f]
                                /\ f \in R /\ f \in async.async_cache => ~frame'[f].used
    BY <1>5, RemovedEffect DEF drop
  <2>4. Async!TypeOK'
    BY <1>1, <1>2, <2>2, <2>3 DEF Async!TypeOK
  <2>5. /\ Async!Elements(async.async_frames)' = Async!Elements(then)
        /\ Async!Distinct(async.async_frames)' = Async!Distinct(then)
    BY <2>2 DEF Async!Elements, Async!Distinct
  <2>6. /\ R \subseteq Async!Elements(q) \cup ({async.cur, async.prev} \ {0})
        /\ Async!Elements(then) \cup ({q[i], async.prev} \ {0}) =
             (Async!Elements(q) \cup ({async.cur, async.prev} \ {0})) \ R
        /\ q[i] \notin Async!Elements(then) /\ async.prev \notin Async!Elements(then)
        /\ q[i] # async.prev
    BY <1>3, <2>1
  <2>7. LetsGo(R)
    BY <2>2, <2>3, <2>5, <2>6 DEF LetsGo
  <2> HIDE DEF R
  <2>8. QED
    BY <1>1, <1>2, <2>1, <2>2, <2>4, <2>5, <2>6, <2>7, LetGo
<1>6. QED
  BY <1>4, <1>5 DEF Async!TickPlain


\* A mark on a frame changes nothing else.
LEMMA MarkedFrame ==
  ASSUME NEW g \in [Async!Ids -> Async!Frame], NEW h \in Async!Ids
  PROVE  /\ [g EXCEPT ![h].prev_frame = TRUE] \in [Async!Ids -> Async!Frame]
         /\ \A f \in Async!Ids : /\ [g EXCEPT ![h].prev_frame = TRUE][f].refs = g[f].refs
                                 /\ [g EXCEPT ![h].prev_frame = TRUE][f].used = g[f].used
<1>1. g[h] \in Async!Frame
  OBVIOUS
<1>2. /\ [g[h] EXCEPT !.prev_frame = TRUE] \in Async!Frame
      /\ [g[h] EXCEPT !.prev_frame = TRUE].refs = g[h].refs
  BY <1>1 DEF Async!Frame
<1>3. [g[h] EXCEPT !.prev_frame = TRUE].used = g[h].used
  BY <1>1 DEF Async!Frame
<1>4. QED
  BY <1>2, <1>3


LEMMA QueueLengths ==
  ASSUME NEW s \in Seq(Async!Ids), s # <<>>
  PROVE  /\ Len(s) \in Nat \ {0}
         /\ \A k \in 0..(Len(s) - 1) : /\ Len(SubSeq(s, k + 1, Len(s))) \in Nat \ {0}
                                       /\ SubSeq(s, k + 1, Len(s)) # <<>>
<1>1. Len(s) \in Nat \ {0}
  OBVIOUS
<1>2. ASSUME NEW k \in 0..(Len(s) - 1)
      PROVE  Len(SubSeq(s, k + 1, Len(s))) \in Nat \ {0} /\ SubSeq(s, k + 1, Len(s)) # <<>>
  <2>1. Len(SubSeq(s, k + 1, Len(s))) = Len(s) - k
    BY <1>1
  <2>2. \A n \in Nat \ {0} : \A j \in 0..(n - 1) : n - j \in Nat \ {0}
    OBVIOUS
  <2>3. Len(SubSeq(s, k + 1, Len(s))) \in Nat \ {0}
    BY <1>1, <2>1, <2>2, Zenon
  <2>4. Len(<<>>) = 0
    OBVIOUS
  <2>5. QED
    BY <2>3, <2>4, Zenon
<1>3. QED
  BY <1>1, <1>2

LEMMA QueueSecond ==
  ASSUME NEW s \in Seq(Async!Ids), Len(s) # 0, Len(s) # 1
  PROVE  LET t == SubSeq(s, 2, Len(s))
         IN  t # <<>> /\ t[1] = s[2] /\ SubSeq(s, 3, Len(s)) = SubSeq(t, 2, Len(t))
<1>1. Len(s) \in Nat /\ Len(s) >= 2
  <2>1. Len(s) \in Nat
    OBVIOUS
  <2>2. \A n \in Nat : n # 0 /\ n # 1 => n >= 2
    OBVIOUS
  <2>3. QED
    BY <2>1, <2>2
<1> DEFINE t == SubSeq(s, 2, Len(s))
<1>2. t \in Seq(Async!Ids) /\ Len(t) = Len(s) - 1 /\ \A i \in 1..(Len(s) - 1) : t[i] = s[i + 1]
  BY <1>1
<1> HIDE DEF t
<1>3. t # <<>> /\ t[1] = s[2]
  BY <1>1, <1>2
<1> DEFINE u == SubSeq(s, 3, Len(s))
           v == SubSeq(t, 2, Len(t))
<1>4. u \in Seq(Async!Ids) /\ Len(u) = Len(s) - 2 /\ \A i \in 1..(Len(s) - 2) : u[i] = s[i + 2]
  <2>1. CASE Len(s) = 2
    <3>1. u = <<>> /\ Len(s) - 2 = 0
      BY <2>1
    <3>2. <<>> \in Seq(Async!Ids) /\ Len(<<>>) = 0 /\ 1..0 = {}
      OBVIOUS
    <3>3. QED
      BY <3>1, <3>2, Zenon
  <2>2. CASE Len(s) > 2
    BY <1>1, <2>2
  <2>3. Len(s) = 2 \/ Len(s) > 2
    <3>1. \A n \in Nat : n >= 2 => n = 2 \/ n > 2
      OBVIOUS
    <3>2. QED
      BY <1>1, <3>1
  <2>4. QED
    BY <2>1, <2>2, <2>3, Zenon
<1>5. v \in Seq(Async!Ids) /\ Len(v) = Len(s) - 2 /\ \A i \in 1..(Len(s) - 2) : v[i] = t[i + 1]
  <2>1. CASE Len(s) = 2
    <3>1. v = <<>> /\ Len(s) - 2 = 0
      BY <1>2, <2>1
    <3>2. <<>> \in Seq(Async!Ids) /\ Len(<<>>) = 0 /\ 1..0 = {}
      OBVIOUS
    <3>3. QED
      BY <3>1, <3>2, Zenon
  <2>2. CASE Len(s) > 2
    BY <1>1, <1>2, <2>2
  <2>3. Len(s) = 2 \/ Len(s) > 2
    <3>1. \A n \in Nat : n >= 2 => n = 2 \/ n > 2
      OBVIOUS
    <3>2. QED
      BY <1>1, <3>1
  <2>4. QED
    BY <2>1, <2>2, <2>3, Zenon
<1> HIDE DEF u, v
<1>6. \A i \in 1..(Len(s) - 2) : u[i] = v[i]
  BY <1>1, <1>2, <1>4, <1>5, SMTT(20)
<1>7. u = v
  <2> DEFINE n == Len(s) - 2
  <2>1. /\ u \in Seq(Async!Ids) /\ Len(u) = n /\ v \in Seq(Async!Ids) /\ Len(v) = n
        /\ \A i \in 1..n : u[i] = v[i]
    BY <1>4, <1>5, <1>6
  <2> HIDE DEF n
  <2>2. u = [i \in 1..n |-> u[i]] /\ v = [i \in 1..n |-> v[i]]
    BY <2>1
  <2>3. [i \in 1..n |-> u[i]] = [i \in 1..n |-> v[i]]
    BY <2>1
  <2>4. QED
    BY <2>2, <2>3, Zenon
<1>8. QED
  BY <1>3, <1>7 DEF t, u, v

LEMMA DropFields ==
  ASSUME NEW n \in Nat \ {0}, NEW c \in Async!DropAndMark(n)
  PROVE  c.drop \in 0..(n - 1) /\ c.mark \in 0..n
BY DEF Async!DropAndMark, Async!None

\* deinterlace_get_closest_frames: the same, with two frames that are due, unless
\* the second is read from an empty queue.
LEMMA TickDeinterlaceStep == ASSUME Async!InPlace, Async!TickDeinterlace PROVE Async!IInv'
<1> DEFINE q == async.async_frames
<1>1. /\ graphics.at = "tick" /\ graphics' = [graphics EXCEPT !.at = "size"]
      /\ alive' = alive /\ video_frames' = video_frames /\ producer' = producer
  BY DEF Async!TickDeinterlace
<1>2. graphics'.f = graphics.f /\ graphics'.at = "size" /\ Async!Working'
      /\ graphics' \in [at : {"tick", "size", "prev", "show prev", "cur", "show cur"},
                        f : Async!Ids \cup {0}]
  BY <1>1 DEF Async!InPlace, Async!TypeOK, Async!Working, Async!None
<1>3. /\ q \in Seq(Async!Ids) /\ Async!Distinct(q) /\ 0 \notin Async!Elements(q)
      /\ async.cur \notin Async!Elements(q) /\ async.prev \notin Async!Elements(q)
      /\ {async.cur, async.prev} \subseteq Async!Ids \cup {0}
      /\ Async!Last = {async.cur, async.prev} \ {0}
  BY AsyncFields, IdsArePositive DEF Async!InPlace, Async!Separate, Async!Last, Async!None
<1>4. CASE /\ frame' = Async!Removed(Async!Last)
           /\ async' = [async EXCEPT !.cur = 0, !.prev = 0]
           /\ misread' = misread
  <2>1. /\ async'.async_cache = async.async_cache /\ async'.async_frames = async.async_frames
        /\ async'.cur = 0 /\ async'.prev = 0 /\ async'.allocated = async.allocated
        /\ async' \in [async_cache : SUBSET Async!Ids, async_frames : Seq(Async!Ids),
                       cur : Async!Ids \cup {0}, prev : Async!Ids \cup {0},
                       deinterlace : BOOLEAN, allocated : 0..MaxAllocated]
    BY <1>4 DEF Async!InPlace, Async!TypeOK, Async!None
  <2>2. /\ frame' \in [Async!Ids -> Async!Frame]
        /\ \A f \in Async!Ids : /\ frame'[f].refs = frame[f].refs
                                /\ f \notin Async!Last => frame'[f] = frame[f]
                                /\ f \in Async!Last /\ f \in async.async_cache => ~frame'[f].used
    BY <1>4, RemovedEffect DEF Async!InPlace
  <2>3. Async!TypeOK'
    BY <1>1, <1>2, <1>4, <2>1, <2>2 DEF Async!InPlace, Async!TypeOK, Async!None
  <2>4. /\ Async!Elements(async.async_frames)' = Async!Elements(async.async_frames)
        /\ Async!Distinct(async.async_frames)'
    BY <1>3, <2>1 DEF Async!Elements, Async!Distinct
  <2>5. LetsGo(Async!Last)
    BY <1>3, <2>1, <2>2, <2>4 DEF LetsGo
  <2>6. Async!InPlace'
    BY <1>1, <1>2, <1>3, <2>1, <2>3, <2>4, <2>5, LetGo
  <2>7. QED
    BY <2>6 DEF Async!IInv
<1>5. ASSUME q # <<>>, NEW c \in Async!DropAndMark(Len(q)),
             LET rest   == SubSeq(q, c.drop + 1, Len(q))
                 gone   == Async!Removed(Async!Last \cup Async!Elements(SubSeq(q, 1, c.drop)))
                 marked == IF c.mark = 0 THEN gone ELSE [gone EXCEPT ![q[c.mark]].prev_frame = TRUE]
                 two    == marked[rest[1]].prev_frame
                 short  == two /\ Len(rest) = 1
             IN /\ frame' = marked
                /\ async' = [async EXCEPT
                     !.prev = IF two THEN rest[1] ELSE 0,
                     !.cur = IF two /\ ~short THEN rest[2] ELSE rest[1],
                     !.async_frames = SubSeq(rest, IF two THEN 3 ELSE 2, Len(rest))]
                /\ misread' = (misread \/ short)
      PROVE  Async!IInv'
  <2> DEFINE drop == SubSeq(q, 1, c.drop)
             rest == SubSeq(q, c.drop + 1, Len(q))
             R    == Async!Last \cup Async!Elements(drop)
             gone == Async!Removed(R)
             two  == frame'[rest[1]].prev_frame
  <2>1. /\ frame' = IF c.mark = 0 THEN gone ELSE [gone EXCEPT ![q[c.mark]].prev_frame = TRUE]
        /\ two /\ Len(rest) = 1 => misread'
        /\ ~(two /\ Len(rest) = 1) => misread' = misread
        /\ async' = [async EXCEPT
                     !.prev = IF two THEN rest[1] ELSE 0,
                     !.cur = IF two /\ ~(two /\ Len(rest) = 1) THEN rest[2] ELSE rest[1],
                     !.async_frames = SubSeq(rest, IF two THEN 3 ELSE 2, Len(rest))]
    <3> DEFINE marked == IF c.mark = 0 THEN gone ELSE [gone EXCEPT ![q[c.mark]].prev_frame = TRUE]
               then(f)  == [async EXCEPT
                     !.prev = IF f[rest[1]].prev_frame THEN rest[1] ELSE 0,
                     !.cur = IF f[rest[1]].prev_frame /\ ~(f[rest[1]].prev_frame /\ Len(rest) = 1)
                             THEN rest[2] ELSE rest[1],
                     !.async_frames =
                       SubSeq(rest, IF f[rest[1]].prev_frame THEN 3 ELSE 2, Len(rest))]
    <3>1. /\ frame' = marked
          /\ async' = then(marked)
          /\ misread' = (misread \/ (marked[rest[1]].prev_frame /\ Len(rest) = 1))
      BY <1>5, Zenon
    <3> HIDE DEF marked
    <3>2. /\ async' = then(frame')
          /\ misread' = (misread \/ (frame'[rest[1]].prev_frame /\ Len(rest) = 1))
      BY <3>1, Zenon
    <3> HIDE DEF then
    <3>3. frame' = IF c.mark = 0 THEN gone ELSE [gone EXCEPT ![q[c.mark]].prev_frame = TRUE]
      BY <3>1 DEF marked
    <3>4. async' = [async EXCEPT
                     !.prev = IF two THEN rest[1] ELSE 0,
                     !.cur = IF two /\ ~(two /\ Len(rest) = 1) THEN rest[2] ELSE rest[1],
                     !.async_frames = SubSeq(rest, IF two THEN 3 ELSE 2, Len(rest))]
      BY <3>2, Zenon DEF then
    <3>5. misread \in BOOLEAN
      BY DEF Async!InPlace, Async!TypeOK
    <3>6. (two /\ Len(rest) = 1 => misread') /\ (~(two /\ Len(rest) = 1) => misread' = misread)
      BY <3>2, <3>5, Zenon
    <3>7. QED
      BY <3>3, <3>4, <3>6, Zenon
  <2>2. /\ Len(q) \in Nat \ {0} /\ c.drop \in 0..(Len(q) - 1) /\ c.drop \in 0..Len(q)
        /\ c.mark \in 0..Len(q)
    <3>1. Len(q) \in Nat \ {0}
      BY <1>3, <1>5, QueueLengths, Zenon
    <3>2. c.drop \in 0..(Len(q) - 1) /\ c.mark \in 0..Len(q)
      BY <1>5, <3>1, DropFields, Zenon
    <3>3. QED
      BY <3>1, <3>2
  <2>3. /\ rest \in Seq(Async!Ids) /\ rest # <<>> /\ Len(rest) \in Nat \ {0}
        /\ drop \in Seq(Async!Ids) /\ Async!Distinct(rest)
        /\ Async!Elements(drop) \cup Async!Elements(rest) = Async!Elements(q)
        /\ Async!Elements(drop) \cap Async!Elements(rest) = {}
    <3>1. /\ rest \in Seq(Async!Ids) /\ drop \in Seq(Async!Ids) /\ Async!Distinct(rest)
          /\ Async!Elements(drop) \cup Async!Elements(rest) = Async!Elements(q)
          /\ Async!Elements(drop) \cap Async!Elements(rest) = {}
      BY <1>3, <2>2, QueueSplit, Zenon
    <3>2. Len(rest) \in Nat \ {0} /\ rest # <<>>
      BY <1>3, <1>5, <2>2, QueueLengths, Zenon
    <3>3. QED
      BY <3>1, <3>2
  <2> HIDE DEF rest, drop
  <2>4. /\ frame' \in [Async!Ids -> Async!Frame]
        /\ \A f \in Async!Ids : /\ frame'[f].refs = frame[f].refs
                                /\ f \notin R => frame'[f].used = frame[f].used
                                /\ f \in R /\ f \in async.async_cache => ~frame'[f].used
    <3>1. /\ gone \in [Async!Ids -> Async!Frame]
          /\ \A f \in Async!Ids : /\ gone[f].refs = frame[f].refs
                                  /\ f \notin R => gone[f] = frame[f]
                                  /\ f \in R /\ f \in async.async_cache => ~gone[f].used
      BY RemovedEffect DEF Async!InPlace
    <3>2. c.mark # 0 => q[c.mark] \in Async!Ids
      BY <1>3, <2>2
    <3> HIDE DEF gone, R
    <3>3. /\ frame' \in [Async!Ids -> Async!Frame]
          /\ \A f \in Async!Ids : frame'[f].refs = gone[f].refs /\ frame'[f].used = gone[f].used
      <4>1. CASE c.mark = 0
        BY <2>1, <3>1, <4>1
      <4>2. CASE c.mark # 0
        BY <2>1, <3>1, <3>2, <4>2, MarkedFrame
      <4>3. QED
        BY <4>1, <4>2
    <3>4. QED
      BY <3>1, <3>3
  <2> HIDE DEF gone
  <2>5. CASE two /\ Len(rest) = 1
    BY <2>1, <2>5 DEF Async!IInv
  <2>6. CASE ~two
    <3> DEFINE then == SubSeq(rest, 2, Len(rest))
    <3>1. /\ rest[1] \in Async!Ids /\ then \in Seq(Async!Ids)
          /\ Async!Elements(rest) = {rest[1]} \cup Async!Elements(then)
          /\ rest[1] \notin Async!Elements(then) /\ Async!Distinct(then)
      BY <2>3, QueueHead
    <3>2. async' = [async EXCEPT !.prev = 0, !.cur = rest[1], !.async_frames = then]
          /\ misread' = misread
      BY <2>1, <2>6
    <3> HIDE DEF then, R
    <3>3. /\ async'.async_cache = async.async_cache /\ async'.async_frames = then
          /\ async'.cur = rest[1] /\ async'.prev = 0 /\ async'.allocated = async.allocated
          /\ async' \in [async_cache : SUBSET Async!Ids, async_frames : Seq(Async!Ids),
                         cur : Async!Ids \cup {0}, prev : Async!Ids \cup {0},
                         deinterlace : BOOLEAN, allocated : 0..MaxAllocated]
      BY <3>1, <3>2 DEF Async!InPlace, Async!TypeOK, Async!None
    <3>4. Async!TypeOK'
      BY <1>1, <1>2, <2>4, <3>2, <3>3 DEF Async!InPlace, Async!TypeOK, Async!None
    <3>5. /\ Async!Elements(async.async_frames)' = Async!Elements(then)
          /\ Async!Distinct(async.async_frames)' = Async!Distinct(then)
      BY <3>3 DEF Async!Elements, Async!Distinct
    <3>6. /\ R \subseteq Async!Elements(q) \cup ({async.cur, async.prev} \ {0})
          /\ Async!Elements(then) \cup ({rest[1], 0} \ {0}) =
               (Async!Elements(q) \cup ({async.cur, async.prev} \ {0})) \ R
          /\ 0 \notin Async!Elements(then) /\ rest[1] # 0
      BY <1>3, <2>3, <3>1, IdsArePositive DEF R
    <3>7. LetsGo(R)
      BY <2>4, <3>3, <3>5, <3>6 DEF LetsGo
    <3>8. Async!InPlace'
      BY <1>1, <1>2, <3>1, <3>3, <3>4, <3>5, <3>6, <3>7, LetGo
    <3>9. QED
      BY <3>8 DEF Async!IInv
  <2>7. CASE two /\ Len(rest) # 1
    <3> DEFINE tail == SubSeq(rest, 2, Len(rest))
               then == SubSeq(rest, 3, Len(rest))
    <3>1. /\ rest[1] \in Async!Ids /\ tail \in Seq(Async!Ids)
          /\ Async!Elements(rest) = {rest[1]} \cup Async!Elements(tail)
          /\ rest[1] \notin Async!Elements(tail) /\ Async!Distinct(tail)
      BY <2>3, QueueHead
    <3>2. /\ tail # <<>> /\ tail[1] = rest[2] /\ then = SubSeq(tail, 2, Len(tail))
      <4>1. Len(rest) # 0 /\ Len(rest) # 1
        BY <2>3, <2>7
      <4>2. QED
        BY <2>3, <4>1, QueueSecond, Zenon
    <3>3. /\ rest[2] \in Async!Ids /\ then \in Seq(Async!Ids)
          /\ Async!Elements(tail) = {rest[2]} \cup Async!Elements(then)
          /\ rest[2] \notin Async!Elements(then) /\ Async!Distinct(then)
      <4> HIDE DEF tail, then
      <4>1. QED
        BY <3>1, <3>2, QueueHead
    <3>4. async' = [async EXCEPT !.prev = rest[1], !.cur = rest[2], !.async_frames = then]
          /\ misread' = misread
      BY <2>1, <2>7
    <3> HIDE DEF then, tail, R
    <3>5. /\ async'.async_cache = async.async_cache /\ async'.async_frames = then
          /\ async'.cur = rest[2] /\ async'.prev = rest[1] /\ async'.allocated = async.allocated
          /\ async' \in [async_cache : SUBSET Async!Ids, async_frames : Seq(Async!Ids),
                         cur : Async!Ids \cup {0}, prev : Async!Ids \cup {0},
                         deinterlace : BOOLEAN, allocated : 0..MaxAllocated]
      BY <3>1, <3>3, <3>4 DEF Async!InPlace, Async!TypeOK, Async!None
    <3>6. Async!TypeOK'
      BY <1>1, <1>2, <2>4, <3>4, <3>5 DEF Async!InPlace, Async!TypeOK, Async!None
    <3>7. /\ Async!Elements(async.async_frames)' = Async!Elements(then)
          /\ Async!Distinct(async.async_frames)' = Async!Distinct(then)
      BY <3>5 DEF Async!Elements, Async!Distinct
    <3>8. /\ R \subseteq Async!Elements(q) \cup ({async.cur, async.prev} \ {0})
          /\ Async!Elements(then) \cup ({rest[2], rest[1]} \ {0}) =
               (Async!Elements(q) \cup ({async.cur, async.prev} \ {0})) \ R
          /\ rest[1] \notin Async!Elements(then) /\ rest[1] # rest[2]
      BY <1>3, <2>3, <3>1, <3>3, IdsArePositive DEF R
    <3>9. LetsGo(R)
      BY <2>4, <3>5, <3>7, <3>8 DEF LetsGo
    <3>10. Async!InPlace'
      BY <1>1, <1>2, <3>3, <3>5, <3>6, <3>7, <3>8, <3>9, LetGo
    <3>11. QED
      BY <3>10 DEF Async!IInv
  <2>8. QED
    BY <2>5, <2>6, <2>7
<1>6. QED
  BY <1>4, <1>5 DEF Async!TickDeinterlace, Async!None


\* Frames released by who had taken them: each loses the reference that was his,
\* and counts as free if the cache still has it.
LEMMA Released ==
  ASSUME Async!InPlace, Async!TypeOK', Async!Working', NEW R, Async!Release(R),
         R \subseteq Async!Taken, Async!Taken' = Async!Taken \ R,
         async' = async, producer' = producer,
         Async!Distinct(video_frames)',
         Async!Elements(video_frames)' \subseteq Async!Elements(video_frames) \cup ({graphics.f} \ {0}),
         graphics'.f = graphics.f \/ graphics'.f = 0,
         graphics'.f # 0 => graphics'.f \notin Async!Elements(video_frames)'
  PROVE  Async!InPlace'
<1> USE DEF Async!InPlace, Async!None
<1>1. /\ frame' \in [Async!Ids -> Async!Frame]
      /\ \A f \in Async!Ids :
           /\ frame'[f].refs = IF f \in R THEN frame[f].refs - 1 ELSE frame[f].refs
           /\ f \notin R => frame'[f] = frame[f]
           /\ f \in R /\ frame[f].refs # 1 /\ f \in async.async_cache => ~frame'[f].used
      /\ alive' = alive \ {f \in R : frame[f].refs = 1}
  BY AsyncMeaning, ReleaseEffect
<1>2. /\ Async!Elements(async.async_frames)' = Async!Elements(async.async_frames)
      /\ Async!Distinct(async.async_frames)' = Async!Distinct(async.async_frames)
  BY DEF Async!Elements, Async!Distinct
<1>3. Async!Lent' = Async!Lent
  BY <1>2 DEF Async!Lent
<1>4. Async!Lent \cap R = {}
  <2>1. Async!Lent \cap Async!Taken = {}
    <3>1. 0 \notin Async!Elements(async.async_frames) /\ 0 \notin Async!Elements(video_frames)
      BY AsyncFields, IdsArePositive
    <3>2. ASSUME NEW x \in Async!Elements(async.async_frames) PROVE x \notin Async!Taken
      BY <3>1 DEF Async!Separate, Async!Taken
    <3>3. ASSUME NEW x \in {async.cur, async.prev} \ {0} PROVE x \notin Async!Taken
      BY DEF Async!Separate, Async!Taken
    <3>4. ASSUME producer.at = "push" PROVE producer.f \notin Async!Taken
      BY <3>4 DEF Async!Separate, Async!Taken, Async!Working
    <3>5. QED
      BY <3>2, <3>3, <3>4 DEF Async!Lent
  <2>2. QED
    BY <2>1
<1>5. Async!Counted'
  <2>1. \A g \in Async!Ids :
          frame'[g].refs = (IF g \in async'.async_cache THEN 1 ELSE 0)
                             + (IF g \in Async!Taken' THEN 1 ELSE 0)
    <3> SUFFICES ASSUME NEW g \in Async!Ids
                 PROVE  frame'[g].refs = (IF g \in async.async_cache THEN 1 ELSE 0)
                                            + (IF g \in Async!Taken' THEN 1 ELSE 0)
      OBVIOUS
    <3>1. frame[g].refs = (IF g \in async.async_cache THEN 1 ELSE 0)
                            + (IF g \in Async!Taken THEN 1 ELSE 0)
      BY AsyncMeaning
    <3>2. CASE g \in R
      BY <1>1, <3>1, <3>2
    <3>3. CASE g \notin R
      BY <1>1, <3>1, <3>3
    <3>4. QED
      BY <3>2, <3>3
  <2>2. alive' = async'.async_cache \cup Async!Taken'
    BY <1>1, AsyncMeaning
  <2>3. Async!Lent' \subseteq async'.async_cache /\ alive' \subseteq 1..async'.allocated
    BY <1>1, <1>3, AsyncMeaning
  <2>4. QED
    BY <2>1, <2>2, <2>3 DEF Async!Counted
<1>6. Async!Separate'
  <2>1. 0 \notin Async!Elements(async.async_frames) /\ 0 \notin Async!Elements(video_frames)
    BY AsyncFields, IdsArePositive
  <2>2. Async!Elements(async.async_frames)' \cap Async!Elements(video_frames)' = {}
    BY <1>2 DEF Async!Separate
  <2>3. (Async!Elements(async.async_frames)' \cup Async!Elements(video_frames)')
           \cap {async'.cur, async'.prev, graphics'.f, producer'.f} = {}
    <3>1. ASSUME NEW x \in Async!Elements(async.async_frames)
          PROVE  x \notin {async'.cur, async'.prev, graphics'.f, producer'.f}
      BY <2>1 DEF Async!Separate
    <3>2. ASSUME NEW x \in Async!Elements(video_frames)'
          PROVE  x \notin {async'.cur, async'.prev, graphics'.f, producer'.f}
      <4>1. CASE x \in Async!Elements(video_frames)
        BY <2>1, <3>2, <4>1 DEF Async!Separate
      <4>2. CASE x = graphics.f /\ x # 0
        BY <3>2, <4>2 DEF Async!Separate
      <4>3. QED
        BY <4>1, <4>2
    <3>3. QED
      BY <1>2, <3>1, <3>2
  <2>4. /\ async'.cur # 0 => async'.cur \notin {async'.prev, graphics'.f, producer'.f}
        /\ async'.prev # 0 => async'.prev \notin {graphics'.f, producer'.f}
        /\ graphics'.f # 0 => graphics'.f # producer'.f
    BY DEF Async!Separate
  <2>5. Async!Distinct(async.async_frames)'
    BY <1>2 DEF Async!Separate
  <2>6. QED
    BY <2>2, <2>3, <2>4, <2>5 DEF Async!Separate
<1>7. \A f \in async'.async_cache : frame'[f].used <=> f \in Async!Taken' \cup Async!Lent'
  <2> SUFFICES ASSUME NEW f \in async.async_cache
               PROVE  frame'[f].used <=> f \in Async!Taken' \cup Async!Lent'
    OBVIOUS
  <2>1. /\ f \in Async!Ids /\ (frame[f].used <=> f \in Async!Taken \cup Async!Lent)
        /\ frame[f].refs = 1 <=> f \notin Async!Taken
    BY AsyncMeaning
  <2>2. CASE f \in R
    BY <1>1, <1>3, <1>4, <2>1, <2>2
  <2>3. CASE f \notin R
    BY <1>1, <1>3, <2>1, <2>3
  <2>4. QED
    BY <2>2, <2>3
<1>8. QED
  BY <1>5, <1>6, <1>7, AsyncRebuilt

LEMMA FilterRemoveStep == ASSUME Async!InPlace, Async!FilterRemove PROVE Async!InPlace'
<1> USE DEF Async!InPlace, Async!None
<1> DEFINE R == Async!Elements(video_frames)
<1>1. /\ Async!Release(R) /\ video_frames' = <<>> /\ async' = async /\ producer' = producer
      /\ graphics' = graphics /\ misread' = misread
  BY DEF Async!FilterRemove
<1>2. /\ Async!Elements(video_frames)' = {} /\ Async!Distinct(video_frames)'
  BY <1>1 DEF Async!Elements, Async!Distinct
<1>3. R \subseteq Async!Taken
  BY DEF Async!Taken
<1>4. Async!Taken' = Async!Taken \ R
  BY <1>1, <1>2 DEF Async!Taken, Async!Separate
<1>5. frame' \in [Async!Ids -> Async!Frame]
  BY <1>1, <1>3, AsyncMeaning, ReleaseEffect
<1>6. Async!TypeOK' /\ Async!Working'
  BY <1>1, <1>5, EmptySeq DEF Async!TypeOK, Async!Working
<1>7. QED
  BY <1>1, <1>2, <1>3, <1>4, <1>6, Released

\* What the filter keeps and what comes out of it, of which the renderer lets go.
LEMMA ShownStep == ASSUME Async!InPlace, Async!Shown PROVE Async!InPlace'
<1> USE DEF Async!InPlace, Async!None
<1> DEFINE f == graphics.f
           V == Async!Elements(video_frames)
<1>1. /\ async' = async /\ producer' = producer /\ misread' = misread
      /\ graphics'.f = 0 /\ graphics'.at \in {"cur", "tick"}
      /\ graphics' \in [at : {"tick", "size", "prev", "show prev", "cur", "show cur"},
                        f : Async!Ids \cup {0}]
      /\ Async!Working'
  BY DEF Async!Shown, Async!Working
<1>2. /\ video_frames \in Seq(Async!Ids) /\ Async!Distinct(video_frames)
      /\ f # 0 => f \in Async!Ids /\ f \notin V
  BY AsyncFields DEF Async!Separate
<1>3. CASE f = 0 /\ frame' = frame /\ alive' = alive /\ video_frames' = video_frames
  <2>1. Async!TypeOK'
    BY <1>1, <1>3 DEF Async!TypeOK
  <2>2. QED
    BY <1>1, <1>3, <2>1, QuietStep
<1>4. ASSUME f # 0, NEW jump \in BOOLEAN, NEW reached \in BOOLEAN,
             LET kept  == IF jump THEN <<f>> ELSE Append(video_frames, f)
                 freed == IF jump THEN V ELSE {}
             IN  IF reached
                 THEN video_frames' = Tail(kept) /\ Async!Release(freed \cup {Head(kept)})
                 ELSE video_frames' = kept /\ Async!Release(freed)
      PROVE  Async!InPlace'
  <2> DEFINE kept  == IF jump THEN <<f>> ELSE Append(video_frames, f)
             freed == IF jump THEN V ELSE {}
             R     == IF reached THEN freed \cup {Head(kept)} ELSE freed
  <2>1. /\ kept \in Seq(Async!Ids) /\ kept # <<>> /\ Async!Distinct(kept)
        /\ Async!Elements(kept) \cup freed = V \cup {f}
        /\ Async!Elements(kept) \cap freed = {}
    <3>1. CASE jump
      <4>1. /\ <<f>> \in Seq(Async!Ids) /\ <<f>> # <<>> /\ Async!Distinct(<<f>>)
            /\ Async!Elements(<<f>>) = {f}
        BY <1>2, <1>4, OneElement
      <4>2. kept = <<f>> /\ freed = V
        BY <3>1
      <4>3. {f} \cup V = V \cup {f} /\ {f} \cap V = {}
        BY <1>2, <1>4
      <4> HIDE DEF kept, freed
      <4>4. QED
        BY <4>1, <4>2, <4>3
    <3>2. CASE ~jump
      <4>1. /\ Append(video_frames, f) \in Seq(Async!Ids) /\ Append(video_frames, f) # <<>>
            /\ Async!Elements(Append(video_frames, f)) = V \cup {f}
            /\ Async!Distinct(Append(video_frames, f))
        BY <1>2, <1>4, AppendElements
      <4>2. kept = Append(video_frames, f) /\ freed = {}
        BY <3>2
      <4>3. QED
        BY <4>1, <4>2
    <3>3. QED
      BY <3>1, <3>2
  <2>2. /\ reached => video_frames' = Tail(kept)
        /\ ~reached => video_frames' = kept
        /\ Async!Release(R)
    <3>1. CASE reached
      <4>1. R = freed \cup {Head(kept)}
        BY <3>1
      <4>2. video_frames' = Tail(kept) /\ Async!Release(freed \cup {Head(kept)})
        BY <1>4, <3>1, Zenon
      <4>3. QED
        BY <3>1, <4>1, <4>2, Zenon
    <3>2. CASE ~reached
      <4>1. R = freed
        BY <3>2
      <4>2. video_frames' = kept /\ Async!Release(freed)
        BY <1>4, <3>2, Zenon
      <4>3. QED
        BY <3>2, <4>1, <4>2, Zenon
    <3>3. QED
      BY <3>1, <3>2
  <2> HIDE DEF kept, freed
  <2>3. /\ Head(kept) \in Async!Ids /\ Tail(kept) \in Seq(Async!Ids)
        /\ Async!Elements(kept) = {Head(kept)} \cup Async!Elements(Tail(kept))
        /\ Async!Distinct(Tail(kept)) /\ Head(kept) \notin Async!Elements(Tail(kept))
    BY <2>1, HeadElements
  <2>4. /\ video_frames' \in Seq(Async!Ids) /\ Async!Distinct(video_frames)'
        /\ R \cup Async!Elements(video_frames)' = V \cup {f}
        /\ R \cap Async!Elements(video_frames)' = {}
    <3>1. CASE reached
      <4>1. /\ Async!Elements(video_frames)' = Async!Elements(Tail(kept))
            /\ Async!Distinct(video_frames)' = Async!Distinct(Tail(kept))
        BY <2>2, <3>1 DEF Async!Elements, Async!Distinct
      <4>2. R = freed \cup {Head(kept)}
        BY <3>1
      <4>3. QED
        BY <2>1, <2>2, <2>3, <3>1, <4>1, <4>2
    <3>2. CASE ~reached
      <4>1. /\ Async!Elements(video_frames)' = Async!Elements(kept)
            /\ Async!Distinct(video_frames)' = Async!Distinct(kept)
        BY <2>2, <3>2 DEF Async!Elements, Async!Distinct
      <4>2. R = freed
        BY <3>2
      <4>3. QED
        BY <2>1, <2>2, <3>2, <4>1, <4>2
    <3>3. QED
      BY <3>1, <3>2
  <2> HIDE DEF R
  <2>5. V \cup {f} = V \cup ({graphics.f} \ {0})
    BY <1>4
  <2>6. R \subseteq Async!Taken /\ Async!Taken' = Async!Taken \ R
    <3> DEFINE W == V \cup {f}
               P == IF producer.at = "copy" THEN {producer.f} ELSE {}
    <3>1. Async!Taken = W \cup P
      BY <2>5 DEF Async!Taken
    <3>2. Async!Taken' = Async!Elements(video_frames)' \cup P
      BY <1>1 DEF Async!Taken
    <3>3. P \cap W = {}
      BY <1>4 DEF Async!Separate
    <3>4. QED
      BY <2>4, <3>1, <3>2, <3>3
  <2>7. frame' \in [Async!Ids -> Async!Frame]
    BY <2>2, <2>6, AsyncMeaning, ReleaseEffect
  <2>8. Async!TypeOK'
    BY <1>1, <2>4, <2>7 DEF Async!TypeOK
  <2>9. QED
    BY <1>1, <2>2, <2>4, <2>5, <2>6, <2>8, Released
<1>5. QED
  BY <1>3, <1>4 DEF Async!Shown


LEMMA AsyncNext == Async!IInv /\ [Async!Next]_asyncVars => Async!IInv'
<1> SUFFICES ASSUME Async!IInv, [Async!Next]_asyncVars PROVE Async!IInv'
  OBVIOUS
<1>1. CASE Async!InPlace /\ Async!Next
  <2>1. ASSUME Async!InPlace' PROVE Async!IInv'
    BY <2>1 DEF Async!IInv
  <2>2. CASE Async!TooMany
    BY <1>1, <2>1, <2>2, TooManyStep
  <2>3. CASE Async!Reuse
    BY <1>1, <2>1, <2>3, ReuseStep
  <2>4. CASE Async!Allocate
    BY <1>1, <2>1, <2>4, AllocateStep
  <2>5. CASE Async!Copied
    BY <1>1, <2>1, <2>5, CopiedStep
  <2>6. CASE Async!Push
    BY <1>1, <2>1, <2>6, PushStep
  <2>7. CASE Async!TickPlain
    BY <1>1, <2>1, <2>7, TickPlainStep
  <2>8. CASE Async!TickDeinterlace
    BY <1>1, <2>8, TickDeinterlaceStep
  <2>9. CASE Async!Size
    BY <1>1, <2>1, <2>9, SizeStep
  <2>10. CASE Async!RenderPrev \/ Async!RenderCur
    BY <1>1, <2>1, <2>10, RenderSteps
  <2>11. CASE Async!Shown
    BY <1>1, <2>1, <2>11, ShownStep
  <2>12. CASE Async!FilterRemove
    BY <1>1, <2>1, <2>12, FilterRemoveStep
  <2>13. CASE Async!SetMode
    BY <1>1, <2>1, <2>13, SetModeStep
  <2>14. CASE Async!ClearPrev
    BY <1>1, <2>1, <2>14, ClearPrevStep
  <2>15. QED
    BY <1>1, <2>2, <2>3, <2>4, <2>5, <2>6, <2>7, <2>8, <2>9, <2>10, <2>11, <2>12, <2>13, <2>14
       DEF Async!Next
<1>2. CASE Async!InPlace /\ UNCHANGED asyncVars
  <2>1. /\ frame' = frame /\ alive' = alive /\ async' = async /\ video_frames' = video_frames
        /\ producer' = producer /\ graphics' = graphics /\ misread' = misread
    BY <1>2 DEF asyncVars
  <2>2. Async!TypeOK' /\ Async!Working'
    BY <1>2, <2>1 DEF Async!InPlace, Async!TypeOK, Async!Working
  <2>3. QED
    BY <1>2, <2>1, <2>2, QuietStep DEF Async!IInv
<1>3. CASE misread /\ UNCHANGED asyncVars
  BY <1>3 DEF asyncVars, Async!IInv
<1>4. Async!Next => ~misread
  BY DEF Async!Next
<1>5. QED
  BY <1>1, <1>2, <1>3, <1>4 DEF Async!IInv

----------------------------------------------------------------------------
(* As many frames as places.                                               *)

\* A sequence with nothing in it twice has as many elements as positions.
LEMMA DistinctCount ==
  ASSUME NEW S, NEW s \in Seq(S), Async!Distinct(s)
  PROVE  /\ IsFiniteSet(Async!Elements(s)) /\ Cardinality(Async!Elements(s)) = Len(s)
<1>1. Len(s) \in Nat /\ DOMAIN s = 1..Len(s)
  OBVIOUS
<1> DEFINE E == Async!Elements(s)
           g == [i \in 1..Len(s) |-> s[i]]
<1>2. g \in Bijection(1..Len(s), E)
  <2>1. E = {s[i] : i \in 1..Len(s)}
    BY SeqElements
  <2>2. g \in [1..Len(s) -> E]
    BY <2>1
  <2>3. \A i, j \in 1..Len(s) : g[i] = g[j] => i = j
    BY <1>1 DEF Async!Distinct
  <2>4. \A e \in E : \E i \in 1..Len(s) : g[i] = e
    BY <2>1
  <2> HIDE DEF E, g
  <2>5. QED
    BY <2>2, <2>3, <2>4 DEF Bijection, Injection, Surjection, IsInjective
<1>3. ExistsBijection(1..Len(s), E)
  BY <1>2 DEF ExistsBijection
<1> HIDE DEF E
<1>4. IsFiniteSet(E) /\ Cardinality(E) = Len(s)
  <2>1. Cardinality(E) = Len(s)
    BY <1>1, <1>3, FS_CountingElements
  <2>2. IsFiniteSet(E)
    BY <1>1, <1>3, FS_NatBijection
  <2>3. QED
    BY <2>1, <2>2
<1>5. QED
  BY <1>4 DEF E


LEMMA CountsAgree == \A S : Async!Cardinality(S) = Cardinality(S)
BY DEF Cardinality, Async!Cardinality

LEMMA DisjointCount ==
  ASSUME NEW S, NEW T, IsFiniteSet(S), IsFiniteSet(T), S \cap T = {}
  PROVE  /\ IsFiniteSet(S \cup T) /\ Cardinality(S \cup T) = Cardinality(S) + Cardinality(T)
         /\ Cardinality(S) \in Nat /\ Cardinality(T) \in Nat
<1>1. /\ IsFiniteSet(S \cup T)
      /\ Cardinality(S \cup T) = Cardinality(S) + Cardinality(T) - Cardinality(S \cap T)
  BY FS_Union
<1>2. Cardinality(S) \in Nat /\ Cardinality(T) \in Nat
  BY FS_CardinalityType
<1>3. Cardinality(S \cap T) = 0
  BY FS_EmptySet
<1>4. QED
  BY <1>1, <1>2, <1>3

LEMMA FramesFromInvariant == Async!IInv => Async!FramesInPlace
<1> SUFFICES ASSUME Async!InPlace
             PROVE  /\ Async!Shared \cup Async!Being \subseteq alive
                    /\ Async!Shared \cap Async!Being = {}
                    /\ Async!Cardinality(Async!Shared) = Async!Count
                    /\ \A f \in async.async_cache :
                         frame[f].used <=> f \in Async!Shared \cup Async!Being
  BY DEF Async!IInv, Async!FramesInPlace
<1> DEFINE A == Async!Elements(async.async_frames)
           B == Async!Elements(video_frames)
           c == {async.cur} \ {0}
           p == {async.prev} \ {0}
           g == {graphics.f} \ {0}
<1>1. Async!Shared \cup Async!Being \subseteq alive
  BY AsyncMeaning
<1>2. Async!Shared \cap Async!Being = {}
  BY DEF Async!InPlace, Async!Separate, Async!Shared, Async!Being, Async!None
<1>3. Async!Shared = (((A \cup B) \cup c) \cup p) \cup g
  BY DEF Async!Shared, Async!None
<1>4. /\ A \cap B = {} /\ (A \cup B) \cap c = {} /\ ((A \cup B) \cup c) \cap p = {}
      /\ (((A \cup B) \cup c) \cup p) \cap g = {}
  <2>1. A \cap B = {} /\ (A \cup B) \cap c = {} /\ (A \cup B) \cap p = {} /\ (A \cup B) \cap g = {}
    BY DEF Async!InPlace, Async!Separate
  <2>2. c \cap p = {} /\ c \cap g = {} /\ p \cap g = {}
    BY DEF Async!InPlace, Async!Separate, Async!None
  <2> HIDE DEF A, B, c, p, g
  <2>3. QED
    BY <2>1, <2>2
<1>5. /\ IsFiniteSet(A) /\ Cardinality(A) = Len(async.async_frames)
      /\ IsFiniteSet(B) /\ Cardinality(B) = Len(video_frames)
  BY AsyncFields, DistinctCount DEF Async!InPlace, Async!Separate
<1>6. IsFiniteSet(c) /\ IsFiniteSet(p) /\ IsFiniteSet(g)
  <2>1. \A x : IsFiniteSet({x} \ {0})
    <3> SUFFICES ASSUME NEW x PROVE IsFiniteSet({x} \ {0})
      OBVIOUS
    <3>1. IsFiniteSet({x}) /\ {x} \ {0} \in SUBSET {x}
      BY FS_Singleton
    <3>2. QED
      BY <3>1, FS_Subset
  <2>2. QED
    BY <2>1
<1>7. Async!Count = Len(async.async_frames) + Len(video_frames) + Cardinality(c)
                      + Cardinality(p) + Cardinality(g)
  BY CountsAgree, Zenon DEF Async!Count, Async!None
<1> HIDE DEF A, B, c, p, g
<1>8. Cardinality(Async!Shared) = Async!Count
  <2>1. /\ IsFiniteSet(A \cup B) /\ Cardinality(A \cup B) = Cardinality(A) + Cardinality(B)
        /\ Cardinality(A) \in Nat /\ Cardinality(B) \in Nat
    BY <1>4, <1>5, DisjointCount
  <2>2. /\ IsFiniteSet((A \cup B) \cup c) /\ Cardinality(c) \in Nat
        /\ Cardinality((A \cup B) \cup c) = Cardinality(A \cup B) + Cardinality(c)
    BY <1>4, <1>6, <2>1, DisjointCount
  <2>3. /\ IsFiniteSet(((A \cup B) \cup c) \cup p) /\ Cardinality(p) \in Nat
        /\ Cardinality(((A \cup B) \cup c) \cup p) = Cardinality((A \cup B) \cup c) + Cardinality(p)
    BY <1>4, <1>6, <2>2, DisjointCount
  <2>4. /\ Cardinality(g) \in Nat
        /\ Cardinality((((A \cup B) \cup c) \cup p) \cup g) =
             Cardinality(((A \cup B) \cup c) \cup p) + Cardinality(g)
    BY <1>4, <1>6, <2>3, DisjointCount
  <2>5. QED
    BY <1>3, <1>5, <1>7, <2>1, <2>2, <2>3, <2>4
<1>9. QED
  BY <1>1, <1>2, <1>8, CountsAgree DEF Async!InPlace, Async!InUse

\* The frames of an asynchronous source are where the invariant says, always:
\* obs_source_output_video, async_tick, rendering and the delay filter keep it.
THEOREM AsyncInvariant == Spec => []Async!IInv
<1>1. Init => Async!IInv
  <2>1. Init => Async!Init
    BY DEF Init, Objects, Raw, Encoded
  <2>2. QED
    BY <2>1, AsyncInit
<1>2. Async!IInv /\ [Next]_vars => Async!IInv'
  <2>1. [Next]_vars => [Async!Next]_asyncVars
    BY DEF Next, Objects, Raw, Encoded, vars, rawVars, asyncVars
  <2>2. QED
    BY <2>1, AsyncNext
<1>3. QED
  BY <1>1, <1>2, PTL DEF Spec

\* FramesInPlace, for any number of frames: none is freed, filled again or in two
\* places while somebody has it (cache_video, get_closest_frame,
\* obs_source_release_frame, the filters).
THEOREM FramesInPlaceHolds == Spec => []FramesInPlace
<1>1. Async!IInv => FramesInPlace
  BY FramesFromInvariant DEF FramesInPlace
<1>2. QED
  BY <1>1, AsyncInvariant, PTL

----------------------------------------------------------------------------
(* Audio buffering.                                                        *)

\* A sample is itself or silence: what is appended goes on, what is cut off
\* leaves the rest in place.
LEMMA SamplesGoOn ==
  ASSUME NEW s \in Seq(Nat), NEW u \in Seq(Nat), NEW t \in Nat,
         Mixing!RunsFrom(s, t), Mixing!RunsFrom(u, t + Len(s))
  PROVE  Mixing!RunsFrom(s \o u, t) /\ s \o u \in Seq(Nat) /\ Len(s \o u) = Len(s) + Len(u)
BY DEF Mixing!RunsFrom

LEMMA SamplesCut ==
  ASSUME NEW s \in Seq(Nat), NEW t \in Nat, NEW n \in 0..Len(s), Mixing!RunsFrom(s, t)
  PROVE  /\ SubSeq(s, n + 1, Len(s)) \in Seq(Nat)
         /\ Len(SubSeq(s, n + 1, Len(s))) = Len(s) - n
         /\ Mixing!RunsFrom(SubSeq(s, n + 1, Len(s)), t + n)
<1> DEFINE m == Len(s)
           u == SubSeq(s, n + 1, m)
<1>1. m \in Nat /\ n \in Nat /\ u \in Seq(Nat)
  OBVIOUS
<1>2. Len(u) = m - n /\ \A i \in 1..(m - n) : u[i] = s[n + i]
  BY <1>1
<1>3. \A i \in 1..m : s[i] \in {0, t + i - 1}
  BY DEF Mixing!RunsFrom
<1> HIDE DEF u, m
<1>4. ASSUME NEW i \in 1..Len(u) PROVE u[i] \in {0, (t + n) + i - 1}
  <2>1. i \in 1..(m - n) /\ n + i \in 1..m
    BY <1>1, <1>2
  <2>2. u[i] = s[n + i] /\ s[n + i] \in {0, t + (n + i) - 1}
    BY <1>2, <1>3, <2>1
  <2>3. t + (n + i) - 1 = (t + n) + i - 1
    BY <1>1, <2>1
  <2>4. QED
    BY <2>2, <2>3
<1>5. QED
  BY <1>1, <1>2, <1>4 DEF Mixing!RunsFrom, u, m

LEMMA SamplesTaken ==
  ASSUME NEW s \in Seq(Nat), NEW t \in Nat, NEW n \in 0..Len(s), Mixing!RunsFrom(s, t)
  PROVE  /\ SubSeq(s, 1, n) \in Seq(Nat) /\ Len(SubSeq(s, 1, n)) = n
         /\ Mixing!RunsFrom(SubSeq(s, 1, n), t)
<1> DEFINE u == SubSeq(s, 1, n)
<1>1. n \in Nat /\ u \in Seq(Nat) /\ Len(s) \in Nat
  OBVIOUS
<1>2. Len(u) = n /\ \A i \in 1..n : u[i] = s[i]
  BY <1>1
<1>3. \A i \in 1..Len(s) : s[i] \in {0, t + i - 1}
  BY DEF Mixing!RunsFrom
<1> HIDE DEF u
<1>4. \A i \in 1..Len(u) : u[i] \in {0, t + i - 1}
  BY <1>1, <1>2, <1>3
<1>5. QED
  BY <1>1, <1>2, <1>4 DEF Mixing!RunsFrom, u

LEMMA BlockOfSamples ==
  ASSUME NEW t \in Nat
  PROVE  /\ Mixing!Samples(t) \in Seq(Nat) /\ Len(Mixing!Samples(t)) = AudioBlock
         /\ Mixing!RunsFrom(Mixing!Samples(t), t)
<1> USE MixingAssumption
<1>1. \A i \in 1..AudioBlock : t + i - 1 \in Nat
  OBVIOUS
<1>2. Mixing!Samples(t) \in [1..AudioBlock -> Nat]
  BY <1>1 DEF Mixing!Samples
<1>3. Mixing!Samples(t) \in Seq(Nat) /\ Len(Mixing!Samples(t)) = AudioBlock
  BY <1>2
<1>4. QED
  BY <1>3 DEF Mixing!RunsFrom, Mixing!Samples

\* Silence fills the gap in front of a block that comes after a jump.
LEMMA GapFilled ==
  ASSUME NEW s \in Seq(Nat), NEW t \in Nat, NEW n \in Nat, Mixing!RunsFrom(s, t),
         NEW k, k = [i \in 1..n |-> IF i <= Len(s) THEN s[i] ELSE 0]
  PROVE  k \in Seq(Nat) /\ Len(k) = n /\ Mixing!RunsFrom(k, t)
<1>1. Len(s) \in Nat /\ \A i \in 1..Len(s) : s[i] \in Nat
  OBVIOUS
<1>2. k \in [1..n -> Nat]
  BY <1>1
<1>3. k \in Seq(Nat) /\ Len(k) = n
  BY <1>2
<1>4. ASSUME NEW i \in 1..n PROVE k[i] \in {0, t + i - 1}
  <2>1. CASE i <= Len(s)
    <3>1. k[i] = s[i] /\ i \in 1..Len(s)
      BY <1>1, <2>1
    <3>2. QED
      BY <3>1 DEF Mixing!RunsFrom
  <2>2. CASE ~(i <= Len(s))
    BY <2>2
  <2>3. QED
    BY <2>1, <2>2
<1>5. QED
  BY <1>3, <1>4 DEF Mixing!RunsFrom

\* What of a source fits together.
Fits(r) == r \in Mixing!Source /\ Mixing!Waiting(r)

LEMMA SourceFields ==
  ASSUME NEW r \in Mixing!Source
  PROVE  /\ r.audio_ts \in Nat /\ r.buf \in Seq(Nat) /\ r.out \in Seq(Nat) /\ r.last_size \in Nat
         /\ r.next \in Nat /\ r.pending \in BOOLEAN /\ r.reset \in BOOLEAN
         /\ r.pending_stop \in BOOLEAN /\ Len(r.buf) \in Nat
BY DEF Mixing!Source

\* The fields that audio changes, on its way in.
Filled(r, b, a, l, n) == [r EXCEPT !.buf = b, !.audio_ts = a, !.last_size = l, !.next = n]
Again(r, x) == [r EXCEPT !.reset = x]

LEMMA SourceChanges ==
  ASSUME NEW r \in Mixing!Source
  PROVE  /\ \A b \in Seq(Nat), a \in Nat, l \in Nat, n \in Nat : Filled(r, b, a, l, n) \in Mixing!Source
         /\ \A x \in BOOLEAN : Again(r, x) \in Mixing!Source
<1>1. ASSUME NEW b \in Seq(Nat), NEW a \in Nat, NEW l \in Nat, NEW n \in Nat
      PROVE  Filled(r, b, a, l, n) \in Mixing!Source
  BY DEF Mixing!Source, Filled
<1>2. ASSUME NEW x \in BOOLEAN PROVE Again(r, x) \in Mixing!Source
  BY DEF Mixing!Source, Again
<1>3. QED
  BY <1>1, <1>2

\* A source that throws its audio away to begin at an earlier time says so.
Begun(r, p) ==
  /\ r.pending = p.pending /\ r.out = p.out
  /\ r.audio_ts = p.audio_ts \/ r.reset
  /\ p.reset => r.reset

LEMMA PlaceFits ==
  ASSUME NEW r \in Mixing!Source, Fits(r), NEW t \in Nat \ {0}, NEW p,
         p = [Mixing!Place(r, t) EXCEPT !.last_size = 0, !.next = t + AudioBlock]
  PROVE  Fits(p) /\ Begun(p, r)
<1> USE MixingAssumption
<1> DEFINE new == r.audio_ts = 0 \/ t < r.audio_ts
           from == IF new THEN t ELSE r.audio_ts
           had == IF new THEN <<>> ELSE r.buf
           kept == [i \in 1..(t - from) |-> IF i <= Len(had) THEN had[i] ELSE 0]
           all == kept \o Mixing!Samples(t)
<1>1. /\ r.audio_ts \in Nat /\ r.buf \in Seq(Nat) /\ r.pending \in BOOLEAN
      /\ r.pending_stop \in BOOLEAN /\ r.reset \in BOOLEAN /\ r.out \in Seq(Nat)
  BY SourceFields
<1>2. had \in Seq(Nat) /\ from \in Nat /\ from # 0 /\ t - from \in Nat
  <2>1. CASE new
    BY <2>1, EmptySeq
  <2>2. CASE ~new
    BY <1>1, <2>2
  <2>3. QED
    BY <2>1, <2>2
<1>3. Mixing!RunsFrom(had, from)
  <2>1. CASE new
    BY <2>1 DEF Mixing!RunsFrom
  <2>2. CASE ~new
    BY <2>2 DEF Fits, Mixing!Waiting, Mixing!None
  <2>3. QED
    BY <2>1, <2>2
<1>4. kept \in Seq(Nat) /\ Len(kept) = t - from /\ Mixing!RunsFrom(kept, from)
  <2> HIDE DEF had, from
  <2>1. QED
    BY <1>2, <1>3, GapFilled
<1>5. Mixing!Samples(t) \in Seq(Nat) /\ Len(Mixing!Samples(t)) = AudioBlock /\ Mixing!RunsFrom(Mixing!Samples(t), t)
  BY BlockOfSamples
<1>6. all \in Seq(Nat) /\ Mixing!RunsFrom(all, from) /\ Len(all) = (t - from) + AudioBlock
  <2> HIDE DEF kept, from
  <2>1. from + Len(kept) = t
    BY <1>2, <1>4
  <2>2. QED
    BY <1>2, <1>4, <1>5, <2>1, SamplesGoOn
<1>7. p = [r EXCEPT !.buf = all, !.audio_ts = from, !.reset = (IF new THEN TRUE ELSE r.reset),
                    !.last_size = 0, !.next = t + AudioBlock]
  <2>1. CASE new
    BY <2>1 DEF Mixing!Place, Mixing!None, Mixing!Source
  <2>2. CASE ~new
    BY <2>2 DEF Mixing!Place, Mixing!None, Mixing!Source
  <2>3. QED
    BY <2>1, <2>2
<1> HIDE DEF all, from
<1>8. /\ p.buf = all /\ p.audio_ts = from /\ p.last_size = 0 /\ p.next = t + AudioBlock
      /\ p.out = r.out
  BY <1>7 DEF Mixing!Source
<1>9. p.reset = (IF new THEN TRUE ELSE r.reset) /\ p.pending = r.pending
  BY <1>7 DEF Mixing!Source
<1>10. p \in Mixing!Source
  <2> DEFINE nx == t + AudioBlock
             rs == IF new THEN TRUE ELSE r.reset
  <2>1. nx \in Nat /\ all \in Seq(Nat) /\ from \in Nat
    BY <1>2, <1>6
  <2>2. rs \in BOOLEAN
    BY SourceFields
  <2>3. p = [r EXCEPT !.buf = all, !.audio_ts = from, !.reset = rs, !.last_size = 0, !.next = nx]
    BY <1>7
  <2> HIDE DEF nx, rs
  <2>4. p = Again(Filled(r, all, from, 0, nx), rs)
    BY <2>3 DEF Again, Filled, Mixing!Source
  <2>5. QED
    BY <2>1, <2>2, <2>4, SourceChanges
<1>11. Mixing!Waiting(p)
  <2>1. t + AudioBlock = from + Len(all)
    BY <1>2, <1>6, SMTT(20)
  <2>2. QED
    BY <1>2, <1>6, <1>8, <2>1 DEF Mixing!Waiting, Mixing!None
<1>12. Begun(p, r)
  <2>1. p.audio_ts = r.audio_ts \/ p.reset
    BY <1>8, <1>9 DEF from
  <2>2. QED
    BY <1>8, <1>9, <2>1 DEF Begun
<1>13. QED
  BY <1>10, <1>11, <1>12 DEF Fits

LEMMA PushFits ==
  ASSUME NEW r \in Mixing!Source, Fits(r), r.audio_ts # Mixing!None, NEW p,
         p = [Mixing!PushBack(r, r.next) EXCEPT !.last_size = 0, !.next = r.next + AudioBlock]
  PROVE  Fits(p) /\ Begun(p, r)
<1> USE MixingAssumption
<1> DEFINE t == r.next
           all == r.buf \o Mixing!Samples(t)
<1>1. /\ r.audio_ts \in Nat /\ r.buf \in Seq(Nat) /\ r.pending \in BOOLEAN /\ t \in Nat
      /\ r.pending_stop \in BOOLEAN /\ r.reset \in BOOLEAN /\ r.out \in Seq(Nat)
  BY SourceFields
<1>2. Mixing!RunsFrom(r.buf, r.audio_ts) /\ t = r.audio_ts + Len(r.buf)
  BY DEF Fits, Mixing!Waiting
<1>3. Mixing!Samples(t) \in Seq(Nat) /\ Len(Mixing!Samples(t)) = AudioBlock /\ Mixing!RunsFrom(Mixing!Samples(t), t)
  BY <1>1, BlockOfSamples
<1>4. all \in Seq(Nat) /\ Mixing!RunsFrom(all, r.audio_ts) /\ Len(all) = Len(r.buf) + AudioBlock
  <2> HIDE DEF t
  <2>1. QED
    BY <1>1, <1>2, <1>3, SamplesGoOn
<1>5. p = [r EXCEPT !.buf = all, !.last_size = 0, !.next = t + AudioBlock]
  BY DEF Mixing!PushBack, Mixing!Source
<1> HIDE DEF all, t
<1>6. p.buf = all /\ p.audio_ts = r.audio_ts /\ p.next = t + AudioBlock /\ p.out = r.out
  BY <1>5 DEF Mixing!Source
<1>7. p.reset = r.reset /\ p.pending = r.pending
  BY <1>5 DEF Mixing!Source
<1>8. p \in Mixing!Source
  <2> DEFINE nx == t + AudioBlock
             from == r.audio_ts
  <2>1. nx \in Nat
    BY <1>1
  <2>2. p = [r EXCEPT !.buf = all, !.last_size = 0, !.next = nx] /\ all \in Seq(Nat)
    BY <1>4, <1>5
  <2> HIDE DEF nx
  <2>3. p = Filled(r, all, from, 0, nx)
    BY <2>2 DEF Filled, Mixing!Source
  <2>4. from \in Nat /\ all \in Seq(Nat)
    BY <1>1, <1>4
  <2> HIDE DEF from
  <2>5. Filled(r, all, from, 0, nx) \in Mixing!Source
    BY <2>1, <2>4, SourceChanges
  <2>6. QED
    BY <2>3, <2>5, Zenon
<1>9. Mixing!Waiting(p)
  <2>1. t + AudioBlock = r.audio_ts + Len(all)
    BY <1>1, <1>2, <1>4
  <2>2. QED
    BY <1>4, <1>6, <2>1 DEF Mixing!Waiting
<1>10. QED
  BY <1>6, <1>7, <1>8, <1>9 DEF Fits, Begun

LEMMA RenderedFits ==
  ASSUME NEW r \in Mixing!Source, Fits(r), NEW p, p = Mixing!Rendered(r)
  PROVE  /\ Fits(p)
         /\ ~p.pending => /\ p.audio_ts # Mixing!None /\ Len(p.out) = AUDIO_OUTPUT_FRAMES
                          /\ Mixing!RunsFrom(p.out, p.audio_ts)
<1> USE MixingAssumption
<1>1. /\ r.audio_ts \in Nat /\ r.buf \in Seq(Nat) /\ r.out \in Seq(Nat) /\ Len(r.buf) \in Nat
  BY SourceFields
<1>2. CASE r.audio_ts = Mixing!None \/ Len(r.buf) < AUDIO_OUTPUT_FRAMES
  <2>1. p = [r EXCEPT !.pending = TRUE, !.reset = FALSE]
    BY <1>2 DEF Mixing!Rendered
  <2>2. p \in Mixing!Source /\ p.buf = r.buf /\ p.audio_ts = r.audio_ts /\ p.next = r.next /\ p.pending
    BY <2>1 DEF Mixing!Source
  <2>3. Mixing!Waiting(p)
    BY <2>2 DEF Mixing!Waiting, Fits
  <2>4. QED
    BY <2>2, <2>3 DEF Fits
<1>3. CASE ~(r.audio_ts = Mixing!None \/ Len(r.buf) < AUDIO_OUTPUT_FRAMES)
  <2> DEFINE o == SubSeq(r.buf, 1, AUDIO_OUTPUT_FRAMES)
  <2>1. p = [r EXCEPT !.pending = FALSE, !.reset = FALSE, !.out = o]
    BY <1>3 DEF Mixing!Rendered
  <2>2. Mixing!RunsFrom(r.buf, r.audio_ts) /\ AUDIO_OUTPUT_FRAMES \in 0..Len(r.buf)
    BY <1>1, <1>3 DEF Fits, Mixing!Waiting
  <2>3. o \in Seq(Nat) /\ Len(o) = AUDIO_OUTPUT_FRAMES /\ Mixing!RunsFrom(o, r.audio_ts)
    BY <1>1, <2>2, SamplesTaken
  <2> HIDE DEF o
  <2>4. p \in Mixing!Source /\ p.buf = r.buf /\ p.audio_ts = r.audio_ts /\ p.next = r.next /\ p.out = o
    BY <2>1, <2>3 DEF Mixing!Source
  <2>5. Mixing!Waiting(p)
    BY <2>4 DEF Mixing!Waiting, Fits
  <2>6. QED
    BY <1>3, <2>3, <2>4, <2>5 DEF Fits
<1>4. QED
  BY <1>2, <1>3

LEMMA StoppedFits ==
  ASSUME NEW r \in Mixing!Source, Fits(r)
  PROVE  Fits(Mixing!Stopped(r))
<1> DEFINE p == Mixing!Stopped(r)
<1>1. /\ r.audio_ts \in Nat /\ r.buf \in Seq(Nat) /\ r.out \in Seq(Nat) /\ Len(r.buf) \in Nat
  BY SourceFields
<1>2. CASE Len(r.buf) # r.last_size
  <2>1. p = [r EXCEPT !.last_size = Len(r.buf)]
    BY <1>2 DEF Mixing!Stopped
  <2> HIDE DEF p
  <2>2. p \in Mixing!Source /\ p.buf = r.buf /\ p.audio_ts = r.audio_ts /\ p.next = r.next
    BY <1>1, <2>1 DEF Mixing!Source
  <2>3. QED
    BY <2>2 DEF Mixing!Waiting, Fits, p
<1>3. CASE Len(r.buf) = r.last_size /\ ~r.pending_stop
  <2>1. p = [r EXCEPT !.pending_stop = TRUE]
    BY <1>3 DEF Mixing!Stopped
  <2> HIDE DEF p
  <2>2. p \in Mixing!Source /\ p.buf = r.buf /\ p.audio_ts = r.audio_ts /\ p.next = r.next
    BY <1>1, <2>1 DEF Mixing!Source
  <2>3. QED
    BY <2>2 DEF Mixing!Waiting, Fits, p
<1>4. CASE Len(r.buf) = r.last_size /\ r.pending_stop
  <2>1. p = [r EXCEPT !.buf = <<>>, !.pending_stop = FALSE, !.audio_ts = 0, !.last_size = 0]
    BY <1>4 DEF Mixing!Stopped, Mixing!None
  <2> HIDE DEF p
  <2>2. p \in Mixing!Source /\ p.buf = <<>> /\ p.audio_ts = 0
    BY <1>1, <2>1, EmptySeq DEF Mixing!Source
  <2>3. QED
    BY <2>2 DEF Mixing!Waiting, Fits, p, Mixing!None
<1>5. QED
  BY <1>2, <1>3, <1>4

LEMMA IgnoredFits ==
  ASSUME NEW r \in Mixing!Source, Fits(r)
  PROVE  Fits(Mixing!Ignored(r))
<1> DEFINE p == Mixing!Ignored(r)
           size == IF r.buf = <<>> THEN r.last_size ELSE 0
<1>1. /\ r.audio_ts \in Nat /\ r.buf \in Seq(Nat) /\ r.out \in Seq(Nat) /\ Len(r.buf) \in Nat
      /\ size \in Nat
  BY SourceFields
<1>2. p = [r EXCEPT !.buf = <<>>, !.audio_ts = r.audio_ts + Len(r.buf), !.last_size = size]
  BY DEF Mixing!Ignored, Mixing!Source
<1> HIDE DEF p, size
<1>3. /\ p \in Mixing!Source /\ p.buf = <<>> /\ p.audio_ts = r.audio_ts + Len(r.buf)
      /\ p.next = r.next
  <2> DEFINE from == r.audio_ts + Len(r.buf)
  <2>1. from \in Nat /\ size \in Nat /\ <<>> \in Seq(Nat)
    BY <1>1, EmptySeq
  <2>2. p = [r EXCEPT !.buf = <<>>, !.audio_ts = from, !.last_size = size]
    BY <1>2
  <2> HIDE DEF from
  <2>3. p \in Mixing!Source /\ p.buf = <<>> /\ p.audio_ts = from /\ p.next = r.next
    BY <2>1, <2>2 DEF Mixing!Source
  <2>4. QED
    BY <2>3 DEF from
<1>4. CASE r.audio_ts = 0
  <2>1. r.buf = <<>>
    BY <1>4 DEF Fits, Mixing!Waiting, Mixing!None
  <2>2. p.audio_ts = 0
    BY <1>1, <1>3, <1>4, <2>1
  <2>3. QED
    BY <1>3, <2>2 DEF Fits, Mixing!Waiting, Mixing!None, p
<1>5. CASE r.audio_ts # 0
  <2>1. r.next = r.audio_ts + Len(r.buf)
    BY <1>5 DEF Fits, Mixing!Waiting, Mixing!None
  <2>2. p.next = p.audio_ts + Len(<<>>)
    BY <1>1, <1>3, <2>1
  <2>3. Mixing!RunsFrom(<<>>, p.audio_ts)
    BY DEF Mixing!RunsFrom
  <2>4. p.audio_ts # 0
    BY <1>1, <1>3, <1>5
  <2>5. QED
    BY <1>3, <2>2, <2>3, <2>4 DEF Fits, Mixing!Waiting, Mixing!None, p
<1>6. QED
  BY <1>4, <1>5

LEMMA DiscardedFits ==
  ASSUME NEW r \in Mixing!Source, Fits(r), ts \in Int
  PROVE  Fits(Mixing!Discarded(r))
<1> USE MixingAssumption
<1> DEFINE cut == Mixing!End - r.audio_ts
           total == Mixing!Less(cut, AUDIO_OUTPUT_FRAMES)
<1>1. /\ r.audio_ts \in Nat /\ r.buf \in Seq(Nat) /\ r.out \in Seq(Nat) /\ Len(r.buf) \in Nat
      /\ r.next \in Nat
  BY SourceFields
<1>2. Mixing!End \in Int /\ cut \in Int /\ Mixing!End = ts + AUDIO_OUTPUT_FRAMES
  BY <1>1 DEF Mixing!End
<1>3. CASE cut <= 0
  BY <1>3 DEF Mixing!Discarded
<1>4. CASE cut > 0 /\ r.audio_ts < ts
  <2>1. Fits(Mixing!Stopped(r)) /\ Mixing!Stopped(r) \in Mixing!Source
    BY StoppedFits DEF Fits
  <2>2. Fits(Mixing!Ignored(r)) /\ Fits(Mixing!Ignored(Mixing!Stopped(r)))
    BY <2>1, IgnoredFits
  <2>3. Mixing!Discarded(r) \in {r, Mixing!Stopped(r), Mixing!Ignored(r), Mixing!Ignored(Mixing!Stopped(r))}
    <3>1. ~(cut <= 0)
      BY <1>2, <1>4
    <3>2. QED
      BY <1>4, <3>1, Zenon DEF Mixing!Discarded
  <2>4. QED
    BY <2>1, <2>2, <2>3
<1>5. CASE cut > 0 /\ ~(r.audio_ts < ts)
  <2>1. total = cut /\ total \in Nat \ {0} /\ ~(cut <= 0)
    BY <1>1, <1>2, <1>5 DEF Mixing!Less
  <2>2. CASE Len(r.buf) < total
    <3>1. Mixing!Discarded(r) \in {r, Mixing!Stopped(r)}
      BY <1>5, <2>1, <2>2, Zenon DEF Mixing!Discarded
    <3>2. QED
      BY <3>1, StoppedFits
  <2>3. CASE ~(Len(r.buf) < total)
    <3> DEFINE rest == SubSeq(r.buf, total + 1, Len(r.buf))
               p == [r EXCEPT !.buf = rest, !.last_size = 0, !.pending_stop = FALSE,
                              !.audio_ts = Mixing!End]
    <3>1. Mixing!Discarded(r) = p
      <4>1. Mixing!Discarded(r) = [r EXCEPT !.buf = SubSeq(@, total + 1, Len(@)), !.last_size = 0,
                                   !.pending_stop = FALSE, !.audio_ts = Mixing!End]
        BY <1>5, <2>1, <2>3, Zenon DEF Mixing!Discarded
      <4>2. QED
        BY <4>1, Zenon
    <3>2. total \in 0..Len(r.buf) /\ Len(r.buf) > 0
      BY <1>1, <2>1, <2>3
    <3>3. r.audio_ts # Mixing!None
      BY <3>2 DEF Fits, Mixing!Waiting
    <3>4. Mixing!RunsFrom(r.buf, r.audio_ts) /\ r.next = r.audio_ts + Len(r.buf)
      BY <3>3 DEF Fits, Mixing!Waiting
    <3>5. /\ rest \in Seq(Nat) /\ Len(rest) = Len(r.buf) - total
          /\ Mixing!RunsFrom(rest, r.audio_ts + total)
      <4> HIDE DEF total
      <4>1. QED
        BY <1>1, <3>2, <3>4, SamplesCut
    <3>6. Mixing!End = r.audio_ts + total /\ Mixing!End \in Nat /\ Mixing!End # 0
      BY <1>1, <1>2, <2>1, SMTT(20)
    <3> HIDE DEF rest, total
    <3>7. /\ p \in Mixing!Source /\ p.buf = rest /\ p.audio_ts = Mixing!End /\ p.next = r.next
      BY <1>1, <3>5, <3>6 DEF Mixing!Source
    <3>8. r.next = Mixing!End + Len(rest)
      <4>1. total \in Nat /\ Len(rest) = Len(r.buf) - total /\ r.audio_ts \in Nat /\ Len(r.buf) \in Nat
        BY <1>1, <2>1, <3>5
      <4>2. QED
        BY <3>4, <3>6, <4>1
    <3> HIDE DEF p
    <3>9. Mixing!Waiting(p)
      BY <3>5, <3>6, <3>7, <3>8 DEF Mixing!Waiting, Mixing!None
    <3>10. QED
      BY <3>1, <3>7, <3>9 DEF Fits
  <2>4. QED
    BY <2>2, <2>3
<1>6. QED
  BY <1>2, <1>3, <1>4, <1>5

\* What the audio thread does with a source between two of its steps keeps this.
SourcesFit == source \in [Sources -> Mixing!Source] /\ \A s \in Sources : Fits(source[s])

LEMMA MixingParts ==
  Mixing!IInv <=> /\ Mixing!TypeOK /\ Mixing!Timeline /\ Mixing!AudioInPlace
                  /\ SourcesFit /\ \A s \in Sources : Mixing!Taken(source[s])
BY DEF Mixing!IInv, SourcesFit, Fits, Mixing!TypeOK

LEMMA MixingInit == Mixing!Init => Mixing!IInv
<1> USE MixingAssumption
<1> SUFFICES ASSUME Mixing!Init PROVE Mixing!IInv
  OBVIOUS
<1>1. /\ buffered_timestamps = <<>> /\ audio_at = "tick" /\ audio_now = FirstTick /\ ts = 0
      /\ buffering_wait_ticks = 0 /\ total_buffering_ticks = 0 /\ buffered_ts = 0 /\ due = 0
      /\ wrong = FALSE /\ source = [s \in Sources |-> Mixing!Quiet]
  BY DEF Mixing!Init, Mixing!None
<1>2. Mixing!Quiet \in Mixing!Source
  BY EmptySeq DEF Mixing!Quiet, Mixing!Source, Mixing!None
<1>3. Mixing!TypeOK
  <2>1. source \in [Sources -> Mixing!Source] /\ <<>> \in Seq(Int)
    BY <1>1, <1>2, EmptySeq
  <2>2. total_buffering_ticks \in 0..MAX_BUFFERING_TICKS /\ audio_now \in Int
    BY <1>1
  <2>3. buffered_timestamps \in Seq(Int)
    BY <1>1, <2>1
  <2>4. ts \in Int /\ buffered_ts \in Int /\ buffering_wait_ticks \in Nat /\ due \in Int
    BY <1>1
  <2>5. wrong \in BOOLEAN /\ audio_at \in {"tick", "render", "buffer", "mix", "discard"}
    BY <1>1
  <2>6. QED
    BY <2>1, <2>2, <2>3, <2>4, <2>5 DEF Mixing!TypeOK
<1>4. Mixing!Timeline
  BY <1>1 DEF Mixing!Timeline, Mixing!NextTick, Mixing!None
<1>5. Mixing!AudioInPlace
  BY <1>1 DEF Mixing!AudioInPlace
<1>6. ASSUME NEW s \in Sources PROVE Mixing!Waiting(source[s]) /\ Mixing!Taken(source[s])
  BY <1>1 DEF Mixing!Waiting, Mixing!Taken, Mixing!Quiet
<1>7. QED
  BY <1>3, <1>4, <1>5, <1>6 DEF Mixing!IInv

\* A source hands in audio, whatever the audio thread is about to do.
LEMMA SourceDataKeeps ==
  ASSUME Mixing!IInv, NEW s \in Sources, Mixing!SourceData(s)
  PROVE  Mixing!IInv'
<1> USE MixingAssumption
<1> DEFINE r == source[s]
           p == source'[s]
<1>1. /\ Mixing!TypeOK /\ Mixing!Timeline /\ Mixing!AudioInPlace /\ SourcesFit
      /\ \A z \in Sources : Mixing!Taken(source[z])
  BY MixingParts
<1>2. r \in Mixing!Source /\ Fits(r)
  BY <1>1 DEF SourcesFit
<1>3. PICK t : /\ t \in IF r.next = Mixing!None THEN (audio_now - MaxLate)..(audio_now + 1)
                        ELSE {r.next, r.next + Jump, r.next - Jump}
               /\ t > 0
               /\ source' = [source EXCEPT ![s] =
                    [(IF t = r.next /\ r.audio_ts # Mixing!None
                      THEN Mixing!PushBack(r, t) ELSE Mixing!Place(r, t))
                     EXCEPT !.last_size = 0, !.next = t + AudioBlock]]
  BY DEF Mixing!SourceData
<1>4. t \in Nat \ {0}
  <2>1. r.next \in Int /\ audio_now \in Int
    BY <1>1, <1>2, SourceFields DEF Mixing!TypeOK
  <2>2. t \in Int
    BY <1>3, <2>1
  <2>3. QED
    BY <1>3, <2>2
<1>5. p = [(IF t = r.next /\ r.audio_ts # Mixing!None THEN Mixing!PushBack(r, t) ELSE Mixing!Place(r, t))
           EXCEPT !.last_size = 0, !.next = t + AudioBlock]
      /\ \A z \in Sources \ {s} : source'[z] = source[z]
  BY <1>1, <1>3 DEF SourcesFit
<1>6. Fits(p) /\ Begun(p, r)
  <2>1. CASE t = r.next /\ r.audio_ts # Mixing!None
    <3>1. p = [Mixing!PushBack(r, r.next) EXCEPT !.last_size = 0, !.next = r.next + AudioBlock]
      BY <1>5, <2>1, Zenon
    <3> HIDE DEF p, r
    <3>2. QED
      BY <1>2, <2>1, <3>1, PushFits
  <2>2. CASE ~(t = r.next /\ r.audio_ts # Mixing!None)
    <3>1. p = [Mixing!Place(r, t) EXCEPT !.last_size = 0, !.next = t + AudioBlock]
      BY <1>5, <2>2, Zenon
    <3> HIDE DEF p, r
    <3>2. QED
      BY <1>2, <1>4, <3>1, PlaceFits
  <2>3. QED
    BY <2>1, <2>2
<1>7. /\ UNCHANGED <<audio_at, audio_now, buffered_timestamps, ts, buffering_wait_ticks>>
      /\ UNCHANGED <<total_buffering_ticks, buffered_ts, due, wrong>>
  BY DEF Mixing!SourceData, Mixing!buffering
<1>8. SourcesFit'
  <2>1. \A z \in Sources : Fits(source'[z])
    BY <1>1, <1>5, <1>6 DEF SourcesFit
  <2>2. source' \in [Sources -> Mixing!Source]
    <3>1. \A z \in Sources : source'[z] \in Mixing!Source
      BY <2>1 DEF Fits
    <3>2. DOMAIN source' = Sources /\ source' = [z \in Sources |-> source'[z]]
      BY <1>1, <1>3 DEF SourcesFit
    <3>3. QED
      BY <3>1, <3>2
  <2>3. \A z \in Sources : Fits(source[z])'
    BY <2>1 DEF Fits, Mixing!Waiting
  <2>4. QED
    BY <2>2, <2>3 DEF SourcesFit
<1>9. Mixing!TypeOK'
  BY <1>1, <1>7, <1>8 DEF Mixing!TypeOK, SourcesFit
<1>10. Mixing!Timeline'
  BY <1>1, <1>7 DEF Mixing!Timeline, Mixing!NextTick
<1>11. Mixing!AudioInPlace'
  <2>1. ASSUME audio_at = "mix", NEW z \in Sources
        PROVE  \/ source'[z].pending \/ source'[z].reset \/ source'[z].audio_ts = Mixing!None
               \/ source'[z].audio_ts >= ts
               \/ total_buffering_ticks = MAX_BUFFERING_TICKS
    <3>1. \/ source[z].pending \/ source[z].reset \/ source[z].audio_ts = Mixing!None
          \/ source[z].audio_ts >= ts
          \/ total_buffering_ticks = MAX_BUFFERING_TICKS
      BY <1>1, <2>1 DEF Mixing!AudioInPlace
    <3>2. CASE z = s
      BY <1>6, <3>1, <3>2 DEF Begun
    <3>3. CASE z # s
      BY <1>5, <3>1, <3>3
    <3>4. QED
      BY <3>2, <3>3
  <2>2. ~wrong'
    BY <1>1, <1>7 DEF Mixing!AudioInPlace
  <2>3. QED
    BY <1>7, <2>1, <2>2 DEF Mixing!AudioInPlace
<1>12. ASSUME NEW z \in Sources PROVE Mixing!Taken(source[z])'
  <2>1. Mixing!Taken(source[z])
    BY <1>1
  <2>2. CASE z = s
    BY <1>6, <1>7, <2>1, <2>2 DEF Begun, Mixing!Taken, Mixing!RunsFrom
  <2>3. CASE z # s
    BY <1>5, <1>7, <2>1, <2>3 DEF Mixing!Taken, Mixing!RunsFrom
  <2>4. QED
    BY <2>2, <2>3
<1>13. QED
  <2>1. \A z \in Sources : Mixing!Waiting(source[z])'
    BY <1>8 DEF SourcesFit, Fits
  <2>2. QED
    BY <1>9, <1>10, <1>11, <1>12, <2>1 DEF Mixing!IInv


\* Ticks are as long as each other.
LEMMA TicksAdd ==
  /\ \A j \in Int : j * AUDIO_OUTPUT_FRAMES \in Int
  /\ \A j, k \in Int : (j + k) * AUDIO_OUTPUT_FRAMES = j * AUDIO_OUTPUT_FRAMES + k * AUDIO_OUTPUT_FRAMES
  /\ \A j \in Int : (j + 1) * AUDIO_OUTPUT_FRAMES = j * AUDIO_OUTPUT_FRAMES + AUDIO_OUTPUT_FRAMES
  /\ \A j \in Int : (j - 1) * AUDIO_OUTPUT_FRAMES = j * AUDIO_OUTPUT_FRAMES - AUDIO_OUTPUT_FRAMES
BY MixingAssumption

\* As many ticks as make up a delay reach back as far.
LEMMA TicksReach ==
  ASSUME NEW n \in Nat
  PROVE  /\ (n + AUDIO_OUTPUT_FRAMES - 1) \div AUDIO_OUTPUT_FRAMES \in Nat
         /\ ((n + AUDIO_OUTPUT_FRAMES - 1) \div AUDIO_OUTPUT_FRAMES) * AUDIO_OUTPUT_FRAMES >= n
BY MixingAssumption

\* What a step does not touch in the sources stays.
LEMMA SourcesKept ==
  ASSUME SourcesFit, UNCHANGED source
  PROVE  SourcesFit' /\ \A s \in Sources : Mixing!Waiting(source[s])'
BY DEF SourcesFit, Fits, Mixing!Waiting, Mixing!RunsFrom

LEMMA TickKeeps == ASSUME Mixing!IInv, Mixing!Tick PROVE Mixing!IInv'
<1> USE MixingAssumption
<1> DEFINE A == AUDIO_OUTPUT_FRAMES
           n == Mixing!NextTick
           size == Len(buffered_timestamps)
<1>1. /\ Mixing!TypeOK /\ Mixing!Timeline /\ Mixing!AudioInPlace /\ SourcesFit
      /\ \A z \in Sources : Mixing!Taken(source[z])
  BY MixingParts
<1>2. /\ audio_at = "tick" /\ audio_at' = "render"
      /\ buffered_timestamps' = Append(buffered_timestamps, audio_now)
      /\ ts' = Head(buffered_timestamps') /\ audio_now' = audio_now + A
      /\ UNCHANGED <<buffering_wait_ticks, total_buffering_ticks, buffered_ts>>
      /\ UNCHANGED source /\ UNCHANGED due
  BY DEF Mixing!Tick
<1>3. UNCHANGED wrong
  BY DEF Mixing!Tick
<1>4. /\ buffered_timestamps \in Seq(Int) /\ audio_now \in Int /\ size \in Nat
      /\ buffering_wait_ticks \in Nat /\ due \in Int
  BY <1>1 DEF Mixing!TypeOK
<1>5. /\ buffered_timestamps' \in Seq(Int) /\ Len(buffered_timestamps') = size + 1
      /\ \A i \in 1..size : buffered_timestamps'[i] = buffered_timestamps[i]
      /\ buffered_timestamps'[size + 1] = audio_now
      /\ ts' = buffered_timestamps'[1] /\ ts' \in Int
  <2>1. /\ buffered_timestamps' \in Seq(Int) /\ Len(buffered_timestamps') = size + 1
        /\ \A i \in 1..size : buffered_timestamps'[i] = buffered_timestamps[i]
        /\ buffered_timestamps'[size + 1] = audio_now
    BY <1>2, <1>4
  <2>2. buffered_timestamps' # <<>> /\ 1 \in 1..Len(buffered_timestamps')
    BY <1>4, <2>1
  <2>3. QED
    BY <1>2, <2>1, <2>2
<1>6. n \in Int /\ ts' = n
  <2>1. CASE buffered_timestamps = <<>>
    <3>1. n = audio_now /\ size = 0
      BY <1>2, <2>1 DEF Mixing!NextTick
    <3>2. QED
      BY <1>4, <1>5, <3>1
  <2>2. CASE buffered_timestamps # <<>>
    <3>1. n = buffered_timestamps[1] /\ 1 \in 1..size
      BY <1>2, <1>4, <2>2 DEF Mixing!NextTick
    <3>2. QED
      BY <1>4, <1>5, <3>1
  <2>3. QED
    BY <2>1, <2>2
<1>7. Mixing!NextTick' = n
  BY <1>2, <1>6 DEF Mixing!NextTick
<1>8. /\ \A i \in 1..size : buffered_timestamps[i] = n + (i - 1) * A
      /\ audio_now = n + size * A
      /\ buffering_wait_ticks # 0 => buffered_ts = n + buffering_wait_ticks * A
      /\ due # Mixing!None => due = n + buffering_wait_ticks * A
  BY <1>1 DEF Mixing!Timeline
<1> HIDE DEF n, size, A
<1>9. Mixing!Timeline'
  <2>1. ASSUME NEW i \in 1..(size + 1)
        PROVE  buffered_timestamps'[i] = n + (i - 1) * A
    <3>1. CASE i \in 1..size
      BY <1>5, <1>8, <3>1
    <3>2. CASE i = size + 1
      <4>1. i - 1 = size
        BY <1>4, <3>2
      <4>2. QED
        BY <1>5, <1>8, <3>2, <4>1
    <3>3. QED
      BY <1>4, <3>1, <3>2
  <2>2. audio_now' = n + (size + 1) * A
    <3>1. size * A \in Int /\ (size + 1) * A = size * A + A /\ A \in Int
      BY <1>4, TicksAdd DEF A
    <3>2. audio_now' = (n + size * A) + A
      BY <1>2, <1>8
    <3>3. QED
      BY <1>6, <3>1, <3>2
  <2>3. buffered_timestamps' # <<>>
    BY <1>4, <1>5
  <2>4. QED
    BY <1>2, <1>5, <1>7, <1>8, <2>1, <2>2, <2>3 DEF Mixing!Timeline, A
<1>10. Mixing!TypeOK'
  <2>1. audio_now' \in Int
    BY <1>2, <1>4 DEF A
  <2>2. UNCHANGED <<source, buffering_wait_ticks, total_buffering_ticks, buffered_ts, due, wrong>>
    BY <1>2, <1>3
  <2>3. QED
    BY <1>1, <1>2, <1>5, <2>1, <2>2 DEF Mixing!TypeOK
<1>11. Mixing!AudioInPlace'
  BY <1>1, <1>2, <1>3 DEF Mixing!AudioInPlace
<1>12. \A z \in Sources : Mixing!Taken(source[z])'
  BY <1>2 DEF Mixing!Taken
<1>13. QED
  BY <1>1, <1>2, <1>9, <1>10, <1>11, <1>12, SourcesKept DEF Mixing!IInv

\* The audio thread takes from every source what makes up a tick.
LEMMA RenderKeeps == ASSUME Mixing!IInv, Mixing!Render PROVE Mixing!IInv'
<1>1. /\ Mixing!TypeOK /\ Mixing!Timeline /\ Mixing!AudioInPlace /\ SourcesFit
      /\ \A z \in Sources : Mixing!Taken(source[z])
  BY MixingParts
<1>2. /\ audio_at = "render" /\ audio_at' = "buffer"
      /\ source' = [s \in Sources |-> Mixing!Rendered(source[s])]
      /\ UNCHANGED <<audio_now, buffered_timestamps, ts, buffering_wait_ticks>>
      /\ UNCHANGED <<total_buffering_ticks, buffered_ts, due>>
  BY DEF Mixing!Render, Mixing!buffering
<1>3. UNCHANGED wrong
  BY DEF Mixing!Render
<1>4. ASSUME NEW s \in Sources
      PROVE  /\ Fits(source'[s]) /\ source'[s] \in Mixing!Source
             /\ ~source'[s].pending =>
                  /\ source'[s].audio_ts # Mixing!None /\ Len(source'[s].out) = AUDIO_OUTPUT_FRAMES
                  /\ Mixing!RunsFrom(source'[s].out, source'[s].audio_ts)
  <2> DEFINE r == source[s]
             p == source'[s]
  <2>1. r \in Mixing!Source /\ Fits(r) /\ p = Mixing!Rendered(r)
    BY <1>1, <1>2 DEF SourcesFit
  <2> HIDE DEF r, p
  <2>2. /\ Fits(p)
        /\ ~p.pending => /\ p.audio_ts # Mixing!None /\ Len(p.out) = AUDIO_OUTPUT_FRAMES
                         /\ Mixing!RunsFrom(p.out, p.audio_ts)
    BY <2>1, RenderedFits
  <2>3. QED
    BY <2>2 DEF p, Fits
<1>5. source' \in [Sources -> Mixing!Source] /\ \A s \in Sources : Mixing!Waiting(source[s])'
  <2>1. source' \in [Sources -> Mixing!Source]
    BY <1>2, <1>4
  <2>2. \A s \in Sources : Mixing!Waiting(source[s])'
    BY <1>4 DEF Fits, Mixing!Waiting, Mixing!RunsFrom
  <2>3. QED
    BY <2>1, <2>2
<1>6. \A s \in Sources : Mixing!Taken(source[s])'
  BY <1>4 DEF Mixing!Taken, Mixing!RunsFrom
<1>7. Mixing!TypeOK'
  BY <1>1, <1>2, <1>3, <1>5 DEF Mixing!TypeOK
<1>8. Mixing!Timeline'
  BY <1>1, <1>2 DEF Mixing!Timeline, Mixing!NextTick
<1>9. Mixing!AudioInPlace'
  BY <1>1, <1>2, <1>3 DEF Mixing!AudioInPlace
<1>10. QED
  BY <1>5, <1>6, <1>7, <1>8, <1>9 DEF Mixing!IInv


\* find_min_ts: there is a least one, no later than the tick nor than any source
\* that has given audio to it.
LEMMA MinimumTime ==
  ASSUME Mixing!TypeOK
  PROVE  /\ Mixing!find_min_ts \in Int /\ Mixing!find_min_ts <= ts
         /\ \A s \in Sources : ~source[s].pending /\ source[s].audio_ts # Mixing!None
                               => Mixing!find_min_ts <= source[s].audio_ts
<1> DEFINE P == {source[s].audio_ts : s \in {r \in Sources : ~source[r].pending}} \ {Mixing!None}
           times == {ts} \cup P
           low == {x \in P : x <= ts}
<1>1. ts \in Int /\ source \in [Sources -> Mixing!Source]
  BY DEF Mixing!TypeOK
<1>2. P \subseteq Nat
  <2>1. \A s \in Sources : source[s].audio_ts \in Nat
    BY <1>1, SourceFields
  <2>2. QED
    BY <2>1
<1>3. \A s \in Sources : ~source[s].pending /\ source[s].audio_ts # Mixing!None
                         => source[s].audio_ts \in P
  OBVIOUS
<1>4. Mixing!find_min_ts = CHOOSE t \in times : \A u \in times : t <= u
  BY DEF Mixing!find_min_ts
<1> HIDE DEF P
<1>5. \E t \in times : \A u \in times : t <= u
  <2>1. CASE low = {}
    <3>1. \A u \in P : ts <= u
      BY <1>1, <1>2, <2>1
    <3>2. QED
      BY <1>1, <3>1
  <2>2. CASE low # {}
    <3>1. low \subseteq Nat
      BY <1>2
    <3>2. PICK m \in low : \A u \in low : m <= u
      BY <2>2, <3>1, Least
    <3>3. m \in P /\ m \in Nat /\ m <= ts
      BY <1>2, <3>2
    <3>4. ASSUME NEW u \in P PROVE m <= u
      <4>1. CASE u <= ts
        BY <3>2, <4>1
      <4>2. CASE ~(u <= ts)
        BY <1>1, <1>2, <3>3, <4>2
      <4>3. QED
        BY <4>1, <4>2
    <3>5. QED
      BY <3>3, <3>4
  <2>3. QED
    BY <2>1, <2>2
<1>6. Mixing!find_min_ts \in times /\ \A u \in times : Mixing!find_min_ts <= u
  BY <1>4, <1>5
<1>7. Mixing!find_min_ts \in Int
  BY <1>1, <1>2, <1>6
<1>8. Mixing!find_min_ts <= ts /\ \A u \in P : Mixing!find_min_ts <= u
  BY <1>6
<1>9. QED
  BY <1>3, <1>7, <1>8

\* Sequences of times, one after the other.
LEMMA Joined ==
  ASSUME NEW s \in Seq(Int), NEW u \in Seq(Int)
  PROVE  /\ s \o u \in Seq(Int) /\ Len(s \o u) = Len(s) + Len(u)
         /\ \A i \in 1..Len(s) : (s \o u)[i] = s[i]
         /\ \A i \in 1..Len(u) : (s \o u)[Len(s) + i] = u[i]
OBVIOUS

\* The ticks that add_audio_buffering puts in front go on to those that wait, and
\* they begin early enough unless that were too many.
LEMMA BufferingAdds ==
  ASSUME Mixing!TypeOK, Mixing!Timeline, audio_at = "buffer", audio_at' = "mix", NEW m \in Int, m < ts,
         total_buffering_ticks # MAX_BUFFERING_TICKS,
         Mixing!add_audio_buffering(m), UNCHANGED <<audio_now, due>>
  PROVE  /\ Mixing!Timeline' /\ buffered_timestamps' \in Seq(Int) /\ ts' \in Int /\ buffered_ts' \in Int
         /\ buffering_wait_ticks' \in Nat /\ total_buffering_ticks' \in 0..MAX_BUFFERING_TICKS
         /\ ts' <= m \/ total_buffering_ticks' = MAX_BUFFERING_TICKS
<1> USE MixingAssumption
<1> DEFINE A == AUDIO_OUTPUT_FRAMES
           w == buffering_wait_ticks
           size == Len(buffered_timestamps)
           begin == IF w = 0 THEN ts ELSE buffered_ts
           need == (ts - m + A - 1) \div A
           k == Mixing!Less(need, MAX_BUFFERING_TICKS - total_buffering_ticks)
           f == begin - (w + k) * A
           new == [i \in 1..k |-> f + (i - 1) * A]
<1>1. /\ buffered_timestamps \in Seq(Int) /\ ts \in Int /\ w \in Nat /\ size \in Nat
      /\ total_buffering_ticks \in 0..MAX_BUFFERING_TICKS /\ audio_now \in Int /\ buffered_ts \in Int
  BY DEF Mixing!TypeOK
<1>2. /\ \A i \in 1..size : buffered_timestamps[i] = ts + (i - 1) * A
      /\ audio_now = ts + size * A
      /\ w # 0 => buffered_ts = ts + w * A
      /\ due # Mixing!None => due = ts + w * A
      /\ buffered_timestamps # <<>>
  BY DEF Mixing!Timeline, Mixing!NextTick
<1>3. /\ buffered_ts' = begin /\ total_buffering_ticks' = total_buffering_ticks + k
      /\ buffering_wait_ticks' = w + k
      /\ buffered_timestamps' = new \o buffered_timestamps
      /\ ts' = f
  BY DEF Mixing!add_audio_buffering
<1>4. need \in Nat /\ need * A >= ts - m
  <2>1. ts - m \in Nat
    BY <1>1
  <2>2. QED
    BY <2>1, TicksReach
<1>5. k \in Nat /\ k <= MAX_BUFFERING_TICKS - total_buffering_ticks
      /\ (k = need \/ k = MAX_BUFFERING_TICKS - total_buffering_ticks)
  <2> HIDE DEF need
  <2>1. QED
    BY <1>1, <1>4 DEF Mixing!Less
<1> HIDE DEF k, need
<1>6. begin = ts + w * A /\ begin \in Int
  <2>1. w * A \in Int
    BY <1>1, TicksAdd
  <2>2. CASE w = 0
    BY <1>1, <2>2
  <2>3. CASE w # 0
    BY <1>1, <1>2, <2>1, <2>3
  <2>4. QED
    BY <2>2, <2>3
<1>7. f = ts - k * A /\ f \in Int /\ k * A \in Int
  <2>1. (w + k) * A = w * A + k * A /\ w * A \in Int /\ k * A \in Int
    BY <1>1, <1>5, TicksAdd
  <2>2. QED
    BY <1>1, <1>6, <2>1, SMTT(20)
<1> HIDE DEF f
<1>8. /\ new \in Seq(Int) /\ Len(new) = k /\ \A i \in 1..k : new[i] = f + (i - 1) * A
  <2>1. \A i \in 1..k : f + (i - 1) * A \in Int
    <3>1. \A i \in 1..k : i - 1 \in Int
      BY <1>5
    <3>2. QED
      BY <1>7, <3>1, TicksAdd
  <2>2. new \in [1..k -> Int] /\ \A i \in 1..k : new[i] = f + (i - 1) * A
    BY <2>1
  <2> HIDE DEF new
  <2>3. new \in Seq(Int) /\ Len(new) = k
    BY <1>5, <2>2
  <2>4. QED
    BY <2>2, <2>3
<1> HIDE DEF new
<1>9. /\ buffered_timestamps' \in Seq(Int) /\ Len(buffered_timestamps') = k + size
      /\ \A i \in 1..k : buffered_timestamps'[i] = new[i]
      /\ \A i \in 1..size : buffered_timestamps'[k + i] = buffered_timestamps[i]
  BY <1>1, <1>3, <1>8, Joined
<1>10. ASSUME NEW i \in 1..(k + size)
       PROVE  buffered_timestamps'[i] = f + (i - 1) * A
  <2>1. CASE i \in 1..k
    BY <1>8, <1>9, <2>1
  <2>2. CASE i \notin 1..k
    <3> DEFINE j == i - k
    <3>1. j \in 1..size /\ i = k + j /\ i - 1 = (j - 1) + k /\ j - 1 \in Int
      BY <1>1, <1>5, <2>2
    <3> HIDE DEF j
    <3>2. buffered_timestamps'[i] = ts + (j - 1) * A
      BY <1>2, <1>9, <3>1
    <3>3. (i - 1) * A = (j - 1) * A + k * A /\ (j - 1) * A \in Int
      BY <1>5, <3>1, TicksAdd
    <3>4. QED
      BY <1>1, <1>7, <3>2, <3>3
  <2>3. QED
    BY <2>1, <2>2
<1>11. audio_now' = f + (k + size) * A
  <2>1. (k + size) * A = k * A + size * A /\ size * A \in Int
    BY <1>1, <1>5, TicksAdd
  <2>2. QED
    BY <1>1, <1>2, <1>7, <2>1
<1>12. f + (w + k) * A = ts + w * A
  <2>1. (w + k) * A = w * A + k * A /\ w * A \in Int
    BY <1>1, <1>5, TicksAdd
  <2>2. QED
    BY <1>1, <1>7, <2>1
<1> HIDE DEF begin, w, size, A
<1>13. Mixing!Timeline'
  <2>1. Mixing!NextTick' = f
    BY <1>3 DEF Mixing!NextTick
  <2>2. buffered_timestamps' # <<>>
    <3>1. size # 0
      BY <1>1, <1>2 DEF size
    <3>2. Len(buffered_timestamps') # 0
      BY <1>1, <1>5, <1>9, <3>1
    <3>3. QED
      BY <3>2
  <2>3. buffered_ts' = f + (w + k) * A
    BY <1>3, <1>6, <1>12
  <2>4. due # Mixing!None => due = f + (w + k) * A
    BY <1>2, <1>12
  <2>5. \A i \in 1..Len(buffered_timestamps') : buffered_timestamps'[i] = f + (i - 1) * A
    BY <1>9, <1>10
  <2>6. audio_now' = f + Len(buffered_timestamps') * A
    BY <1>9, <1>11
  <2>7. QED
    BY <1>3, <2>1, <2>2, <2>3, <2>4, <2>5, <2>6 DEF Mixing!Timeline, A
<1>14. ts' <= m \/ total_buffering_ticks' = MAX_BUFFERING_TICKS
  <2>1. CASE k = need
    BY <1>1, <1>3, <1>4, <1>7, <2>1
  <2>2. CASE k = MAX_BUFFERING_TICKS - total_buffering_ticks
    BY <1>1, <1>3, <1>5, <2>2
  <2>3. QED
    BY <1>5, <2>1, <2>2
<1>15. total_buffering_ticks' \in 0..MAX_BUFFERING_TICKS /\ buffering_wait_ticks' \in Nat
  BY <1>1, <1>3, <1>5
<1>16. QED
  BY <1>3, <1>6, <1>7, <1>9, <1>13, <1>14, <1>15

\* calc_min_ts and add_audio_buffering.
LEMMA BufferKeeps == ASSUME Mixing!IInv, Mixing!Buffer PROVE Mixing!IInv'
<1> DEFINE m == Mixing!find_min_ts
<1>1. /\ Mixing!TypeOK /\ Mixing!Timeline /\ Mixing!AudioInPlace /\ SourcesFit
      /\ \A z \in Sources : Mixing!Taken(source[z])
  BY MixingParts
<1>2. /\ audio_at = "buffer" /\ audio_at' = "mix"
      /\ source' = [s \in Sources |-> IF Mixing!Insufficient(source[s], m)
                                      THEN [source[s] EXCEPT !.pending = TRUE] ELSE source[s]]
      /\ IF m < ts /\ total_buffering_ticks # MAX_BUFFERING_TICKS
         THEN Mixing!add_audio_buffering(m)
         ELSE UNCHANGED <<buffered_timestamps, ts, buffering_wait_ticks, total_buffering_ticks, buffered_ts>>
      /\ UNCHANGED <<audio_now, due>>
  BY DEF Mixing!Buffer, Mixing!buffering
<1>3. UNCHANGED wrong
  BY DEF Mixing!Buffer
<1>4. /\ m \in Int /\ m <= ts
      /\ \A s \in Sources : ~source[s].pending /\ source[s].audio_ts # Mixing!None
                            => m <= source[s].audio_ts
  BY <1>1, MinimumTime
<1> HIDE DEF m
<1>5. ASSUME NEW s \in Sources
      PROVE  /\ source'[s] \in Mixing!Source /\ Mixing!Waiting(source[s])'
             /\ source'[s].audio_ts = source[s].audio_ts /\ source'[s].out = source[s].out
             /\ source'[s].reset = source[s].reset
             /\ ~source'[s].pending => ~source[s].pending
  <2>1. source[s] \in Mixing!Source /\ Mixing!Waiting(source[s])
    BY <1>1 DEF SourcesFit, Fits
  <2>2. CASE source'[s] = source[s]
    BY <2>1, <2>2 DEF Mixing!Waiting, Mixing!RunsFrom
  <2>3. CASE source'[s] = [source[s] EXCEPT !.pending = TRUE]
    <3>1. /\ source'[s] \in Mixing!Source /\ source'[s].audio_ts = source[s].audio_ts
          /\ source'[s].out = source[s].out /\ source'[s].buf = source[s].buf
          /\ source'[s].next = source[s].next
      BY <2>1, <2>3 DEF Mixing!Source
    <3>2. source'[s].reset = source[s].reset /\ source'[s].pending
      BY <2>1, <2>3 DEF Mixing!Source
    <3>3. Mixing!Waiting(source[s])'
      BY <2>1, <3>1 DEF Mixing!Waiting, Mixing!RunsFrom
    <3>4. QED
      BY <3>1, <3>2, <3>3
  <2>4. QED
    BY <1>2, <2>2, <2>3
<1>6. source' \in [Sources -> Mixing!Source]
  <2>1. source' = [s \in Sources |-> source'[s]]
    BY <1>2
  <2>2. QED
    BY <1>5, <2>1
<1>7. \A s \in Sources : Mixing!Taken(source[s])'
  <2>1. ASSUME NEW s \in Sources PROVE Mixing!Taken(source[s])'
    <3>1. Mixing!Taken(source[s])
      BY <1>1
    <3>2. QED
      BY <1>2, <1>5, <3>1 DEF Mixing!Taken, Mixing!RunsFrom
  <2>2. QED
    BY <2>1
<1>8. /\ Mixing!Timeline' /\ buffered_timestamps' \in Seq(Int) /\ ts' \in Int /\ buffered_ts' \in Int
      /\ buffering_wait_ticks' \in Nat /\ total_buffering_ticks' \in 0..MAX_BUFFERING_TICKS
      /\ ts' <= m \/ total_buffering_ticks' = MAX_BUFFERING_TICKS
  <2>1. CASE m < ts /\ total_buffering_ticks # MAX_BUFFERING_TICKS
    BY <1>1, <1>2, <1>4, <2>1, BufferingAdds
  <2>2. CASE ~(m < ts /\ total_buffering_ticks # MAX_BUFFERING_TICKS)
    <3>1. UNCHANGED <<buffered_timestamps, ts, buffering_wait_ticks, total_buffering_ticks, buffered_ts>>
      BY <1>2, <2>2
    <3>2. Mixing!Timeline'
      BY <1>1, <1>2, <3>1 DEF Mixing!Timeline, Mixing!NextTick
    <3>3. ts' <= m \/ total_buffering_ticks' = MAX_BUFFERING_TICKS
      <4>1. ts \in Int
        BY <1>1 DEF Mixing!TypeOK
      <4>2. QED
        BY <1>4, <2>2, <3>1, <4>1
    <3>4. QED
      BY <1>1, <3>1, <3>2, <3>3 DEF Mixing!TypeOK
  <2>3. QED
    BY <2>1, <2>2
<1>9. Mixing!TypeOK'
  <2>1. audio_now' \in Int /\ due' \in Int /\ wrong' \in BOOLEAN
    BY <1>1, <1>2, <1>3 DEF Mixing!TypeOK
  <2>2. QED
    BY <1>2, <1>6, <1>8, <2>1 DEF Mixing!TypeOK
<1>10. Mixing!AudioInPlace'
  <2>1. ~wrong'
    BY <1>1, <1>3 DEF Mixing!AudioInPlace
  <2>2. ASSUME NEW s \in Sources, ~source'[s].pending, source'[s].audio_ts # Mixing!None,
               total_buffering_ticks' # MAX_BUFFERING_TICKS
        PROVE  source'[s].audio_ts >= ts'
    <3>1. m <= source'[s].audio_ts /\ ts' <= m
      BY <1>4, <1>5, <1>8, <2>2
    <3>2. source'[s].audio_ts \in Nat
      BY <1>5, SourceFields
    <3>3. QED
      BY <1>4, <1>8, <3>1, <3>2
  <2>3. QED
    BY <2>1, <2>2 DEF Mixing!AudioInPlace
<1>11. QED
  BY <1>5, <1>7, <1>8, <1>9, <1>10 DEF Mixing!IInv

\* mix_audio: what was taken is where its time says.
LEMMA MixKeeps == ASSUME Mixing!IInv, Mixing!Mix PROVE Mixing!IInv'
<1> USE MixingAssumption
<1>1. /\ Mixing!TypeOK /\ Mixing!Timeline /\ Mixing!AudioInPlace /\ SourcesFit
      /\ \A z \in Sources : Mixing!Taken(source[z])
  BY MixingParts
<1>2. /\ audio_at = "mix" /\ audio_at' = "discard"
      /\ UNCHANGED <<audio_now, buffered_timestamps, ts, buffering_wait_ticks>>
      /\ UNCHANGED <<total_buffering_ticks, buffered_ts, due, source>>
  BY DEF Mixing!Mix, Mixing!buffering
<1>3. ASSUME NEW s \in Sources, ~source[s].reset PROVE ~Mixing!Misplaces(source[s])
  <2> DEFINE r == source[s]
             a == source[s].audio_ts
  <2>1. CASE r.pending
    BY <2>1 DEF Mixing!Misplaces
  <2>2. CASE ~r.pending /\ a # Mixing!None /\ ts <= a /\ a < Mixing!End
    <3>1. Len(r.out) = AUDIO_OUTPUT_FRAMES /\ Mixing!RunsFrom(r.out, a)
      BY <1>1, <1>2, <1>3, <2>2 DEF Mixing!Taken
    <3>2. ts \in Int /\ a \in Nat /\ Mixing!End = ts + AUDIO_OUTPUT_FRAMES
      BY <1>1, SourceFields DEF Mixing!TypeOK, Mixing!End
    <3>3. \A i \in 1..(Mixing!End - a) : i \in 1..AUDIO_OUTPUT_FRAMES
      BY <2>2, <3>2
    <3>4. \A i \in 1..(Mixing!End - a) : r.out[i] \in {0, a + i - 1}
      BY <3>1, <3>3 DEF Mixing!RunsFrom
    <3>5. QED
      BY <3>4 DEF Mixing!Misplaces
  <2>3. QED
    BY <2>1, <2>2 DEF Mixing!Misplaces
<1>4. ~wrong'
  BY <1>1, <1>3 DEF Mixing!Mix, Mixing!AudioInPlace
<1>5. Mixing!TypeOK'
  <2>1. wrong' \in BOOLEAN
    BY DEF Mixing!Mix
  <2>2. QED
    BY <1>1, <1>2, <2>1 DEF Mixing!TypeOK
<1>6. Mixing!Timeline'
  BY <1>1, <1>2 DEF Mixing!Timeline, Mixing!NextTick
<1>7. Mixing!AudioInPlace'
  BY <1>2, <1>4 DEF Mixing!AudioInPlace
<1>8. \A z \in Sources : Mixing!Taken(source[z])'
  BY <1>2 DEF Mixing!Taken
<1>9. QED
  BY <1>1, <1>2, <1>5, <1>6, <1>7, <1>8, SourcesKept DEF Mixing!IInv

\* discard_audio, and the end of the callback.
LEMMA DiscardKeeps == ASSUME Mixing!IInv, Mixing!Discard PROVE Mixing!IInv'
<1> USE MixingAssumption
<1> DEFINE A == AUDIO_OUTPUT_FRAMES
           w == buffering_wait_ticks
           size == Len(buffered_timestamps)
<1>1. /\ Mixing!TypeOK /\ Mixing!Timeline /\ Mixing!AudioInPlace /\ SourcesFit
  BY MixingParts
<1>2. /\ audio_at = "discard" /\ audio_at' = "tick"
      /\ source' = [s \in Sources |-> Mixing!Discarded(source[s])]
      /\ buffered_timestamps' = Tail(buffered_timestamps)
      /\ UNCHANGED <<audio_now, ts, total_buffering_ticks, buffered_ts>>
  BY DEF Mixing!Discard
<1>3. \/ w > 0 /\ w' = w - 1 /\ due' = due /\ wrong' = wrong
      \/ /\ ~(w > 0) /\ w' = w /\ due' = Mixing!End
         /\ wrong' = (wrong \/ (due # Mixing!None /\ ts # due))
  BY DEF Mixing!Discard
<1>4. /\ buffered_timestamps \in Seq(Int) /\ ts \in Int /\ w \in Nat /\ size \in Nat
      /\ audio_now \in Int /\ buffered_ts \in Int /\ due \in Int
  BY <1>1 DEF Mixing!TypeOK
<1>5. /\ \A i \in 1..size : buffered_timestamps[i] = ts + (i - 1) * A
      /\ audio_now = ts + size * A
      /\ w # 0 => buffered_ts = ts + w * A
      /\ due # Mixing!None => due = ts + w * A
      /\ buffered_timestamps # <<>>
  BY <1>1, <1>2 DEF Mixing!Timeline, Mixing!NextTick
<1>6. /\ size - 1 \in Nat /\ buffered_timestamps' \in Seq(Int) /\ Len(buffered_timestamps') = size - 1
      /\ \A i \in 1..(size - 1) : buffered_timestamps'[i] = buffered_timestamps[i + 1]
  BY <1>2, <1>4, <1>5
<1> HIDE DEF size, A, w
<1>7. A \in Int /\ Mixing!End = ts + A /\ Mixing!End \in Int
  BY <1>4 DEF A, Mixing!End
<1>8. \A i \in 1..(size - 1) : buffered_timestamps'[i] = (ts + A) + (i - 1) * A
  <2>1. ASSUME NEW i \in 1..(size - 1)
        PROVE  buffered_timestamps'[i] = (ts + A) + (i - 1) * A
    <3>1. i + 1 \in 1..size /\ (i + 1) - 1 = (i - 1) + 1 /\ i - 1 \in Int
      BY <1>4, <1>6
    <3>2. buffered_timestamps'[i] = ts + ((i + 1) - 1) * A
      BY <1>5, <1>6, <3>1
    <3>3. ((i - 1) + 1) * A = (i - 1) * A + A /\ (i - 1) * A \in Int
      BY <3>1, TicksAdd DEF A
    <3>4. QED
      BY <1>4, <1>7, <3>1, <3>2, <3>3
  <2>2. QED
    BY <2>1
<1>9. audio_now' = (ts + A) + (size - 1) * A
  <2>1. (size - 1) * A = size * A - A /\ size * A \in Int
    BY <1>4, TicksAdd DEF A
  <2>2. QED
    BY <1>2, <1>4, <1>5, <1>7, <2>1
<1>10. Mixing!NextTick' = ts + A
  <2>1. CASE size - 1 = 0
    <3>1. buffered_timestamps' = <<>>
      BY <1>6, <2>1
    <3>2. 0 * A = 0
      BY <1>7
    <3>3. audio_now' = ts + A
      BY <1>4, <1>7, <1>9, <2>1, <3>2
    <3>4. QED
      BY <1>2, <3>1, <3>3 DEF Mixing!NextTick
  <2>2. CASE size - 1 # 0
    <3>1. buffered_timestamps' # <<>> /\ 1 \in 1..(size - 1) /\ Head(buffered_timestamps') = buffered_timestamps'[1]
      <4>1. 1 \in 1..(size - 1) /\ Len(buffered_timestamps') # 0
        BY <1>4, <1>6, <2>2
      <4>2. ASSUME NEW u \in Seq(Int), Len(u) # 0 PROVE u # <<>> /\ Head(u) = u[1]
        BY <4>2
      <4>3. buffered_timestamps' \in Seq(Int)
        BY <1>6
      <4>4. QED
        BY <4>1, <4>2, <4>3
    <3>2. buffered_timestamps'[1] = (ts + A) + (1 - 1) * A
      BY <1>8, <3>1
    <3>3. (1 - 1) * A = 0
      BY <1>7
    <3>4. buffered_timestamps'[1] = ts + A
      BY <1>4, <1>7, <3>2, <3>3
    <3>5. QED
      BY <1>2, <3>1, <3>4 DEF Mixing!NextTick
  <2>3. QED
    BY <2>1, <2>2
<1>11. (w - 1) * A = w * A - A /\ w * A \in Int /\ 0 * A = 0
  BY <1>4, <1>7, TicksAdd DEF A
<1>12. /\ w' # 0 => buffered_ts = (ts + A) + w' * A
       /\ due' # Mixing!None => due' = (ts + A) + w' * A
       /\ w' \in Nat /\ due' \in Int
  <2>1. CASE w > 0
    <3>1. w' = w - 1 /\ due' = due /\ w # 0
      BY <1>3, <1>4, <2>1
    <3>2. buffered_ts = (ts + A) + (w - 1) * A
      BY <1>4, <1>5, <1>7, <1>11, <3>1
    <3>3. due # Mixing!None => due = (ts + A) + (w - 1) * A
      BY <1>4, <1>5, <1>7, <1>11
    <3>4. w - 1 \in Nat
      BY <1>4, <2>1
    <3>5. QED
      BY <1>4, <3>1, <3>2, <3>3, <3>4
  <2>2. CASE ~(w > 0)
    <3>1. w' = 0 /\ w = 0 /\ due' = Mixing!End
      BY <1>3, <1>4, <2>2
    <3>2. Mixing!End = (ts + A) + 0 * A
      BY <1>4, <1>7, <1>11
    <3>3. QED
      BY <1>7, <3>1, <3>2
  <2>3. QED
    BY <2>1, <2>2
<1>13. ~wrong'
  <2>1. ~wrong
    BY <1>1 DEF Mixing!AudioInPlace
  <2>2. CASE w > 0
    BY <1>3, <2>1, <2>2
  <2>3. CASE ~(w > 0)
    <3>1. w = 0
      BY <1>4, <2>3
    <3>2. due # Mixing!None => due = ts
      BY <1>4, <1>5, <1>11, <3>1
    <3>3. QED
      BY <1>3, <2>1, <2>3, <3>2
  <2>4. QED
    BY <2>2, <2>3
<1>14. source' \in [Sources -> Mixing!Source] /\ \A s \in Sources : Mixing!Waiting(source[s])'
  <2>1. ASSUME NEW s \in Sources PROVE Fits(source'[s])
    <3> DEFINE r == source[s]
    <3>1. r \in Mixing!Source /\ Fits(r) /\ source'[s] = Mixing!Discarded(r)
      BY <1>1, <1>2 DEF SourcesFit
    <3> HIDE DEF r
    <3>2. QED
      BY <1>4, <3>1, DiscardedFits
  <2>2. source' = [s \in Sources |-> source'[s]]
    BY <1>2
  <2>3. \A s \in Sources : source'[s] \in Mixing!Source
    BY <2>1 DEF Fits
  <2>4. \A s \in Sources : Mixing!Waiting(source[s])'
    BY <2>1 DEF Fits, Mixing!Waiting, Mixing!RunsFrom
  <2>5. QED
    BY <2>2, <2>3, <2>4
<1>15. Mixing!Timeline'
  <2>1. /\ audio_at' = "tick" /\ Len(buffered_timestamps') = size - 1 /\ buffered_ts' = buffered_ts
    BY <1>2, <1>6
  <2>2. QED
    BY <1>8, <1>9, <1>10, <1>12, <2>1 DEF Mixing!Timeline, A, w
<1>16. Mixing!TypeOK'
  <2>1. wrong' \in BOOLEAN
    <3>1. wrong \in BOOLEAN
      BY <1>1 DEF Mixing!TypeOK
    <3>2. QED
      BY <1>3, <3>1
  <2>2. total_buffering_ticks' \in 0..MAX_BUFFERING_TICKS
    BY <1>1, <1>2 DEF Mixing!TypeOK
  <2>3. audio_at' = "tick" /\ audio_now' \in Int /\ ts' \in Int /\ buffered_ts' \in Int
    BY <1>2, <1>4
  <2>4. QED
    BY <1>6, <1>12, <1>14, <2>1, <2>2, <2>3 DEF Mixing!TypeOK, w
<1>17. Mixing!AudioInPlace'
  BY <1>2, <1>13 DEF Mixing!AudioInPlace
<1>18. \A s \in Sources : Mixing!Taken(source[s])'
  BY <1>2 DEF Mixing!Taken
<1>19. QED
  BY <1>14, <1>15, <1>16, <1>17, <1>18 DEF Mixing!IInv

LEMMA MixingStep == Mixing!IInv /\ [Mixing!Next]_mixVars => Mixing!IInv'
<1> SUFFICES ASSUME Mixing!IInv, [Mixing!Next]_mixVars PROVE Mixing!IInv'
  OBVIOUS
<1>1. CASE Mixing!Tick
  BY <1>1, TickKeeps
<1>2. CASE Mixing!Render
  BY <1>2, RenderKeeps
<1>3. CASE Mixing!Buffer
  BY <1>3, BufferKeeps
<1>4. CASE Mixing!Mix
  BY <1>4, MixKeeps
<1>5. CASE Mixing!Discard
  BY <1>5, DiscardKeeps
<1>6. ASSUME NEW s \in Sources, Mixing!SourceData(s) PROVE Mixing!IInv'
  BY <1>6, SourceDataKeeps
<1>7. CASE UNCHANGED mixVars
  <2>1. /\ Mixing!TypeOK' /\ Mixing!Timeline' /\ Mixing!AudioInPlace' /\ SourcesFit
        /\ \A s \in Sources : Mixing!Taken(source[s])'
    BY <1>7, MixingParts DEF mixVars, Mixing!TypeOK, Mixing!Timeline, Mixing!NextTick,
                             Mixing!AudioInPlace, Mixing!Taken
  <2>2. QED
    BY <1>7, <2>1, SourcesKept DEF mixVars, Mixing!IInv
<1>8. QED
  BY <1>1, <1>2, <1>3, <1>4, <1>5, <1>6, <1>7 DEF Mixing!Next

\* The ticks that wait go on without a gap, and what waits of every source and
\* what was taken from it lies at its own time: audio_callback, audio_buffering
\* and discard_audio keep it, and so do sources that hand in audio meanwhile.
THEOREM MixingInvariant == Spec => []Mixing!IInv
<1>1. Init => Mixing!IInv
  BY MixingInit DEF Init
<1>2. Mixing!IInv /\ [Next]_vars => Mixing!IInv'
  <2>1. [Next]_vars => [Mixing!Next]_mixVars
    BY DEF Next, Objects, Raw, Encoded, vars, rawVars, mixVars
  <2>2. QED
    BY <2>1, MixingStep
<1>3. QED
  BY <1>1, <1>2, PTL DEF Spec

\* AudioInPlace, for any number of sources, length of a tick and limit of the
\* wait: ticks follow each other, samples are heard at their own time, and no
\* source is left behind (add_audio_buffering, mix_audio).
THEOREM AudioInPlaceHolds == Spec => []AudioInPlace
<1>1. Mixing!IInv => AudioInPlace
  BY DEF Mixing!IInv, AudioInPlace
<1>2. QED
  BY <1>1, MixingInvariant, PTL

=============================================================================
