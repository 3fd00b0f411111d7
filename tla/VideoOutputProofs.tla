------------------------- MODULE VideoOutputProofs -------------------------
(***************************************************************************)
(* Proofs about VideoOutput, for every cache size, bound and set of        *)
(* inputs: type correctness, the safety invariants its runs check and the  *)
(* safety part of its refinement of FrameStream.                           *)
(***************************************************************************)
EXTENDS VideoOutput, TLAPS

\* The newest queued slot, or the slot the graphics thread fills, is where
\* counting from the oldest one puts it; a slot being filled is not queued.
LastAdded ==
  /\ graphics = "copy" => available_frames > 0 /\ last_added = At(Queued)
  /\ graphics # "copy" => last_added = At(IF Queued = 0 THEN 0 ELSE Queued - 1)

\* A frame that is being filled lasts up to the next one and skips nothing.
Locked ==
  graphics = "copy" =>
    /\ cache[last_added].timestamp + cache[last_added].count = video_time
    /\ cache[last_added].count > 0
    /\ cache[last_added].skipped = 0

\* While the video thread is at a frame, that frame is the oldest queued one.
Shown ==
  /\ Showing => Queued > 0
  /\ video \in {"deliver", "finish"} => frame_info = first_added

\* No queued frame lasts beyond the newest one.  It follows from QueueContiguous
\* by induction along the queue; kept as a conjunct, it needs none.
QueueBounded ==
  \A i \in 0 .. Queued - 1 : cache[At(i)].timestamp + cache[At(i)].count <= Accepted

IInv == /\ TypeOK /\ LastAdded /\ Locked /\ Shown
        /\ QueueContiguous /\ QueueBounded /\ SkipsAreCounted
        /\ SemaphoreAccounts /\ StopIsNotLost

USE CacheAssumption, CountAssumption, TimeAssumption DEF ring, stats

----------------------------------------------------------------------------
(* The ring.                                                               *)

\* Counting from the oldest slot stays in the ring, and wraps only after
\* CacheSize slots.
LEMMA AtProperties ==
  ASSUME first_added \in Slots
  PROVE  /\ \A i \in 0 .. CacheSize - 1 : At(i) \in Slots
         /\ At(0) = first_added
         /\ \A i, j \in 0 .. CacheSize - 1 : At(i) = At(j) => i = j
         /\ \A i \in 0 .. CacheSize - 2 : At(i + 1) = NextSlot(At(i))
BY DEF At, Slots, NextSlot

\* The fields of a slot.
LEMMA FrameType ==
  ASSUME TypeOK, NEW s \in Slots
  PROVE  /\ cache[s].timestamp \in Nat /\ cache[s].count \in Nat
         /\ cache[s].skipped \in Nat
<1>1. cache[s] \in Frame
  BY DEF TypeOK
<1> QED
  BY <1>1 DEF Frame

\* Removing an element leaves a sequence over the same set.
LEMMA RemoveAtType ==
  ASSUME NEW S, NEW s \in Seq(S), NEW i \in 1 .. Len(s)
  PROVE  RemoveAt(s, i) \in Seq(S)
<1>1. SubSeq(s, 1, i - 1) \in Seq(S)
  OBVIOUS
<1>2. SubSeq(s, i + 1, Len(s)) \in Seq(S)
  OBVIOUS
<1> QED
  BY <1>1, <1>2 DEF RemoveAt

----------------------------------------------------------------------------
(* Every action preserves the invariant.                                   *)

\* What the invariant says of the ring and of the semaphore.
Core == /\ LastAdded /\ Locked /\ Shown
        /\ QueueContiguous /\ QueueBounded /\ SkipsAreCounted
        /\ SemaphoreAccounts /\ StopIsNotLost

LEMMA InitIInv == Init => IInv
<1> SUFFICES ASSUME Init PROVE IInv
  OBVIOUS
<1>1. TypeOK
  <2>1. [timestamp |-> 0, count |-> 0, skipped |-> 0] \in Frame
    BY DEF Frame
  <2>2. cache \in [Slots -> Frame]
    BY <2>1 DEF Init
  <2>3. seen \in [Inputs -> Nat \cup {Nothing}]
    BY DEF Init
  <2> QED
    BY <2>2, <2>3 DEF Init, TypeOK, Slots
<1>2. Queued = 0 /\ At(0) = 0
  BY DEF Init, Queued, At
<1>3. LastAdded /\ Locked /\ Shown /\ SemaphoreAccounts /\ StopIsNotLost
  BY <1>2 DEF Init, LastAdded, Locked, Shown, SemaphoreAccounts, StopIsNotLost, Showing
<1>4. QueueContiguous /\ QueueBounded /\ SkipsAreCounted
  BY <1>2 DEF QueueContiguous, QueueBounded, SkipsAreCounted
<1> QED
  BY <1>1, <1>3, <1>4 DEF IInv

\* Steps that neither move the queue nor take the video thread across a
\* boundary of Showing or of a delivery leave the invariant alone.
LEMMA CoreFrame ==
  ASSUME Core, UNCHANGED <<ring, update_semaphore, stop, video_time, frame_info>>,
         (graphics' = "copy") = (graphics = "copy"),
         (video' = "exited") = (video = "exited"),
         Showing' = Showing,
         video' \in {"deliver", "finish"} => video \in {"deliver", "finish"}
  PROVE  Core'
BY DEF Core, ring, LastAdded, Locked, Shown, QueueContiguous, QueueBounded,
       SkipsAreCounted, SemaphoreAccounts, StopIsNotLost, Queued, At, Accepted, Showing

LEMMA LockFrameFullIInv ==
  ASSUME IInv, NEW count \in Counts, LockFrameFull(count)
  PROVE  IInv'
<1> USE DEF IInv
<1>1. /\ Queued = CacheSize /\ Queued' = Queued /\ At(Queued - 1) = last_added
      /\ \A i : At(i)' = At(i)
  BY DEF LockFrameFull, Queued, At, LastAdded, TypeOK
<1>2. TypeOK'
  <2>1. cache' \in [Slots -> Frame]
    <3>1. [timestamp |-> cache[last_added].timestamp,
           count     |-> cache[last_added].count + count,
           skipped   |-> cache[last_added].skipped + count] \in Frame
      <4>1. last_added \in Slots /\ count \in Nat
        BY DEF TypeOK, Counts
      <4> QED
        BY <4>1, FrameType DEF Frame
    <3> QED
      BY <3>1 DEF LockFrameFull, TypeOK
  <2>2. video_time' \in 0 .. MaxTime
    BY DEF LockFrameFull, TypeOK, Counts
  <2> QED
    BY <2>1, <2>2 DEF LockFrameFull, TypeOK
<1>3. LastAdded' /\ Locked' /\ Shown' /\ SemaphoreAccounts' /\ StopIsNotLost'
  BY <1>1 DEF LockFrameFull, LastAdded, Locked, Shown, SemaphoreAccounts,
              StopIsNotLost, Showing, Queued
<1>4. ASSUME NEW i \in 0 .. Queued - 1
      PROVE  /\ At(i) \in Slots
             /\ cache'[At(i)].timestamp = cache[At(i)].timestamp
             /\ cache'[At(i)].count = IF i = Queued - 1 THEN cache[At(i)].count + count
                                                        ELSE cache[At(i)].count
             /\ cache'[At(i)].skipped = IF i = Queued - 1 THEN cache[At(i)].skipped + count
                                                          ELSE cache[At(i)].skipped
  <2>1. /\ i \in 0 .. CacheSize - 1 /\ Queued - 1 \in 0 .. CacheSize - 1
        /\ first_added \in Slots
    BY <1>1 DEF TypeOK
  <2>2. At(i) \in Slots /\ (At(i) = last_added) = (i = Queued - 1)
    BY <1>1, <2>1, AtProperties
  <2> QED
    BY <2>2 DEF LockFrameFull, TypeOK
<1>5. QueueContiguous'
  <2>1. Accepted = video_time /\ Accepted' = video_time + count
    BY DEF LockFrameFull, Accepted
  <2> SUFFICES ASSUME NEW i \in 0 .. Queued - 1
               PROVE  cache'[At(i)].timestamp + cache'[At(i)].count =
                        IF i + 1 < Queued THEN cache'[At(i + 1)].timestamp
                                          ELSE Accepted'
    BY <1>1 DEF QueueContiguous
  <2>2. cache[At(i)].timestamp + cache[At(i)].count =
          IF i + 1 < Queued THEN cache[At(i + 1)].timestamp ELSE Accepted
    BY DEF QueueContiguous
  <2>3. /\ cache[At(i)].timestamp \in Nat /\ cache[At(i)].count \in Nat
        /\ count \in Nat /\ Queued \in Nat
    BY <1>1, <1>4, FrameType DEF Counts
  <2>4. CASE i + 1 < Queued
    BY <1>4, <2>2, <2>3, <2>4
  <2>5. CASE i = Queued - 1
    BY <1>4, <2>1, <2>2, <2>3, <2>5
  <2> QED
    BY <2>3, <2>4, <2>5
<1>6. SkipsAreCounted'
  <2> SUFFICES ASSUME NEW i \in 0 .. Queued - 1
               PROVE  cache'[At(i)].skipped < cache'[At(i)].count
    BY <1>1 DEF SkipsAreCounted
  <2>1. cache[At(i)].skipped < cache[At(i)].count
    BY DEF SkipsAreCounted
  <2>2. cache[At(i)].skipped \in Nat /\ cache[At(i)].count \in Nat /\ count \in Nat
    BY <1>4, FrameType DEF Counts
  <2> QED
    BY <1>4, <2>1, <2>2
<1>7. QueueBounded'
  <2>1. Accepted = video_time /\ Accepted' = video_time + count
    BY DEF LockFrameFull, Accepted
  <2> SUFFICES ASSUME NEW i \in 0 .. Queued - 1
               PROVE  cache'[At(i)].timestamp + cache'[At(i)].count <= Accepted'
    BY <1>1 DEF QueueBounded
  <2>2. cache[At(i)].timestamp + cache[At(i)].count <= Accepted
    BY DEF QueueBounded
  <2>3. /\ cache[At(i)].timestamp \in Nat /\ cache[At(i)].count \in Nat
        /\ count \in Nat /\ Accepted \in Nat
    BY <1>4, <2>1, FrameType DEF Counts, TypeOK
  <2> QED
    BY <1>4, <2>1, <2>2, <2>3
<1> QED
  BY <1>2, <1>3, <1>5, <1>6, <1>7

LEMMA LockFrameIInv ==
  ASSUME IInv, NEW count \in Counts, LockFrame(count)
  PROVE  IInv'
<1> USE DEF IInv
<1>1. /\ Queued < CacheSize /\ Queued' = Queued /\ Queued \in Nat
      /\ \A i : At(i)' = At(i)
  BY DEF LockFrame, Queued, At, TypeOK
<1>2. last_added' = At(Queued) /\ last_added' \in Slots
  BY <1>1, AtProperties DEF LockFrame, LastAdded, TypeOK, Slots, Queued, At, NextSlot
<1>3. TypeOK'
  <2>1. [timestamp |-> video_time, count |-> count, skipped |-> 0] \in Frame
    BY DEF Frame, Counts, TypeOK
  <2>2. cache' \in [Slots -> Frame]
    BY <2>1 DEF LockFrame, TypeOK
  <2>3. video_time' \in 0 .. MaxTime
    BY DEF LockFrame, TypeOK, Counts
  <2> QED
    BY <1>2, <2>2, <2>3 DEF LockFrame, TypeOK
<1>4. \A i \in 0 .. Queued - 1 : At(i) \in Slots /\ cache'[At(i)] = cache[At(i)]
  BY <1>1, <1>2, AtProperties DEF LockFrame, TypeOK
<1>5. /\ cache'[last_added'].timestamp = video_time
      /\ cache'[last_added'].count = count
      /\ cache'[last_added'].skipped = 0
  BY <1>2 DEF LockFrame, TypeOK
<1>6. LastAdded' /\ Locked' /\ Shown' /\ SemaphoreAccounts' /\ StopIsNotLost'
  BY <1>1, <1>2, <1>5 DEF LockFrame, LastAdded, Locked, Shown, SemaphoreAccounts,
              StopIsNotLost, Showing, Queued, Counts, TypeOK
<1>7. QueueContiguous'
  BY <1>1, <1>4, <1>5 DEF QueueContiguous, LockFrame, Accepted
<1>8. QueueBounded'
  BY <1>1, <1>4, <1>5 DEF QueueBounded, LockFrame, Accepted
<1>9. SkipsAreCounted'
  BY <1>1, <1>4 DEF SkipsAreCounted
<1> QED
  BY <1>3, <1>6, <1>7, <1>8, <1>9

LEMMA UnlockFrameIInv ==
  ASSUME IInv, UnlockFrame
  PROVE  IInv'
<1> USE DEF IInv
<1>1. /\ Queued < CacheSize /\ Queued' = Queued + 1 /\ Queued \in Nat
      /\ last_added = At(Queued)
      /\ \A i : At(i)' = At(i)
  BY DEF UnlockFrame, LastAdded, Queued, At, TypeOK
<1>2. TypeOK'
  BY <1>1 DEF UnlockFrame, TypeOK, LastAdded
<1>3. LastAdded' /\ Locked' /\ Shown' /\ SemaphoreAccounts' /\ StopIsNotLost'
  BY <1>1 DEF UnlockFrame, LastAdded, Locked, Shown, SemaphoreAccounts,
              StopIsNotLost, Showing, Queued, TypeOK
<1>4. QueueContiguous'
  BY <1>1 DEF QueueContiguous, UnlockFrame, Accepted, Locked
<1>5. SkipsAreCounted'
  BY <1>1 DEF SkipsAreCounted, UnlockFrame, Locked
<1>6. QueueBounded'
  <2>1. Accepted = cache[last_added].timestamp /\ Accepted' = video_time
    BY DEF UnlockFrame, Accepted
  <2>2. /\ cache[last_added].timestamp \in Nat /\ cache[last_added].count \in Nat
        /\ cache[last_added].timestamp + cache[last_added].count = video_time
    BY FrameType DEF UnlockFrame, TypeOK, Locked
  <2>3. \A i \in 0 .. Queued - 1 :
          /\ cache[At(i)].timestamp + cache[At(i)].count <= Accepted
          /\ cache[At(i)].timestamp + cache[At(i)].count \in Nat
    <3>1. \A i \in 0 .. Queued - 1 : At(i) \in Slots
      BY <1>1, AtProperties DEF TypeOK
    <3> QED
      BY <3>1, FrameType DEF QueueBounded
  <2>4. ASSUME NEW i \in 0 .. Queued
        PROVE  cache[At(i)].timestamp + cache[At(i)].count <= Accepted'
    <3>1. CASE i = Queued
      BY <1>1, <2>1, <2>2, <3>1
    <3>2. CASE i # Queued
      <4>1. i \in 0 .. Queued - 1
        BY <1>1, <3>2
      <4> QED
        BY <2>1, <2>2, <2>3, <4>1
    <3> QED
      BY <3>1, <3>2
  <2> QED
    BY <1>1, <2>4 DEF QueueBounded, UnlockFrame
<1> QED
  BY <1>2, <1>3, <1>4, <1>5, <1>6

LEMMA FinishFrameIInv ==
  ASSUME IInv, FinishFrame
  PROVE  IInv'
<1> USE DEF IInv
<1> DEFINE f == cache[first_added]
<1>1. /\ frame_info = first_added /\ Queued \in 1 .. CacheSize
      /\ f.timestamp \in Nat /\ f.count \in Nat \ {0} /\ f.skipped \in Nat
      /\ f.skipped < f.count
      /\ first_added \in Slots
  <2>1. frame_info = first_added /\ Queued \in 1 .. CacheSize /\ first_added \in Slots
    BY DEF FinishFrame, Shown, Showing, Queued, TypeOK
  <2>2. f \in Frame
    BY <2>1 DEF TypeOK
  <2>3. f.skipped < f.count
    BY <2>1, AtProperties DEF SkipsAreCounted
  <2> QED
    BY <2>1, <2>2, <2>3 DEF Frame
<1>2. /\ cache'[first_added].timestamp = f.timestamp + 1
      /\ cache'[first_added].count = f.count - 1
      /\ f.count # 1 => cache'[first_added].skipped =
                          IF f.skipped > 0 THEN f.skipped - 1 ELSE 0
      /\ \A s \in Slots \ {first_added} : cache'[s] = cache[s]
      /\ cache' \in [Slots -> Frame]
  BY <1>1, SMTT(20) DEF FinishFrame, TypeOK, Frame
<1>3. CASE f.count = 1
  <2>1. /\ first_added' = NextSlot(first_added) /\ first_added' \in Slots
        /\ available_frames' = available_frames + 1
        /\ last_added' = IF available_frames + 1 = CacheSize THEN first_added'
                                                             ELSE last_added
        /\ video' = "count"
    BY <1>1, <1>3 DEF FinishFrame, NextSlot, Slots
  <2>2. Queued' = Queued - 1
    BY <1>1, <2>1 DEF Queued, TypeOK
  <2>3. \A i \in 0 .. CacheSize - 2 : At(i)' = At(i + 1)
    BY <1>1, <2>1 DEF At, NextSlot, Slots
  <2>4. TypeOK'
    BY <1>1, <1>2, <2>1, <2>2 DEF FinishFrame, TypeOK, Queued
  <2>5. ASSUME graphics = "copy"
        PROVE  /\ last_added' = last_added /\ last_added = At(Queued)
               /\ Queued < CacheSize /\ last_added # first_added
               /\ cache'[last_added] = cache[last_added]
    <3>1. last_added = At(Queued) /\ Queued < CacheSize
      BY <2>5, <1>1 DEF LastAdded, Queued, TypeOK
    <3>2. last_added \in Slots /\ last_added # first_added
      BY <3>1, <1>1, AtProperties DEF TypeOK
    <3>3. Queued = 1 => last_added = NextSlot(first_added)
      BY <3>1, <1>1, AtProperties
    <3>4. available_frames + 1 = CacheSize <=> Queued = 1
      BY <1>1 DEF Queued, TypeOK
    <3> QED
      BY <2>1, <1>2, <3>1, <3>2, <3>3, <3>4
  <2>6. LastAdded'
    <3>1. CASE graphics = "copy"
      <4>1. available_frames' > 0
        BY <1>1, <2>1, <3>1 DEF TypeOK
      <4>2. last_added' = At(Queued)'
        BY <1>1, <2>1, <2>2, <2>5, <3>1 DEF At, NextSlot, Slots
      <4> QED
        BY <3>1, <4>1, <4>2 DEF LastAdded, FinishFrame
    <3>2. CASE graphics # "copy" /\ Queued = 1
      BY <1>1, <2>1, <2>2, <3>2 DEF LastAdded, FinishFrame, Queued, TypeOK, At, Slots
    <3>3. CASE graphics # "copy" /\ Queued # 1
      BY <1>1, <2>1, <2>2, <2>3, <3>3 DEF LastAdded, FinishFrame, Queued, TypeOK
    <3> QED
      BY <3>1, <3>2, <3>3
  <2>7. \A i \in 0 .. CacheSize - 2 : At(i)' \in Slots /\ cache'[At(i)'] = cache[At(i + 1)]
    BY <1>1, <1>2, <2>3, AtProperties
  <2>8. Locked' /\ Shown' /\ SemaphoreAccounts' /\ StopIsNotLost' /\ Accepted' = Accepted
    BY <1>1, <2>1, <2>2, <2>5 DEF Locked, Shown, SemaphoreAccounts, StopIsNotLost,
            FinishFrame, Showing, Accepted, TypeOK
  <2>9. QueueContiguous'
    BY <1>1, <2>2, <2>7, <2>8 DEF QueueContiguous
  <2>10. SkipsAreCounted'
    BY <1>1, <2>2, <2>7 DEF SkipsAreCounted
  <2>11. QueueBounded'
    BY <1>1, <2>2, <2>7, <2>8 DEF QueueBounded
  <2> QED
    BY <2>4, <2>6, <2>8, <2>9, <2>10, <2>11
<1>4. CASE f.count # 1
  <2>1. /\ UNCHANGED <<first_added, available_frames, last_added>>
        /\ video' = "again"
    BY <1>1, <1>4 DEF FinishFrame
  <2>2. Queued' = Queued /\ \A i : At(i)' = At(i)
    BY <2>1 DEF Queued, At
  <2>3. TypeOK'
    BY <1>2, <2>1 DEF FinishFrame, TypeOK
  <2>4. graphics = "copy" => cache'[last_added] = cache[last_added]
    BY <1>1, <1>2, AtProperties DEF LastAdded, Queued, TypeOK, At, Slots
  <2>5. LastAdded' /\ Locked' /\ Shown' /\ SemaphoreAccounts' /\ StopIsNotLost'
    BY <1>1, <2>1, <2>2, <2>4 DEF LastAdded, Locked, Shown, SemaphoreAccounts,
              StopIsNotLost, FinishFrame, Showing
  <2>6. Accepted' = Accepted
    BY <2>1, <2>4 DEF Accepted, FinishFrame
  <2>7. \A i \in 1 .. Queued - 1 : At(i) \in Slots /\ cache'[At(i)] = cache[At(i)]
    BY <1>1, <1>2, AtProperties
  <2>8. At(0) = first_added
    BY <1>1, AtProperties
  <2>9. QueueContiguous'
    BY <1>1, <1>2, <2>2, <2>6, <2>7, <2>8 DEF QueueContiguous
  <2>10. SkipsAreCounted'
    BY <1>1, <1>2, <1>4, <2>2, <2>7, <2>8 DEF SkipsAreCounted
  <2>11. QueueBounded'
    BY <1>1, <1>2, <2>2, <2>6, <2>7, <2>8 DEF QueueBounded
  <2> QED
    BY <2>3, <2>5, <2>9, <2>10, <2>11
<1> QED
  BY <1>3, <1>4

\* The steps of the graphics and the video thread that leave the queue alone.
LEMMA PhaseIInv ==
  ASSUME IInv,
         CheckStopped \/ PickFrame \/ CallInput \/ CallInputFails \/ ScaleFails
           \/ EndInputs
  PROVE  IInv'
<1>1. TypeOK /\ Core
  BY DEF IInv, Core
<1>2. CASE CheckStopped
  <2>1. TypeOK'
    BY <1>1, <1>2 DEF CheckStopped, TypeOK
  <2>2. Core'
    BY <1>1, <1>2, CoreFrame DEF CheckStopped, Showing
  <2> QED
    BY <2>1, <2>2 DEF IInv, Core
<1>3. CASE PickFrame
  <2>1. TypeOK'
    BY <1>1, <1>3 DEF PickFrame, TypeOK
  <2>2. CASE stop
    BY <1>1, <1>3, <2>1, <2>2 DEF PickFrame, IInv, Core, LastAdded, Locked, Shown,
       QueueContiguous, QueueBounded, SkipsAreCounted, SemaphoreAccounts,
       StopIsNotLost, Queued,
       At, Accepted, Showing
  <2>3. CASE ~stop
    BY <1>1, <1>3, <2>1, <2>3 DEF PickFrame, IInv, Core, LastAdded, Locked, Shown,
       QueueContiguous, QueueBounded, SkipsAreCounted, SemaphoreAccounts,
       StopIsNotLost, Queued,
       At, Accepted, Showing
  <2> QED
    BY <2>2, <2>3
<1>4. CASE CallInput
  <2>1. TypeOK'
    <3>1. /\ inputs[idx] \in Inputs /\ cache[frame_info].timestamp \in Nat
          /\ idx' \in Nat \ {0}
      BY <1>1, <1>4, FrameType DEF CallInput, TypeOK
    <3> QED
      BY <1>1, <1>4, <3>1 DEF CallInput, TypeOK
  <2>2. Core'
    BY <1>1, <1>4, CoreFrame DEF CallInput, Showing
  <2> QED
    BY <2>1, <2>2 DEF IInv, Core
<1>5. CASE CallInputFails
  <2>1. TypeOK'
    <3>1. idx \in 1 .. Len(inputs) /\ idx' \in Nat \ {0}
      BY <1>1, <1>5 DEF CallInputFails, TypeOK
    <3>2. inputs' \in Seq(Inputs)
      BY <1>1, <1>5, <3>1, RemoveAtType DEF CallInputFails, TypeOK
    <3> QED
      BY <1>1, <1>5, <3>1, <3>2 DEF CallInputFails, TypeOK
  <2>2. Core'
    BY <1>1, <1>5, CoreFrame DEF CallInputFails, Showing
  <2> QED
    BY <2>1, <2>2 DEF IInv, Core
<1>6. CASE ScaleFails
  <2>1. TypeOK'
    BY <1>1, <1>6 DEF ScaleFails, TypeOK
  <2>2. Core'
    BY <1>1, <1>6, CoreFrame DEF ScaleFails, Showing
  <2> QED
    BY <2>1, <2>2 DEF IInv, Core
<1>7. CASE EndInputs
  <2>1. TypeOK'
    BY <1>1, <1>7 DEF EndInputs, TypeOK
  <2>2. Core'
    BY <1>1, <1>7, CoreFrame DEF EndInputs, Showing
  <2> QED
    BY <2>1, <2>2 DEF IInv, Core
<1> QED
  BY <1>2, <1>3, <1>4, <1>5, <1>6, <1>7

\* The steps of other threads that leave the queue alone.
LEMMA InputsIInv ==
  ASSUME IInv, NEW in \in Inputs, Connect(in) \/ Disconnect(in)
  PROVE  IInv'
<1>1. TypeOK /\ Core
  BY DEF IInv, Core
<1>2. TypeOK'
  <2>1. CASE Connect(in)
    <3>1. inputs' \in Seq(Inputs)
      BY <1>1, <2>1 DEF Connect, TypeOK
    <3>2. skipped_frames' \in Nat /\ total_frames' \in Nat
      BY <1>1, <2>1 DEF Connect, TypeOK
    <3> QED
      BY <1>1, <2>1, <3>1, <3>2 DEF Connect, TypeOK
  <2>2. CASE Disconnect(in)
    <3>1. inputs' \in Seq(Inputs)
      BY <1>1, <2>2, RemoveAtType DEF Disconnect, TypeOK
    <3> QED
      BY <1>1, <2>2, <3>1 DEF Disconnect, TypeOK
  <2> QED
    BY <2>1, <2>2
<1>3. Core'
  BY <1>1, CoreFrame DEF Connect, Disconnect, Showing
<1> QED
  BY <1>2, <1>3 DEF IInv, Core

\* The steps that take a unit of the semaphore, post one or count a frame.
LEMMA SemaphoreIInv ==
  ASSUME IInv, WaitSemaphore \/ CountFrame \/ VideoOutputStop
  PROVE  IInv'
<1> USE DEF IInv
<1>1. UNCHANGED ring /\ Queued' = Queued /\ \A i : At(i)' = At(i)
  BY DEF WaitSemaphore, CountFrame, VideoOutputStop, Queued, At
<1>2. UNCHANGED <<graphics, video_time, frame_info>>
  BY DEF WaitSemaphore, CountFrame, VideoOutputStop
<1>3. Queued \in 0 .. CacheSize
  BY DEF Queued, TypeOK
<1>4. TypeOK'
  <2>1. CASE WaitSemaphore
    BY <2>1 DEF WaitSemaphore, TypeOK
  <2>2. CASE CountFrame
    BY <2>2 DEF CountFrame, TypeOK
  <2>3. CASE VideoOutputStop
    BY <2>3 DEF VideoOutputStop, TypeOK
  <2> QED
    BY <2>1, <2>2, <2>3
<1>5. LastAdded' /\ Locked' /\ QueueContiguous' /\ QueueBounded' /\ SkipsAreCounted'
  BY <1>1, <1>2 DEF LastAdded, Locked, QueueContiguous, QueueBounded,
     SkipsAreCounted, Accepted
<1>6. SemaphoreAccounts' /\ StopIsNotLost' /\ Shown'
  <2>1. CASE WaitSemaphore
    BY <1>1, <1>3, <2>1 DEF WaitSemaphore, SemaphoreAccounts, StopIsNotLost, Shown,
       Showing, TypeOK
  <2>2. CASE CountFrame
    BY <1>1, <2>2 DEF CountFrame, SemaphoreAccounts, StopIsNotLost, Shown, Showing,
       TypeOK
  <2>3. CASE VideoOutputStop
    BY <1>1, <2>3 DEF VideoOutputStop, SemaphoreAccounts, StopIsNotLost, Shown,
       Showing, TypeOK
  <2> QED
    BY <2>1, <2>2, <2>3
<1> QED
  BY <1>4, <1>5, <1>6

LEMMA StutterIInv ==
  ASSUME IInv, UNCHANGED vars
  PROVE  IInv'
<1>1. TypeOK /\ Core
  BY DEF IInv, Core
<1>2. TypeOK'
  BY <1>1 DEF vars, TypeOK
<1>3. Core'
  BY <1>1, CoreFrame DEF vars, Showing
<1> QED
  BY <1>2, <1>3 DEF IInv, Core

LEMMA NextIInv == IInv /\ [Next]_vars => IInv'
<1> SUFFICES ASSUME IInv, [Next]_vars PROVE IInv'
  OBVIOUS
<1>1. CASE Graphics
  BY <1>1, PhaseIInv, LockFrameFullIInv, LockFrameIInv, UnlockFrameIInv DEF Graphics
<1>2. CASE Video
  BY <1>2, PhaseIInv, SemaphoreIInv, FinishFrameIInv DEF Video
<1>3. CASE \E in \in Inputs : Connect(in) \/ Disconnect(in)
  BY <1>3, InputsIInv
<1>4. CASE VideoOutputStop
  BY <1>4, SemaphoreIInv
<1>5. CASE UNCHANGED vars
  BY <1>5, StutterIInv
<1> QED
  BY <1>1, <1>2, <1>3, <1>4, <1>5 DEF Next

\* The graphics thread fills the slot behind the queue, the video thread is at
\* its head.
LEMMA IInvNoTornFrame == IInv => NoTornFrame
<1> SUFFICES ASSUME IInv, graphics = "copy", video \in {"deliver", "finish"}
             PROVE  frame_info # last_added
  BY DEF NoTornFrame
<1>1. /\ frame_info = first_added /\ last_added = At(Queued)
      /\ Queued \in 1 .. CacheSize - 1 /\ first_added \in Slots
  BY DEF IInv, Shown, Showing, LastAdded, TypeOK, Queued
<1> QED
  BY <1>1, AtProperties

----------------------------------------------------------------------------
(* Theorems.                                                               *)

LEMMA Invariance == Safety => []IInv
<1>1. Init => IInv
  BY InitIInv
<1>2. IInv /\ [Next]_vars => IInv'
  BY NextIInv
<1> QED
  BY <1>1, <1>2, PTL DEF Safety

\* The state keeps its type: in particular neither available_frames nor a count
\* ever passes its bounds, though the code decrements both unconditionally.
THEOREM TypeCorrect == Safety => []TypeOK
<1>1. IInv => TypeOK
  BY DEF IInv
<1> QED
  BY <1>1, Invariance, PTL

\* No input is ever shown pixels that the graphics thread is writing.
THEOREM NeverTorn == Safety => []NoTornFrame
BY IInvNoTornFrame, Invariance, PTL

\* The queue holds every accepted interval once, and every skip is counted.
THEOREM QueueCorrect == Safety => [](QueueContiguous /\ SkipsAreCounted)
<1>1. IInv => QueueContiguous /\ SkipsAreCounted
  BY DEF IInv
<1> QED
  BY <1>1, Invariance, PTL

\* No wakeup of the video thread is lost, the one that ends it included.
THEOREM WakeupsCorrect == Safety => [](SemaphoreAccounts /\ StopIsNotLost)
<1>1. IInv => SemaphoreAccounts /\ StopIsNotLost
  BY DEF IInv
<1> QED
  BY <1>1, Invariance, PTL

----------------------------------------------------------------------------
(* The refinement.                                                         *)

\* The interval the inputs are shown next.
NextShown == IF Queued > 0 THEN cache[first_added].timestamp ELSE Accepted

\* Of all steps, only those that lock, unlock or finish a frame move the stream.
LEMMA StreamFrame ==
  ASSUME UNCHANGED <<ring, stop, video_time>>,
         (graphics' = "copy") = (graphics = "copy")
  PROVE  UNCHANGED Stream!vars
BY DEF Stream!vars, Accepted, Queued

\* Where the queue begins, and what the proofs below keep needing.
LEMMA QueueFacts ==
  ASSUME IInv
  PROVE  /\ TypeOK /\ Queued \in 0 .. CacheSize /\ first_added \in Slots
         /\ At(0) = first_added /\ video_time \in 0 .. MaxTime
         /\ NextShown \in Nat
<1>1. TypeOK
  BY DEF IInv
<1>2. Queued \in 0 .. CacheSize /\ first_added \in Slots /\ video_time \in 0 .. MaxTime
  BY <1>1 DEF TypeOK, Queued
<1>3. NextShown \in Nat
  <2>1. cache[first_added].timestamp \in Nat /\ cache[last_added].timestamp \in Nat
    BY <1>1, <1>2, FrameType DEF TypeOK
  <2>2. QED
    BY <1>2, <2>1 DEF NextShown, Accepted
<1>4. QED
  BY <1>1, <1>2, <1>3, AtProperties

\* A full cache accepts more of the newest frame.
LEMMA LockFrameFullAccepts ==
  ASSUME IInv, IInv', NEW count \in Counts, LockFrameFull(count)
  PROVE  Stream!Accept /\ NextShown' = NextShown
<1>0. Queued \in 0 .. CacheSize /\ first_added \in Slots /\ TypeOK /\ video_time \in 0 .. MaxTime
  BY QueueFacts
<1>1. Accepted = video_time /\ Accepted' = video_time + count
  BY DEF LockFrameFull, Accepted
<1>2. UNCHANGED <<first_added, available_frames, stop>> /\ Queued > 0 /\ Queued' = Queued
  BY <1>0 DEF LockFrameFull, Queued
<1>3. cache'[first_added].timestamp = cache[first_added].timestamp
  BY <1>0 DEF LockFrameFull, TypeOK
<1>4. Accepted' \in Accepted + 1 .. MaxTime
  BY <1>0, <1>1 DEF Counts
<1>5. QED
  BY <1>2, <1>3, <1>4 DEF Stream!Accept, NextShown, Queued

\* A frame being filled is not accepted yet.
LEMMA LockFrameWaits ==
  ASSUME IInv, IInv', NEW count \in Counts, LockFrame(count)
  PROVE  UNCHANGED Stream!vars /\ NextShown' = NextShown
<1>0. Queued \in 0 .. CacheSize /\ first_added \in Slots /\ TypeOK
  BY QueueFacts
<1>1. UNCHANGED <<first_added, available_frames, stop>> /\ Queued' = Queued
  BY DEF LockFrame, Queued
<1>2. Queued < CacheSize /\ last_added' \in Slots
  BY <1>0 DEF LockFrame, Queued, IInv, TypeOK
<1>3. Accepted = video_time /\ Accepted' = video_time
  BY <1>2, <1>0 DEF LockFrame, Accepted, TypeOK
<1>4. Queued > 0 => last_added' # first_added
  <2>1. Queued > 0 => last_added = At(Queued - 1) /\ last_added' = NextSlot(last_added)
    BY <1>0 DEF IInv, LastAdded, LockFrame, Queued, TypeOK
  <2>2. Queued > 0 => last_added' = At(Queued)
    BY <1>0, <1>2, <2>1, AtProperties
  <2>3. QED
    BY <1>0, <1>2, <2>2, QueueFacts, AtProperties
<1>5. Queued > 0 => cache'[first_added] = cache[first_added]
  BY <1>0, <1>4 DEF LockFrame, TypeOK
<1>6. QED
  BY <1>1, <1>3, <1>5 DEF Stream!vars, NextShown

\* A frame that is filled is accepted.
LEMMA UnlockFrameAccepts ==
  ASSUME IInv, IInv', UnlockFrame
  PROVE  Stream!Accept /\ NextShown' = NextShown
<1>0. /\ Queued \in 0 .. CacheSize /\ first_added \in Slots /\ TypeOK
      /\ At(0) = first_added /\ video_time \in 0 .. MaxTime
  BY QueueFacts
<1>1. Queued' = Queued + 1 /\ UNCHANGED <<cache, first_added, stop, video_time>>
  BY <1>0 DEF UnlockFrame, Queued, TypeOK
<1>2. last_added = At(Queued) /\ last_added \in Slots
  BY DEF UnlockFrame, IInv, LastAdded, TypeOK
<1>3. /\ Accepted = cache[last_added].timestamp /\ Accepted' = video_time
      /\ cache[last_added].timestamp + cache[last_added].count = video_time
      /\ cache[last_added].count > 0
  BY DEF UnlockFrame, Accepted, IInv, Locked
<1>4. Accepted' \in Accepted + 1 .. MaxTime
  BY <1>0, <1>2, <1>3, FrameType
<1>5. Queued = 0 => cache[first_added].timestamp = Accepted
  BY <1>0, <1>2, <1>3
<1>6. QED
  BY <1>0, <1>1, <1>4, <1>5 DEF Stream!Accept, NextShown

\* A frame that was shown for an interval is shown for its next, or the next is.
LEMMA FinishFrameDelivers ==
  ASSUME IInv, IInv', FinishFrame
  PROVE  Stream!Deliver /\ NextShown' = NextShown + 1
<1>0. /\ Queued \in 0 .. CacheSize /\ first_added \in Slots
      /\ At(0) = first_added
      /\ video_time \in 0 .. MaxTime
      /\ TypeOK
  BY QueueFacts
<1> DEFINE f == cache[first_added]
<1>1. frame_info = first_added /\ Queued > 0 /\ stop' = stop
  BY DEF FinishFrame, IInv, Shown, Showing
<1>2. f.timestamp \in Nat /\ f.count \in Nat
  BY <1>0, FrameType
<1>3. /\ f.timestamp + f.count =
           IF 1 < Queued THEN cache[At(1)].timestamp ELSE Accepted
      /\ f.count > 0
  BY <1>0, <1>1, <1>2, FrameType DEF IInv, QueueContiguous, SkipsAreCounted
<1>4. /\ cache'[first_added].timestamp = f.timestamp + 1
      /\ \A s \in Slots \ {first_added} : cache'[s] = cache[s]
  BY <1>0, <1>1 DEF FinishFrame, TypeOK
<1>5. graphics = "copy" =>
        /\ last_added = At(Queued) /\ Queued < CacheSize
        /\ last_added # first_added /\ last_added \in Slots
  <2>1. graphics = "copy" => last_added = At(Queued) /\ Queued < CacheSize
    BY <1>0 DEF IInv, LastAdded, TypeOK, Queued
  <2> QED
    BY <1>0, <1>1, <2>1, AtProperties
<1>6. Accepted' = Accepted
  <2>1. CASE graphics = "copy"
    <3>1. last_added' = last_added
      BY <1>0, <1>1, <1>5, <2>1, AtProperties DEF FinishFrame, Queued, TypeOK
    <3> QED
      BY <1>4, <1>5, <2>1, <3>1 DEF Accepted, FinishFrame
  <2>2. CASE graphics # "copy"
    BY <2>2 DEF Accepted, FinishFrame
  <2> QED
    BY <2>1, <2>2
<1>7. NextShown < Accepted
  <2>1. f.timestamp + f.count <= Accepted
    BY <1>0, <1>1 DEF IInv, QueueBounded
  <2>2. Accepted \in Nat
    BY <1>0, <1>5, FrameType DEF Accepted
  <2> QED
    BY <1>1, <1>2, <1>3, <2>1, <2>2 DEF NextShown
<1>8. NextShown' = NextShown + 1
  <2>1. CASE f.count = 1
    <3>1. Queued' = Queued - 1 /\ first_added' = NextSlot(first_added)
      BY <1>0, <1>1, <2>1 DEF FinishFrame, Queued, TypeOK
    <3>2. Queued > 1 => /\ first_added' = At(1) /\ At(1) \in Slots
                        /\ At(1) # first_added
      BY <1>0, <1>1, <3>1, AtProperties
    <3> QED
      BY <1>0, <1>1, <1>2, <1>3, <1>4, <1>6, <2>1, <3>1, <3>2 DEF NextShown
  <2>2. CASE f.count # 1
    BY <1>0, <1>1, <1>4, <2>2 DEF FinishFrame, NextShown, Queued
  <2> QED
    BY <2>1, <2>2
<1>9. Stream!Deliver
  BY <1>1, <1>6, <1>7, <1>8 DEF Stream!Deliver, NextShown
<1> QED
  BY <1>8, <1>9

LEMMA StreamStep == IInv /\ IInv' /\ [Next]_vars => [Stream!Next]_(Stream!vars)
<1> SUFFICES ASSUME IInv, IInv', [Next]_vars
             PROVE  Stream!Next \/ UNCHANGED Stream!vars
  OBVIOUS
<1>1. CASE \E count \in Counts : LockFrameFull(count)
  BY <1>1, LockFrameFullAccepts DEF Stream!Next
<1>2. CASE \E count \in Counts : LockFrame(count)
  BY <1>2, LockFrameWaits
<1>3. CASE UnlockFrame
  BY <1>3, UnlockFrameAccepts DEF Stream!Next
<1>4. CASE FinishFrame
  BY <1>4, FinishFrameDelivers DEF Stream!Next
<1>5. CASE VideoOutputStop
  BY <1>5 DEF VideoOutputStop, Stream!Next, Stream!Stop, Queued, Accepted
<1>6. CASE CheckStopped \/ WaitSemaphore \/ PickFrame \/ CallInput \/ CallInputFails
             \/ ScaleFails \/ EndInputs \/ CountFrame \/ UNCHANGED vars
             \/ \E in \in Inputs : Connect(in) \/ Disconnect(in)
  BY <1>6, StreamFrame DEF CheckStopped, WaitSemaphore, PickFrame, CallInput,
     CallInputFails, ScaleFails, EndInputs, CountFrame, vars, Connect, Disconnect
<1> QED
  BY <1>1, <1>2, <1>3, <1>4, <1>5, <1>6 DEF Next, Graphics, Video

\* The frame cache implements the constant frame rate: whatever the graphics
\* and the video thread do, the inputs are shown every accepted frame interval,
\* once and in order.
THEOREM RefinesStream == Safety => StreamSafety
<1>1. Init => Stream!Init
  BY DEF Init, Stream!Init, Accepted, Queued
<1> QED
  BY <1>1, StreamStep, Invariance, PTL DEF Safety, StreamSafety, Stream!Safety

----------------------------------------------------------------------------
(* What each input is shown.                                               *)

\* The input at place i has had its turn with the frame that is shown.
Delivered(i) == video = "finish" \/ (video = "deliver" /\ i < idx)

\* An input is connected once, and has been shown nothing unless it is.
Distinct ==
  /\ \A i, j \in DOMAIN inputs : inputs[i] = inputs[j] => i = j
  /\ \A in \in Inputs : seen[in] # Nothing => \E i \in DOMAIN inputs : inputs[i] = in

\* The last interval an input was shown, relative to the one shown next: some
\* were missed only after a failure.
Ordered ==
  \A i \in DOMAIN inputs :
    seen[inputs[i]] # Nothing =>
      /\ seen[inputs[i]] <= NextShown
      /\ ~Delivered(i) => seen[inputs[i]] < NextShown
      /\ ~failed => seen[inputs[i]] = IF Delivered(i) THEN NextShown ELSE NextShown - 1

InputInv == Distinct /\ Ordered

\* Where the elements of a concatenation come from.
LEMMA ConcatContents ==
  ASSUME NEW S, NEW a \in Seq(S), NEW b \in Seq(S)
  PROVE  /\ DOMAIN (a \o b) = 1 .. Len(a) + Len(b)
         /\ \A k \in 1 .. Len(a) + Len(b) :
              (a \o b)[k] = IF k <= Len(a) THEN a[k] ELSE b[k - Len(a)]
<1>1. a \o b \in Seq(S) /\ Len(a \o b) = Len(a) + Len(b)
  OBVIOUS
<1>2. DOMAIN (a \o b) = 1 .. Len(a \o b)
  BY <1>1
<1>3. ASSUME NEW k \in 1 .. Len(a) + Len(b)
      PROVE  (a \o b)[k] = IF k <= Len(a) THEN a[k] ELSE b[k - Len(a)]
  OBVIOUS
<1> QED
  BY <1>1, <1>2, <1>3

\* The elements behind the one removed move up by one.
LEMMA RemoveAtContents ==
  ASSUME NEW S, NEW s \in Seq(S), NEW i \in 1 .. Len(s)
  PROVE  /\ DOMAIN RemoveAt(s, i) = 1 .. Len(s) - 1
         /\ \A k \in 1 .. Len(s) - 1 :
              RemoveAt(s, i)[k] = IF k < i THEN s[k] ELSE s[k + 1]
<1> DEFINE a == SubSeq(s, 1, i - 1)
           b == SubSeq(s, i + 1, Len(s))
<1>1. /\ a \in Seq(S) /\ Len(a) = i - 1 /\ \A k \in 1 .. i - 1 : a[k] = s[k]
      /\ b \in Seq(S) /\ Len(b) = Len(s) - i
      /\ \A k \in 1 .. Len(s) - i : b[k] = s[i + k]
  OBVIOUS
<1>2. RemoveAt(s, i) = a \o b
  BY DEF RemoveAt
<1>3. Len(s) \in Nat
  OBVIOUS
<1> HIDE DEF a, b
<1>4. /\ DOMAIN (a \o b) = 1 .. Len(a) + Len(b)
      /\ \A k \in 1 .. Len(a) + Len(b) : (a \o b)[k] = IF k <= Len(a) THEN a[k] ELSE b[k - Len(a)]
  BY <1>1, ConcatContents
<1>5. DOMAIN RemoveAt(s, i) = 1 .. Len(s) - 1
  BY <1>1, <1>2, <1>3, <1>4
<1>6. ASSUME NEW k \in 1 .. Len(s) - 1
      PROVE  RemoveAt(s, i)[k] = IF k < i THEN s[k] ELSE s[k + 1]
  <2>1. RemoveAt(s, i)[k] = IF k <= i - 1 THEN a[k] ELSE b[k - (i - 1)]
    BY <1>1, <1>2, <1>3, <1>4
  <2>2. CASE k < i
    BY <1>1, <2>1, <2>2
  <2>3. CASE k >= i
    <3>1. k - (i - 1) \in 1 .. Len(s) - i /\ i + (k - (i - 1)) = k + 1
      BY <1>3, <2>3
    <3> QED
      BY <1>1, <2>1, <2>3, <3>1
  <2> QED
    BY <2>2, <2>3
<1> QED
  BY <1>5, <1>6

\* Only a frame that was shown moves what is shown next.
LEMMA NextShownStep ==
  ASSUME IInv, IInv', [Next]_vars
  PROVE  NextShown' = IF FinishFrame THEN NextShown + 1 ELSE NextShown
<1>1. CASE \E count \in Counts : LockFrameFull(count)
  BY <1>1, LockFrameFullAccepts DEF LockFrameFull, FinishFrame
<1>2. CASE \E count \in Counts : LockFrame(count)
  BY <1>2, LockFrameWaits DEF LockFrame, FinishFrame
<1>3. CASE UnlockFrame
  BY <1>3, UnlockFrameAccepts DEF UnlockFrame, FinishFrame
<1>4. CASE FinishFrame
  BY <1>4, FinishFrameDelivers
<1>5. CASE CheckStopped \/ WaitSemaphore \/ PickFrame \/ CallInput \/ CallInputFails
             \/ ScaleFails \/ EndInputs \/ CountFrame \/ VideoOutputStop
             \/ UNCHANGED vars
             \/ \E in \in Inputs : Connect(in) \/ Disconnect(in)
  <2>1. NextShown' = NextShown
    BY <1>5 DEF NextShown, Accepted, Queued, CheckStopped, WaitSemaphore, PickFrame,
       CallInput, CallInputFails, ScaleFails, EndInputs, CountFrame, VideoOutputStop,
       vars, Connect, Disconnect
  <2>2. CASE FinishFrame
    BY <2>2, FinishFrameDelivers
  <2> QED
    BY <2>1, <2>2
<1> QED
  BY <1>1, <1>2, <1>3, <1>4, <1>5 DEF Next, Graphics, Video

LEMMA InitInputs == Init => InputInv
  BY DEF Init, InputInv, Distinct, Ordered

\* An input leaves, and what it was shown is forgotten.
LEMMA RemoveDistinct ==
  ASSUME TypeOK, Distinct, NEW i \in DOMAIN inputs, inputs' = RemoveAt(inputs, i),
         seen' = [seen EXCEPT ![inputs[i]] = Nothing]
  PROVE  /\ Distinct'
         /\ DOMAIN inputs' = 1 .. Len(inputs) - 1
         /\ \A k \in DOMAIN inputs' :
              /\ inputs'[k] = IF k < i THEN inputs[k] ELSE inputs[k + 1]
              /\ seen'[inputs'[k]] = seen[inputs'[k]]
<1>1. /\ inputs \in Seq(Inputs) /\ i \in 1 .. Len(inputs) /\ DOMAIN inputs = 1 .. Len(inputs)
      /\ seen \in [Inputs -> Nat \cup {Nothing}]
  BY DEF TypeOK
<1>2. /\ DOMAIN inputs' = 1 .. Len(inputs) - 1
      /\ \A k \in DOMAIN inputs' : inputs'[k] = IF k < i THEN inputs[k] ELSE inputs[k + 1]
  BY <1>1, RemoveAtContents
<1>3. ASSUME NEW k \in DOMAIN inputs'
      PROVE  inputs'[k] # inputs[i] /\ inputs'[k] \in Inputs
  <2>1. k \in 1 .. Len(inputs) - 1 /\ Len(inputs) \in Nat
    BY <1>1, <1>2
  <2>2. CASE k < i
    BY <1>1, <1>2, <2>1, <2>2 DEF Distinct
  <2>3. CASE k >= i
    <3>1. k + 1 \in 1 .. Len(inputs) /\ inputs'[k] = inputs[k + 1] /\ k + 1 # i
      BY <1>1, <1>2, <2>1, <2>3
    <3> QED
      BY <1>1, <3>1 DEF Distinct
  <2> QED
    BY <1>1, <2>1, <2>2, <2>3
<1>4. \A k \in DOMAIN inputs' : seen'[inputs'[k]] = seen[inputs'[k]]
  BY <1>1, <1>3
<1>5. \A k, l \in DOMAIN inputs' : inputs'[k] = inputs'[l] => k = l
  BY <1>1, <1>2 DEF Distinct
<1>6. ASSUME NEW in \in Inputs, seen'[in] # Nothing
      PROVE  \E k \in DOMAIN inputs' : inputs'[k] = in
  <2>1. in # inputs[i] /\ seen[in] # Nothing
    BY <1>1, <1>6
  <2>2. PICK k \in DOMAIN inputs : inputs[k] = in
    BY <2>1 DEF Distinct
  <2>3. CASE k < i
    BY <1>1, <1>2, <2>2, <2>3
  <2>4. CASE k > i
    <3>1. k - 1 \in DOMAIN inputs' /\ inputs'[k - 1] = in
      BY <1>1, <1>2, <2>2, <2>4
    <3> QED
      BY <3>1
  <2> QED
    BY <1>1, <2>1, <2>2, <2>3, <2>4
<1> QED
  BY <1>2, <1>4, <1>5, <1>6 DEF Distinct

\* Steps that leave the inputs alone keep the order, if nobody's turn changes.
LEMMA QuietInputs ==
  ASSUME InputInv, UNCHANGED <<inputs, seen, NextShown>>, failed => failed',
         \A i \in DOMAIN inputs : Delivered(i)' <=> Delivered(i)
  PROVE  InputInv'
BY DEF InputInv, Distinct, Ordered

LEMMA GraphicsInputs ==
  ASSUME IInv, IInv', InputInv, Graphics \/ VideoOutputStop \/ UNCHANGED vars
  PROVE  InputInv'
<1>1. ~FinishFrame /\ UNCHANGED <<inputs, seen, failed, video, idx>>
  BY DEF Graphics, CheckStopped, LockFrameFull, LockFrame, UnlockFrame, VideoOutputStop,
     FinishFrame, vars, IInv, TypeOK
<1>2. NextShown' = NextShown
  BY <1>1, NextShownStep DEF Next
<1> QED
  BY <1>1, <1>2, QuietInputs DEF Delivered

\* An input that has its turn is shown the frame; those before it had theirs.
LEMMA CallInputInputs ==
  ASSUME IInv, IInv', InputInv, CallInput
  PROVE  InputInv'
<1>1. /\ TypeOK /\ inputs \in Seq(Inputs) /\ idx \in 1 .. Len(inputs)
      /\ DOMAIN inputs = 1 .. Len(inputs) /\ seen \in [Inputs -> Nat \cup {Nothing}]
      /\ video = "deliver" /\ NextShown \in Nat /\ idx \in Nat
  BY QueueFacts DEF CallInput, TypeOK
<1>2. cache[frame_info].timestamp = NextShown
  BY <1>1 DEF IInv, Shown, Showing, NextShown
<1>3. /\ \A i \in DOMAIN inputs :
           seen'[inputs[i]] = IF i = idx THEN NextShown ELSE seen[inputs[i]]
      /\ \A in \in Inputs : seen'[in] # seen[in] => in = inputs[idx]
  BY <1>1, <1>2 DEF CallInput, InputInv, Distinct
<1>4. idx' = idx + 1 /\ UNCHANGED <<video, inputs, failed>> /\ NextShown' = NextShown
  BY <1>1, NextShownStep DEF CallInput, Next, Video, FinishFrame
<1>5. Distinct'
  BY <1>1, <1>3, <1>4 DEF InputInv, Distinct
<1>6. Ordered'
  <2> SUFFICES ASSUME NEW i \in DOMAIN inputs, seen'[inputs[i]] # Nothing
               PROVE  /\ seen'[inputs[i]] <= NextShown
                      /\ ~(i < idx + 1) => seen'[inputs[i]] < NextShown
                      /\ ~failed => seen'[inputs[i]] = IF i < idx + 1 THEN NextShown
                                                       ELSE NextShown - 1
    BY <1>1, <1>4 DEF Ordered, Delivered
  <2>1. CASE i = idx
    BY <1>1, <1>3, <2>1
  <2>2. CASE i # idx
    <3>1. i < idx <=> i < idx + 1
      BY <1>1, <2>2
    <3> QED
      BY <1>1, <1>3, <2>2, <3>1 DEF InputInv, Ordered, Delivered
  <2> QED
    BY <2>1, <2>2
<1> QED
  BY <1>5, <1>6 DEF InputInv

\* An input that fails leaves; the next one moves up to its place and has missed
\* its turn.
LEMMA CallInputFailsInputs ==
  ASSUME IInv, IInv', InputInv, CallInputFails
  PROVE  InputInv'
<1>1. /\ TypeOK /\ idx \in DOMAIN inputs /\ DOMAIN inputs = 1 .. Len(inputs) /\ Len(inputs) \in Nat
      /\ video = "deliver" /\ idx' = idx + 1 /\ failed' /\ UNCHANGED video /\ NextShown \in Nat
      /\ inputs \in Seq(Inputs) /\ seen \in [Inputs -> Nat \cup {Nothing}]
  BY QueueFacts DEF CallInputFails, TypeOK
<1>2. NextShown' = NextShown
  BY <1>1, NextShownStep DEF CallInputFails, Next, Video, FinishFrame
<1>3. /\ Distinct'
      /\ DOMAIN inputs' = 1 .. Len(inputs) - 1
      /\ \A k \in DOMAIN inputs' :
           /\ inputs'[k] = IF k < idx THEN inputs[k] ELSE inputs[k + 1]
           /\ seen'[inputs'[k]] = seen[inputs'[k]]
  BY <1>1, RemoveDistinct DEF InputInv, CallInputFails
<1>4. ASSUME NEW k \in DOMAIN inputs', seen[inputs'[k]] # Nothing
      PROVE  /\ seen[inputs'[k]] <= NextShown
             /\ ~(k < idx + 1) => seen[inputs'[k]] < NextShown
  <2>1. CASE k < idx
    BY <1>1, <1>3, <1>4, <2>1 DEF InputInv, Ordered, Delivered
  <2>2. CASE k >= idx
    <3>1. k + 1 \in DOMAIN inputs /\ inputs'[k] = inputs[k + 1] /\ ~(k + 1 < idx)
      BY <1>1, <1>3, <2>2
    <3>2. seen[inputs[k + 1]] < NextShown
      BY <1>1, <1>4, <3>1 DEF InputInv, Ordered, Delivered
    <3>3. inputs[k + 1] \in Inputs
      BY <1>1, <3>1
    <3> QED
      BY <1>1, <1>4, <3>1, <3>2, <3>3
  <2> QED
    BY <1>1, <1>3, <2>1, <2>2
<1>5. Ordered'
  BY <1>1, <1>2, <1>3, <1>4 DEF Ordered, Delivered
<1> QED
  BY <1>3, <1>5 DEF InputInv

\* Connecting and disconnecting, while nobody has a turn.
LEMMA ConnectInputs ==
  ASSUME IInv, IInv', InputInv, NEW in \in Inputs, Connect(in) \/ Disconnect(in)
  PROVE  InputInv'
<1>1. /\ TypeOK /\ DOMAIN inputs = 1 .. Len(inputs) /\ Len(inputs) \in Nat
      /\ inputs \in Seq(Inputs) /\ seen \in [Inputs -> Nat \cup {Nothing}]
      /\ video # "deliver" /\ UNCHANGED <<video, failed, idx>>
  BY DEF Connect, Disconnect, IInv, TypeOK
<1>2. NextShown' = NextShown
  <2>1. ~FinishFrame \/ NextShown' = NextShown
    BY DEF Connect, Disconnect, FinishFrame, IInv, TypeOK
  <2> QED
    BY <2>1, NextShownStep DEF Next
<1>3. CASE Connect(in)
  <2>1. seen' = seen /\ in \notin ToSet(inputs)
    BY <1>3 DEF Connect
  <2>2. seen[in] = Nothing /\ \A i \in DOMAIN inputs : inputs[i] # in
    BY <1>1, <2>1 DEF InputInv, Distinct, ToSet
  <2>3. CASE inputs' = inputs
    BY <1>1, <1>2, <2>1, <2>3, QuietInputs DEF Delivered
  <2>4. CASE inputs' = Append(inputs, in)
    <3>1. /\ DOMAIN inputs' = 1 .. Len(inputs) + 1
          /\ \A i \in DOMAIN inputs : inputs'[i] = inputs[i]
          /\ inputs'[Len(inputs) + 1] = in
      BY <1>1, <2>4
    <3>2. Distinct'
      BY <1>1, <2>1, <2>2, <3>1 DEF InputInv, Distinct
    <3>3. Ordered'
      BY <1>1, <1>2, <2>1, <2>2, <3>1 DEF InputInv, Ordered, Delivered
    <3> QED
      BY <3>2, <3>3 DEF InputInv
  <2> QED
    BY <1>3, <2>3, <2>4 DEF Connect
<1>4. CASE Disconnect(in)
  <2>1. PICK i \in DOMAIN inputs : inputs[i] = in /\ inputs' = RemoveAt(inputs, i)
    BY <1>4 DEF Disconnect
  <2>2. /\ Distinct'
        /\ DOMAIN inputs' = 1 .. Len(inputs) - 1
        /\ \A k \in DOMAIN inputs' :
             /\ inputs'[k] = IF k < i THEN inputs[k] ELSE inputs[k + 1]
             /\ seen'[inputs'[k]] = seen[inputs'[k]]
    BY <1>1, <1>4, <2>1, RemoveDistinct DEF InputInv, Disconnect
  <2>3. \A k \in DOMAIN inputs' : \E j \in DOMAIN inputs : inputs'[k] = inputs[j]
    <3>1. ASSUME NEW k \in DOMAIN inputs' PROVE \E j \in DOMAIN inputs : inputs'[k] = inputs[j]
      <4>1. k \in DOMAIN inputs /\ k + 1 \in DOMAIN inputs
        BY <1>1, <2>2
      <4> QED
        BY <2>2, <4>1
    <3> QED
      BY <3>1
  <2>4. \A j, k \in DOMAIN inputs : Delivered(j) <=> Delivered(k)
    BY <1>1 DEF Delivered
  <2>5. Ordered'
    <3> SUFFICES ASSUME NEW k \in DOMAIN inputs', seen'[inputs'[k]] # Nothing
                 PROVE  /\ seen'[inputs'[k]] <= NextShown
                        /\ ~Delivered(k) => seen'[inputs'[k]] < NextShown
                        /\ ~failed => seen'[inputs'[k]] = IF Delivered(k) THEN NextShown
                                                          ELSE NextShown - 1
      BY <1>1, <1>2 DEF Ordered, Delivered
    <3>1. PICK j \in DOMAIN inputs : inputs'[k] = inputs[j]
      BY <2>3
    <3>2. seen'[inputs'[k]] = seen[inputs[j]] /\ (Delivered(j) <=> Delivered(k))
      BY <1>1, <2>2, <2>4, <3>1 DEF Delivered
    <3> QED
      BY <3>2 DEF InputInv, Ordered
  <2> QED
    BY <2>2, <2>5 DEF InputInv
<1> QED
  BY <1>3, <1>4

\* The other steps of the video thread move turns, or the frame.
LEMMA VideoInputs ==
  ASSUME IInv, IInv', InputInv,
         WaitSemaphore \/ PickFrame \/ ScaleFails \/ EndInputs \/ CountFrame
  PROVE  InputInv'
<1>1. /\ TypeOK /\ DOMAIN inputs = 1 .. Len(inputs) /\ Len(inputs) \in Nat /\ idx \in Nat \ {0}
      /\ inputs \in Seq(Inputs) /\ seen \in [Inputs -> Nat \cup {Nothing}] /\ NextShown \in Nat
  BY QueueFacts DEF TypeOK
<1>2. UNCHANGED <<inputs, seen>> /\ (failed => failed') /\ ~FinishFrame
  BY DEF WaitSemaphore, PickFrame, ScaleFails, EndInputs, CountFrame, FinishFrame
<1>3. NextShown' = NextShown
  BY <1>2, NextShownStep DEF Next, Video
<1>4. CASE WaitSemaphore \/ CountFrame
  BY <1>1, <1>2, <1>3, <1>4, QuietInputs DEF Delivered, WaitSemaphore, CountFrame
<1>5. CASE PickFrame
  BY <1>1, <1>2, <1>3, <1>5, QuietInputs DEF Delivered, PickFrame
<1>6. CASE EndInputs
  BY <1>1, <1>2, <1>3, <1>6, QuietInputs DEF Delivered, EndInputs
<1>7. CASE ScaleFails
  <2>1. failed' /\ idx' = idx + 1 /\ video = "deliver" /\ video' = "deliver"
    BY <1>7 DEF ScaleFails
  <2>2. \A i \in DOMAIN inputs : inputs[i] \in Inputs
    BY <1>1
  <2>3. Ordered'
    BY <1>1, <1>2, <1>3, <2>1, <2>2 DEF InputInv, Ordered, Delivered
  <2> QED
    BY <1>2, <2>3 DEF InputInv, Distinct
<1> QED
  BY <1>4, <1>5, <1>6, <1>7

\* The frame that everybody has had goes on to its next interval.
LEMMA FinishInputs ==
  ASSUME IInv, IInv', InputInv, FinishFrame
  PROVE  InputInv'
<1>1. /\ NextShown' = NextShown + 1 /\ NextShown \in Nat
      /\ video = "finish" /\ video' \in {"count", "again"} /\ UNCHANGED <<inputs, seen, failed>>
  BY FinishFrameDelivers, QueueFacts DEF FinishFrame
<1>2. \A i \in DOMAIN inputs : seen[inputs[i]] \in Nat \cup {Nothing}
  BY DEF IInv, TypeOK
<1> QED
  BY <1>1, <1>2 DEF InputInv, Distinct, Ordered, Delivered

LEMMA NextInputs == IInv /\ IInv' /\ InputInv /\ [Next]_vars => InputInv'
  BY GraphicsInputs, CallInputInputs, CallInputFailsInputs, ConnectInputs, VideoInputs,
     FinishInputs DEF Next, Video

\* Only CallInput shows something.
LEMMA InputStep ==
  ASSUME IInv, InputInv, [Next]_vars, NEW in \in Inputs,
         seen[in] # Nothing, seen'[in] # Nothing, seen'[in] # seen[in]
  PROVE  /\ seen'[in] > seen[in]
         /\ failed \/ seen'[in] = seen[in] + 1
<1>1. /\ TypeOK /\ seen \in [Inputs -> Nat \cup {Nothing}] /\ NextShown \in Nat
      /\ inputs \in Seq(Inputs) /\ DOMAIN inputs = 1 .. Len(inputs)
  BY QueueFacts DEF TypeOK
<1>2. CallInput
  <2>1. CASE CallInputFails \/ \E i \in Inputs : Disconnect(i)
    BY <1>1, <2>1 DEF CallInputFails, Disconnect
  <2>2. CASE CheckStopped \/ (\E c \in Counts : LockFrameFull(c) \/ LockFrame(c)) \/ UnlockFrame
    BY <2>2 DEF CheckStopped, LockFrameFull, LockFrame, UnlockFrame
  <2>3. CASE WaitSemaphore \/ PickFrame \/ ScaleFails \/ EndInputs \/ CountFrame \/ FinishFrame
    BY <2>3 DEF WaitSemaphore, PickFrame, ScaleFails, EndInputs, CountFrame, FinishFrame
  <2>4. CASE VideoOutputStop \/ UNCHANGED vars \/ \E i \in Inputs : Connect(i)
    BY <2>4 DEF VideoOutputStop, vars, Connect
  <2> QED
    BY <2>1, <2>2, <2>3, <2>4 DEF Next, Graphics, Video
<1>3. /\ idx \in DOMAIN inputs /\ in = inputs[idx] /\ video = "deliver"
      /\ seen'[in] = cache[frame_info].timestamp
  BY <1>1, <1>2 DEF CallInput, TypeOK
<1>4. cache[frame_info].timestamp = NextShown
  BY <1>1, <1>3 DEF IInv, Shown, Showing, NextShown
<1>5. /\ seen[in] < NextShown
      /\ ~failed => seen[in] = NextShown - 1
  <2>1. ~Delivered(idx)
    BY <1>1, <1>3 DEF Delivered, TypeOK
  <2> QED
    BY <1>3, <2>1 DEF InputInv, Ordered
<1> QED
  BY <1>1, <1>3, <1>4, <1>5

\* Whatever is connected, disconnected and prolonged meanwhile, an input is shown
\* the frame intervals in order, and without a failure misses none.
THEOREM InputsShownInOrder == Safety => InputsInOrder
<1>1. Safety => []InputInv
  BY InitInputs, NextInputs, Invariance, PTL DEF Safety
<1>2. IInv /\ InputInv /\ [Next]_vars =>
        [\A in \in Inputs :
           (seen[in] # Nothing /\ seen'[in] # Nothing /\ seen'[in] # seen[in]) =>
             /\ seen'[in] > seen[in]
             /\ failed \/ seen'[in] = seen[in] + 1]_vars
  BY InputStep
<1> QED
  BY <1>1, <1>2, Invariance, PTL DEF Safety, InputsInOrder
=============================================================================
