--------------------------- MODULE AudioBuffering ---------------------------
(***************************************************************************)
(* obs-audio.c and the audio buffers of sources (obs-source.c): the audio  *)
(* thread mixes a tick at a time, and when a source is late it makes all   *)
(* the output later, by ticks that it puts before those that wait.         *)
(* Sources hand in audio on threads of their own, between any two steps of *)
(* a tick.  Every source is an output channel; scenes and transitions, and *)
(* volumes, are left out.  Time is counted in samples; a sample of audio   *)
(* is its time, 0 is silence.                                              *)
(***************************************************************************)
EXTENDS Integers, Sequences

CONSTANTS
  Sources,
  AUDIO_OUTPUT_FRAMES,      \* samples in a tick
  MAX_BUFFERING_TICKS,
  Block,                    \* samples a source hands in at once
  Jump,                     \* a gap between them that is not smoothed over
  Start, MaxTime, MaxLate, MaxJumps  \* bounds: first and last tick, lateness, jumps

VARIABLES
  at,                       \* the step of audio_callback that is next
  now,                      \* the time of the next tick
  buffered_timestamps,      \* the starts of the ticks that wait (all are as long)
  ts,                       \* the tick of this callback
  buffering_wait_ticks, total_buffering_ticks, buffered_ts,
  source,                   \* the audio fields of each struct obs_source
  jumps, due, wrong         \* history: jumps, the start of the next output, misplaced audio

buffering == <<buffered_timestamps, ts, buffering_wait_ticks, total_buffering_ticks, buffered_ts>>
vars == <<at, now, buffering, source, jumps, due, wrong>>

None == 0
Quiet == [audio_ts |-> None, buf |-> <<>>, out |-> <<>>, pending |-> TRUE, last_size |-> 0,
          pending_stop |-> FALSE, next |-> None, reset |-> FALSE]

Init ==
  /\ at = "tick" /\ now = Start
  /\ buffered_timestamps = <<>> /\ ts = None
  /\ buffering_wait_ticks = 0 /\ total_buffering_ticks = 0 /\ buffered_ts = None
  /\ source = [s \in Sources |-> Quiet]
  /\ jumps = 0 /\ due = None /\ wrong = FALSE

----------------------------------------------------------------------------
(* source_output_audio_data.                                               *)

Samples(t) == [i \in 1..Block |-> t + i - 1]

\* source_output_audio_place; history: reset when audio that waited is thrown away.
Place(src, t) ==
  LET s    == IF src.audio_ts = None \/ t < src.audio_ts
              THEN [src EXCEPT !.buf = <<>>, !.audio_ts = t, !.reset = TRUE] ELSE src
      from == t - s.audio_ts
      kept == [i \in 1..from |-> IF i <= Len(s.buf) THEN s.buf[i] ELSE 0]
  IN [s EXCEPT !.buf = kept \o Samples(t)]

\* source_output_audio_push_back
PushBack(src, t) == [src EXCEPT !.buf = @ \o Samples(t)]

\* Audio that follows what came before, or after a jump.
SourceData(s) ==
  \E t \in IF source[s].next = None THEN (now - MaxLate)..(now + 1)
           ELSE {source[s].next, source[s].next + Jump, source[s].next - Jump} :
    LET src    == source[s]
        follow == t = src.next
    IN /\ t >= now - MaxLate /\ t <= now + 1 /\ t > 0
       /\ follow \/ src.next = None \/ jumps < MaxJumps
       /\ jumps' = IF follow \/ src.next = None THEN jumps ELSE jumps + 1
       /\ source' = [source EXCEPT ![s] =
            [(IF follow /\ src.audio_ts # None THEN PushBack(src, t) ELSE Place(src, t))
              EXCEPT !.last_size = 0, !.next = t + Block]]
       /\ UNCHANGED <<at, now, buffering, due, wrong>>

----------------------------------------------------------------------------
(* audio_callback.                                                         *)

End == ts + AUDIO_OUTPUT_FRAMES

\* A tick begins: its timestamp waits behind the others.
Tick ==
  /\ at = "tick" /\ now < MaxTime
  /\ buffered_timestamps' = Append(buffered_timestamps, now)
  /\ ts' = Head(buffered_timestamps')
  /\ now' = now + AUDIO_OUTPUT_FRAMES
  /\ at' = "render"
  /\ UNCHANGED <<buffering_wait_ticks, total_buffering_ticks, buffered_ts,
                 source, jumps, due, wrong>>

\* obs_source_audio_render, process_audio_source_tick
Rendered(src) ==
  IF src.audio_ts = None \/ Len(src.buf) < AUDIO_OUTPUT_FRAMES
  THEN [src EXCEPT !.pending = TRUE, !.reset = FALSE]
  ELSE [src EXCEPT !.pending = FALSE, !.reset = FALSE,
                   !.out = SubSeq(src.buf, 1, AUDIO_OUTPUT_FRAMES)]

Render ==
  /\ at = "render" /\ at' = "buffer"
  /\ source' = [s \in Sources |-> Rendered(source[s])]
  /\ UNCHANGED <<now, buffering, jumps, due, wrong>>

\* find_min_ts
find_min_ts ==
  LET times == {ts} \cup ({source[s].audio_ts : s \in {r \in Sources : ~source[r].pending}} \ {None})
  IN CHOOSE t \in times : \A u \in times : t <= u

\* audio_buffer_insuffient: the audio was thrown away since it was rendered.
Insufficient(src, min_ts) ==
  /\ ~src.pending /\ src.audio_ts # None
  /\ src.audio_ts - min_ts < AUDIO_OUTPUT_FRAMES
  /\ Len(src.buf) < AUDIO_OUTPUT_FRAMES - (src.audio_ts - min_ts)

Less(a, b) == IF a < b THEN a ELSE b

\* Mutant: ticks are put in front of the first that waited when buffering began.
BufferFromFirst(min_ts) ==
  LET start == IF buffering_wait_ticks = 0 THEN ts ELSE buffered_ts
      ticks == Less((ts - min_ts + AUDIO_OUTPUT_FRAMES - 1) \div AUDIO_OUTPUT_FRAMES,
                    MAX_BUFFERING_TICKS - total_buffering_ticks)
      first == start - ticks * AUDIO_OUTPUT_FRAMES
  IN /\ buffered_ts' = start
     /\ total_buffering_ticks' = total_buffering_ticks + ticks
     /\ buffering_wait_ticks' = buffering_wait_ticks + ticks
     /\ buffered_timestamps' =
          [i \in 1..ticks |-> first + (i - 1) * AUDIO_OUTPUT_FRAMES] \o buffered_timestamps
     /\ ts' = first

\* add_audio_buffering: as many ticks before this one as the latest source needs,
\* within the limit.
add_audio_buffering(min_ts) ==
  LET start == IF buffering_wait_ticks = 0 THEN ts ELSE buffered_ts
      ticks == Less((ts - min_ts + AUDIO_OUTPUT_FRAMES - 1) \div AUDIO_OUTPUT_FRAMES,
                    MAX_BUFFERING_TICKS - total_buffering_ticks)
      first == start - (buffering_wait_ticks + ticks) * AUDIO_OUTPUT_FRAMES
  IN /\ buffered_ts' = start
     /\ total_buffering_ticks' = total_buffering_ticks + ticks
     /\ buffering_wait_ticks' = buffering_wait_ticks + ticks
     /\ buffered_timestamps' =
          [i \in 1..ticks |-> first + (i - 1) * AUDIO_OUTPUT_FRAMES] \o buffered_timestamps
     /\ ts' = first

\* calc_min_ts.  Its second find_min_ts begins with the result of the first, so
\* it changes nothing: a source found insufficient still makes the output late.
Buffer ==
  /\ at = "buffer" /\ at' = "mix"
  /\ source' = [s \in Sources |-> IF Insufficient(source[s], find_min_ts)
                                  THEN [source[s] EXCEPT !.pending = TRUE] ELSE source[s]]
  /\ IF find_min_ts < ts /\ total_buffering_ticks # MAX_BUFFERING_TICKS
     THEN add_audio_buffering(find_min_ts)
     ELSE UNCHANGED buffering
  /\ UNCHANGED <<now, jumps, due, wrong>>

\* mix_audio: does a source put a sample at a time that is not the sample's?
Misplaces(src) ==
  /\ ~src.pending /\ src.audio_ts # None
  /\ ts <= src.audio_ts /\ src.audio_ts < End
  /\ \E i \in 1..(End - src.audio_ts) : src.out[i] \notin {0, src.audio_ts + i - 1}

\* History: a source whose audio is thrown away within the tick is excused.
Mix ==
  /\ at = "mix" /\ at' = "discard"
  /\ wrong' = (wrong \/ (buffering_wait_ticks = 0 /\
                         \E s \in Sources : ~source[s].reset /\ Misplaces(source[s])))
  /\ UNCHANGED <<now, buffering, source, jumps, due>>

\* discard_if_stopped: the second time that nothing has come.
Stopped(src) ==
  IF Len(src.buf) # src.last_size THEN [src EXCEPT !.last_size = Len(src.buf)]
  ELSE IF ~src.pending_stop THEN [src EXCEPT !.pending_stop = TRUE]
  ELSE [src EXCEPT !.buf = <<>>, !.pending_stop = FALSE, !.audio_ts = None, !.last_size = 0]

\* ignore_audio
Ignored(src) == [src EXCEPT !.buf = <<>>, !.audio_ts = @ + Len(src.buf),
                            !.last_size = IF src.buf = <<>> THEN @ ELSE 0]

\* discard_audio
Discarded(src) ==
  LET n       == End - src.audio_ts
      total   == Less(n, AUDIO_OUTPUT_FRAMES)
      stopped == Stopped(src)
      waits   == src.pending /\ src.buf # <<>> /\ Len(src.buf) < AUDIO_OUTPUT_FRAMES
  IN IF n <= 0 THEN src
     ELSE IF src.audio_ts < ts THEN
       LET s == IF waits THEN stopped ELSE src
       IN IF (waits /\ Len(src.buf) = src.last_size)
             \/ total_buffering_ticks # MAX_BUFFERING_TICKS
          THEN s ELSE Ignored(s)
     ELSE IF Len(src.buf) < total THEN (IF src.buf = <<>> THEN src ELSE stopped)
     ELSE [src EXCEPT !.buf = SubSeq(@, total + 1, Len(@)), !.last_size = 0,
                      !.pending_stop = FALSE, !.audio_ts = End]

\* The end of the callback: the tick is output unless it only bridges the wait.
Discard ==
  /\ at = "discard" /\ at' = "tick"
  /\ source' = [s \in Sources |-> Discarded(source[s])]
  /\ buffered_timestamps' = Tail(buffered_timestamps)
  /\ IF buffering_wait_ticks > 0
     THEN buffering_wait_ticks' = buffering_wait_ticks - 1 /\ UNCHANGED <<due, wrong>>
     ELSE /\ wrong' = (wrong \/ (due # None /\ ts # due))
          /\ due' = End
          /\ UNCHANGED buffering_wait_ticks
  /\ UNCHANGED <<now, ts, total_buffering_ticks, buffered_ts, jumps>>

Next == Tick \/ Render \/ Buffer \/ Mix \/ Discard \/ \E s \in Sources : SourceData(s)

Spec == Init /\ [][Next]_vars

----------------------------------------------------------------------------
\* However often and by however much sources make the output later, the ticks
\* that are put out follow each other without a gap or a repetition, every sample
\* in them is heard at its own time, and no source is left behind the tick that
\* waits for it unless the limit is reached (add_audio_buffering, mix_audio).
AudioInPlace ==
  /\ ~wrong
  /\ at = "mix" =>
       \A s \in Sources : source[s].pending \/ source[s].reset \/ source[s].audio_ts = None
                         \/ source[s].audio_ts >= ts
                         \/ total_buffering_ticks = MAX_BUFFERING_TICKS

----------------------------------------------------------------------------
(* Why: the inductive invariant.                                           *)

Source ==
  [audio_ts : Nat, buf : Seq(Nat), out : Seq(Nat), pending : BOOLEAN, last_size : Nat,
   pending_stop : BOOLEAN, next : Nat, reset : BOOLEAN]

TypeOK ==
  /\ at \in {"tick", "render", "buffer", "mix", "discard"} /\ now \in Int
  /\ buffered_timestamps \in Seq(Int) /\ ts \in Int /\ buffered_ts \in Int
  /\ buffering_wait_ticks \in Nat /\ total_buffering_ticks \in 0..MAX_BUFFERING_TICKS
  /\ source \in [Sources -> Source]
  /\ due \in Int /\ wrong \in BOOLEAN

\* The ticks that wait follow each other up to now, and as many of them only
\* bridge the wait as there are before the tick at which the wait began, or
\* before the tick that is due.
NextTick == IF at # "tick" THEN ts
            ELSE IF buffered_timestamps = <<>> THEN now ELSE Head(buffered_timestamps)
Timeline ==
  /\ at # "tick" => buffered_timestamps # <<>>
  /\ \A i \in 1..Len(buffered_timestamps) :
       buffered_timestamps[i] = NextTick + (i - 1) * AUDIO_OUTPUT_FRAMES
  /\ now = NextTick + Len(buffered_timestamps) * AUDIO_OUTPUT_FRAMES
  /\ buffering_wait_ticks # 0 => buffered_ts = NextTick + buffering_wait_ticks * AUDIO_OUTPUT_FRAMES
  /\ due # None => due = NextTick + buffering_wait_ticks * AUDIO_OUTPUT_FRAMES

\* A sample that is not silence is where its time says, from time on.
RunsFrom(samples, time) == \A i \in 1..Len(samples) : samples[i] \in {0, time + i - 1}

\* What waits of a source goes on to where its next audio begins.
Waiting(src) ==
  IF src.audio_ts = None THEN src.buf = <<>>
  ELSE RunsFrom(src.buf, src.audio_ts) /\ src.next = src.audio_ts + Len(src.buf)

\* What was taken from a source begins where the source still begins.
Taken(src) ==
  at \in {"buffer", "mix"} /\ ~src.pending /\ ~src.reset =>
    src.audio_ts # None /\ Len(src.out) = AUDIO_OUTPUT_FRAMES /\ RunsFrom(src.out, src.audio_ts)

IInv ==
  /\ TypeOK /\ Timeline /\ AudioInPlace
  /\ \A s \in Sources : Waiting(source[s]) /\ Taken(source[s])
=============================================================================
