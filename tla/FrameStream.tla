---------------------------- MODULE FrameStream ----------------------------
(***************************************************************************)
(* What libobs promises the encoders about the video it hands them: a      *)
(* constant frame rate.  Time is counted in frame intervals.  The graphics *)
(* thread is responsible for an interval [accepted, accepted + count) at a *)
(* time, and the consumers are shown every interval once, in order, none   *)
(* left out and none repeated, whatever the lag of the one or the other.   *)
(*                                                                         *)
(* VideoOutput (video-io.c) implements it; the mapping is there.           *)
(***************************************************************************)
EXTENDS Naturals

CONSTANT MaxTime            \* bound on the frame intervals, a natural number

VARIABLES accepted,         \* intervals the graphics thread has produced
          next,             \* the interval the consumers are shown next
          stopped           \* shutdown has been requested

vars == <<accepted, next, stopped>>

Init == accepted = 0 /\ next = 0 /\ stopped = FALSE

\* A rendered frame stands for one interval or, after a rendering stall, more.
Accept == /\ \E t \in accepted + 1 .. MaxTime : accepted' = t
          /\ UNCHANGED <<next, stopped>>

\* One interval is shown to every consumer.
Deliver == /\ next < accepted
           /\ next' = next + 1
           /\ UNCHANGED <<accepted, stopped>>

Stop == stopped' = TRUE /\ UNCHANGED <<accepted, next>>

Next == Accept \/ Deliver \/ Stop

Safety == Init /\ [][Next]_vars

\* Unless it is told to stop, the stream never stalls on an accepted frame.
Spec == Safety /\ WF_vars(~stopped /\ Deliver)
=============================================================================
