----------------------------- MODULE RtmpQueue -----------------------------
(***************************************************************************)
(* rtmp-stream.c, the queue between rtmp_stream_data and send_thread: when *)
(* the network is slow, the frames fewest others depend on are thrown away *)
(* first.  StreamOutput has the life of the stream; here it is connected,  *)
(* or lost and connected again.  Frames are numbered, and come with a      *)
(* packet of audio each; their number is also their time.                  *)
(***************************************************************************)
EXTENDS Integers, Sequences, FiniteSets

CONSTANTS
  drop_threshold, pframe_drop_threshold,  \* in frames; the second is the larger
  CheckFrom,                \* from so many packets on a drop is considered: 5
  MaxFrames, MaxLosses      \* bounds

VARIABLES
  packets, min_priority, last_dts,        \* of struct rtmp_stream
  send_sem,                 \* the units of the semaphore
  connected,                \* active and not disconnected
  encoder,                  \* the frame that is next, and those it can refer to
  losses, sent              \* history: connections lost, what this one has sent

vars == <<packets, min_priority, last_dts, send_sem, connected, encoder, losses, sent>>

HIGH    == 2                \* OBS_NAL_PRIORITY_HIGH
HIGHEST == 3
\* The priorities encoders use: a frame needs the one before of a higher one.
priority == [B |-> 0, Bref |-> 1, P |-> 2, I |-> 3]

Fresh(dts) == [dts |-> dts, due |-> "audio", P |-> 0, Bref |-> 0, first |-> dts]

Init ==
  /\ packets = <<>> /\ min_priority = 0 /\ last_dts = 0
  /\ send_sem = 0 /\ connected = TRUE
  /\ encoder = Fresh(1)
  /\ losses = 0 /\ sent = {}

IsDelta(p) == p.type \in {"P", "Bref", "B"}

\* The n-th element of a set of numbers.
Nth(s, n) == CHOOSE k \in s : Cardinality({j \in s : j <= k}) = n

\* drop_frames, given the queue and the least priority that stays.
drop_frames(q, highest) ==
  LET kept == {i \in DOMAIN q : q[i].type = "audio" \/ priority[q[i].type] >= highest}
  IN  [n \in 1..Cardinality(kept) |-> q[Nth(kept, n)]]

\* find_first_video_packet, and whether the queue has been waiting for too long.
Behind(q, threshold) ==
  /\ Len(q) >= CheckFrom
  /\ \E i \in DOMAIN q : /\ IsDelta(q[i]) /\ \A j \in DOMAIN q : IsDelta(q[j]) => i <= j
                         /\ last_dts - q[i].dts > threshold

\* check_to_drop_frames, given and giving the queue and min_priority.
check_to_drop_frames(s, highest, threshold) ==
  IF Behind(s.packets, threshold)
  THEN [packets |-> drop_frames(s.packets, highest),
        min |-> IF s.min < highest THEN highest ELSE s.min]
  ELSE s

Checked == check_to_drop_frames(
             check_to_drop_frames([packets |-> packets, min |-> min_priority],
                                  HIGH, drop_threshold),
             HIGHEST, pframe_drop_threshold)

\* The encoder: a stream begins with a keyframe; a frame refers to the last P or
\* I, a B also to the last Bref after it.
Frame(type) == [type |-> type, dts |-> encoder.dts,
                needs |-> CASE type = "I" -> 0
                            [] type = "B" -> encoder.Bref
                            [] OTHER -> encoder.P]
Encoded(type) == [encoder EXCEPT !.dts = @ + 1, !.due = "audio",
                    !.P = IF type \in {"P", "I"} THEN encoder.dts ELSE @,
                    !.Bref = IF type = "B" THEN @ ELSE encoder.dts]

\* Mutant: the least priority is forgotten with the first packet refused.
AddVideoOnce(frame) ==
  IF priority[frame.type] < Checked.min
  THEN packets' = Checked.packets /\ min_priority' = 0 /\ UNCHANGED <<last_dts, send_sem>>
  ELSE /\ packets' = Append(Checked.packets, frame) /\ min_priority' = 0
       /\ last_dts' = frame.dts /\ send_sem' = send_sem + 1

\* add_video_packet, and the rest of rtmp_stream_data.
AddVideo(frame) ==
  IF priority[frame.type] < Checked.min
  THEN /\ packets' = Checked.packets /\ min_priority' = Checked.min
       /\ UNCHANGED <<last_dts, send_sem>>
  ELSE /\ packets' = Append(Checked.packets, frame) /\ min_priority' = 0
       /\ last_dts' = frame.dts /\ send_sem' = send_sem + 1

VideoData ==
  /\ connected /\ encoder.due = "video" /\ encoder.dts <= MaxFrames
  /\ \E type \in DOMAIN priority :
       /\ encoder.P = 0 => type = "I"
       /\ encoder' = Encoded(type)
       /\ AddVideo(Frame(type))
  /\ UNCHANGED <<connected, losses, sent>>

AudioData ==
  /\ connected /\ encoder.due = "audio" /\ encoder.dts <= MaxFrames
  /\ encoder' = [encoder EXCEPT !.due = "video"]
  /\ packets' = Append(packets, [type |-> "audio", dts |-> encoder.dts, needs |-> 0])
  /\ send_sem' = send_sem + 1
  /\ UNCHANGED <<min_priority, last_dts, connected, losses, sent>>

\* send_thread: one round, get_next_packet and send_packet.
Send ==
  /\ connected /\ send_sem > 0
  /\ send_sem' = send_sem - 1
  /\ IF packets = <<>> THEN UNCHANGED <<packets, sent>>
     ELSE packets' = Tail(packets) /\ sent' = sent \cup {Head(packets)}
  /\ UNCHANGED <<min_priority, last_dts, connected, encoder, losses>>

\* send_packet fails: the end of send_thread.
SendFails ==
  /\ connected /\ send_sem > 0 /\ packets # <<>> /\ losses < MaxLosses
  /\ connected' = FALSE /\ losses' = losses + 1
  /\ packets' = <<>>
  /\ UNCHANGED <<min_priority, last_dts, send_sem, encoder, sent>>

\* init_connect and init_send; the encoders are hooked up anew.
Connect ==
  /\ ~connected /\ connected' = TRUE
  /\ packets' = <<>> /\ min_priority' = 0 /\ send_sem' = 0
  /\ encoder' = Fresh(encoder.dts) /\ sent' = {}
  /\ UNCHANGED <<last_dts, losses>>

Next == VideoData \/ AudioData \/ Send \/ SendFails \/ Connect

Spec == Init /\ [][Next]_vars

----------------------------------------------------------------------------
\* Whatever was thrown away, the frames that were sent can be decoded: what they
\* refer to was sent before, drop by drop and across several of them.
Decodable == \A p \in sent : p.needs # 0 => \E q \in sent : q.type # "audio" /\ q.dts = p.needs

\* Audio is sent without a gap.
AudioWhole == \A p \in sent : p.type = "audio" =>
                \A t \in encoder.first..p.dts : \E q \in sent : q.type = "audio" /\ q.dts = t

\* The send thread does not sleep on a queue that has packets.
Served == connected => send_sem >= Len(packets)

\* When there is something to drop it does not pile up: only the newest frame is
\* further from the oldest that could be dropped than the threshold.
Bounded == \A i, j, k \in DOMAIN packets :
  i < j /\ j < k /\ IsDelta(packets[i]) /\ {packets[j].type, packets[k].type} \subseteq DOMAIN priority
    => packets[j].dts - packets[i].dts <= pframe_drop_threshold

----------------------------------------------------------------------------
(* Why it is usable: what the queue holds while the stream is connected.   *)

Video == DOMAIN priority
Packet == [type : {"audio"} \cup Video, dts : Nat \ {0}, needs : Nat]

TypeOK ==
  /\ packets \in Seq(Packet) /\ sent \in SUBSET Packet
  /\ min_priority \in {0, HIGH, HIGHEST} /\ last_dts \in Nat
  /\ send_sem \in Nat /\ losses \in Nat /\ connected \in BOOLEAN
  /\ encoder \in [dts : Nat \ {0}, due : {"audio", "video"}, P : Nat, Bref : Nat,
                  first : Nat \ {0}]

Lost == ~connected => packets = <<>> /\ last_dts < encoder.dts

\* The newest audio there is.
LastAudio == IF encoder.due = "video" THEN encoder.dts ELSE encoder.dts - 1

IsAudio(p, t) == p.type = "audio" /\ p.dts = t

\* The packets are in the order the encoders made them, audio before its frame.
Ordered(q) == \A i, j \in DOMAIN q : i < j =>
                \/ q[i].dts < q[j].dts
                \/ q[i].dts = q[j].dts /\ q[i].type = "audio" /\ q[j].type # "audio"

Past(q) == /\ last_dts < encoder.dts
           /\ \A i \in DOMAIN q : q[i].dts <= IF q[i].type = "audio" THEN LastAudio ELSE last_dts

\* No audio is lost: what was not sent is in the queue, the later the further back.
AudioKept(q) == \A t \in encoder.first..LastAudio :
  (\E p \in sent : IsAudio(p, t)) \/ \E i \in DOMAIN q : IsAudio(q[i], t)
AudioFollows(q) == \A i \in DOMAIN q : \A t \in (q[i].dts + 1)..LastAudio :
  \E j \in DOMAIN q : i < j /\ IsAudio(q[j], t)

\* The frames a frame of this type can refer to.
Referred(type) == IF type = "B" THEN {"Bref", "P", "I"} ELSE {"P", "I"}

Serves(p, type, dts) == p.type \in Referred(type) /\ p.dts = dts

\* What a frame of the queue refers to was sent, or is ahead of it.
Led(q) == \A i \in DOMAIN q : q[i].needs # 0 =>
  /\ IsDelta(q[i])
  /\ \/ \E p \in sent : Serves(p, q[i].type, q[i].needs)
     \/ \E j \in DOMAIN q : j < i /\ Serves(q[j], q[i].type, q[i].needs)

\* What the next frame refers to has not been thrown away, or that frame is refused.
Present(q, type, dts) == \/ \E p \in sent : Serves(p, type, dts)
                         \/ \E j \in DOMAIN q : Serves(q[j], type, dts)
Refusing(q, min) ==
  /\ encoder.P # 0 => Present(q, "P", encoder.P) \/ min = HIGHEST
  /\ encoder.Bref # 0 => Present(q, "B", encoder.Bref) \/ min >= HIGH

Inside(q, min) == Ordered(q) /\ Past(q) /\ AudioKept(q) /\ AudioFollows(q) /\ Led(q) /\ Refusing(q, min)

\* The stream a slow network gets: decodable, with all its audio, and in time.
StreamUsable == Decodable /\ AudioWhole /\ Served /\ Bounded


IInv == TypeOK /\ Lost /\ StreamUsable /\ (connected => Inside(packets, min_priority))
=============================================================================
