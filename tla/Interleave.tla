----------------------------- MODULE Interleave -----------------------------
(***************************************************************************)
(* interleave_packets (libobs/obs-output.c): the packets of one video      *)
(* encoder and of the encoders of some audio mixes, each in order on its   *)
(* own, are put in the order of their timestamps and handed to the plugin. *)
(* Sending starts where audio and video are closest together; from there   *)
(* the timestamps of every encoder count from 0.                           *)
(*                                                                         *)
(* interleaved_mutex makes a call one step.  dts is dts_usec, in a coarse  *)
(* unit: until the start it is system time, so the offset of an encoder is *)
(* the system time its stream starts at.  The video thread and the audio   *)
(* thread, which calls the encoders of the mixes in turn, are as far apart *)
(* as they like; the encoders of the mixes need not be aligned, since only *)
(* one of them starts with the video.  There are no B-frames (dts is pts), *)
(* and a capture that begins again is one that becomes active late.        *)
(***************************************************************************)
EXTENDS Integers, FiniteSets, Sequences, SequencesExt

CONSTANTS MaxMixes,         \* bound: mixes of an output
          VideoPeriod,      \* time from a video packet to the next
          AudioPeriod,
          KeyInterval,      \* every so many video packets there is a keyframe
          Starts,           \* times the encoders' first packets may have
          MaxVideo,         \* bound: video packets
          MaxAudio          \* bound: packets of each mix

VARIABLES
  output,                   \* the fields of struct obs_output
  sent,                     \* history: the packets handed to the plugin
  first,                    \* time of the first packet of each encoder
  videos,                   \* packets the video encoder has produced
  audios                    \* packets the encoders of the mixes have produced

vars == <<output, sent, first, videos, audios>>

\* num_audio_mixes: the encoders the output has.
Mixes    == DOMAIN first.audio
NumMixes == Cardinality(Mixes)

\* Times at which the mixes of an output may start, less than a packet apart.
MixStarts == {a \in UNION {[0 .. n -> Starts] : n \in 0 .. MaxMixes - 1} :
                \A m, n \in DOMAIN a : a[m] - a[n] < AudioPeriod}

Init ==
  /\ first \in [video : Starts, audio : MixStarts]
  /\ output = [active |-> FALSE,
               packets |-> <<>>,            \* interleaved_packets
               received_video |-> FALSE, received_audio |-> FALSE,
               highest_video_ts |-> 0, highest_audio_ts |-> 0,
               video_offset |-> 0, audio_offsets |-> [m \in Mixes |-> 0]]
  /\ sent = <<>>
  /\ videos = 0 /\ audios = 0

----------------------------------------------------------------------------
(* The array of packets.                                                   *)

\* The packet a new one goes in front of: the first that is later, or, for a
\* video packet, as late.
GoesBefore(p, q) == \/ p.dts = q.dts /\ p.type = "video"
                    \/ p.dts < q.dts

insert_interleaved_packet(packets, p) ==
  LET later == {i \in DOMAIN packets : GoesBefore(p, packets[i])}
  IN InsertAt(packets, IF later = {} THEN Len(packets) + 1 ELSE Min(later), p)

resort_interleaved_packets(packets) ==
  FoldLeft(insert_interleaved_packet, <<>>, packets)

discard(packets, count) == SubSeq(packets, count + 1, Len(packets))

Videos(packets)   == {i \in DOMAIN packets : packets[i].type = "video"}
Audios(packets)   == DOMAIN packets \ Videos(packets)
Mix(packets, m)   == {i \in Audios(packets) : packets[i].track_idx = m}

Distance(p, q) == IF p.dts < q.dts THEN q.dts - p.dts ELSE p.dts - q.dts

\* get_interleaved_start_idx: the packets before the first video packet or the
\* audio packet closest to it, whichever comes first.
get_interleaved_start_idx(packets) ==
  LET video   == Min(Videos(packets))
      closest == {i \in Audios(packets) : \A j \in Audios(packets) :
                    Distance(packets[i], packets[video]) <= Distance(packets[j], packets[video])}
  IN Min({video, Min(closest)}) - 1

\* prune_premature_packets: if audio starts more than a frame after video, all
\* up to the last of the first packets goes.  The difference that counts is
\* that of the last mix.
prune_premature_packets(packets) ==
  LET video  == Min(Videos(packets))
      audio(m) == Min(Mix(packets, m))
  IN IF packets[audio(NumMixes - 1)].dts - packets[video].dts > VideoPeriod
     THEN Max({video} \cup {audio(m) : m \in Mixes})
     ELSE 0

----------------------------------------------------------------------------
(* Starting: every packet that comes in before may find it possible.       *)

Started(o) == o.received_video /\ o.received_audio

\* get_audio_and_video_packets: what is missing is waited for.
Require(o) ==
  [o EXCEPT !.received_video = @ /\ Videos(o.packets) # {},
            !.received_audio = @ /\ \A m \in Mixes : Mix(o.packets, m) # {}]

\* Without a video packet prune_premature_packets does not look at the audio.
RequireVideo(o) ==
  IF Videos(o.packets) = {} THEN [o EXCEPT !.received_video = FALSE] ELSE Require(o)

\* prune_interleaved_packets.
Prune(o) ==
  LET premature == prune_premature_packets(o.packets)
  IN [o EXCEPT !.packets = discard(@, IF premature # 0 THEN premature
                                      ELSE get_interleaved_start_idx(@))]

\* There is audio past the first video packet.
RequirePast(o) ==
  LET video == o.packets[Min(Videos(o.packets))]
  IN [o EXCEPT !.received_audio =
        \A m \in Mixes : o.packets[Max(Mix(o.packets, m))].dts >= video.dts]

\* What is left of excess audio at the start goes.
Trim(o) == [o EXCEPT !.packets = discard(@, get_interleaved_start_idx(@))]

\* Mutant: one offset for all mixes.
OffsetOfFirst(o, p) ==
  IF p.type = "video" THEN o.video_offset ELSE o.audio_offsets[0]

OffsetOf(o, p) ==
  IF p.type = "video" THEN o.video_offset ELSE o.audio_offsets[p.track_idx]

apply_interleaved_packet_offset(o, p) == [p EXCEPT !.dts = @ - OffsetOf(o, p)]

\* The rest of initialize_interleaved_packets, and the sort.
SetOffsets(o) ==
  LET firstOf(m) == o.packets[Min(Mix(o.packets, m))].dts
      video == o.packets[Min(Videos(o.packets))].dts
      offs  == [o EXCEPT !.video_offset = video,
                         !.audio_offsets = [m \in Mixes |-> firstOf(m)],
                         !.highest_audio_ts = @ - firstOf(0),
                         !.highest_video_ts = @ - video]
  IN [offs EXCEPT !.packets = resort_interleaved_packets(
        [i \in DOMAIN o.packets |-> apply_interleaved_packet_offset(offs, o.packets[i])])]

\* One thing after the other, until something is missing.
Try(o, step(_)) == IF Started(o) THEN step(o) ELSE o

Start(o) == Try(Try(Try(Try(Try(Try(RequireVideo(o), Prune), Require),
                            RequirePast), Trim), Require), SetOffsets)

----------------------------------------------------------------------------
(* A packet comes in.                                                      *)

check_received(o, p) ==
  IF p.type = "video" THEN [o EXCEPT !.received_video = TRUE]
                      ELSE [o EXCEPT !.received_audio = TRUE]

set_higher_ts(o, p) ==
  IF p.type = "video"
  THEN [o EXCEPT !.highest_video_ts = IF @ < p.dts THEN p.dts ELSE @]
  ELSE [o EXCEPT !.highest_audio_ts = IF @ < p.dts THEN p.dts ELSE @]

\* Mutant: the packet need not be followed by one of the other type.
has_higher_own_ts(o, p) ==
  IF p.type = "audio" THEN o.highest_audio_ts >= p.dts ELSE o.highest_video_ts >= p.dts

has_higher_opposing_ts(o, p) ==
  IF p.type = "video" THEN o.highest_audio_ts > p.dts ELSE o.highest_video_ts > p.dts

Insert(o, p) ==
  set_higher_ts([o EXCEPT !.packets = insert_interleaved_packet(@, p)], p)

\* discard_unused_audio_packets.
DiscardBefore(o, dts) ==
  LET late == {i \in DOMAIN o.packets : o.packets[i].dts >= dts}
  IN [o EXCEPT !.packets = discard(@, IF late = {} THEN Len(@) ELSE Min(late) - 1)]

send_interleaved(o) ==
  IF has_higher_opposing_ts(o, Head(o.packets))
  THEN /\ output' = [o EXCEPT !.packets = Tail(@)]
       /\ sent' = Append(sent, Head(o.packets))
  ELSE output' = o /\ UNCHANGED sent

interleave_packets(p) ==
  IF ~output.active
  THEN UNCHANGED <<output, sent>>
  ELSE IF ~output.received_video /\ p.type = "video" /\ ~p.keyframe
  THEN output' = DiscardBefore(output, p.dts) /\ UNCHANGED sent
  ELSE IF Started(output)
  THEN send_interleaved(Insert(output, apply_interleaved_packet_offset(output, p)))
  ELSE LET o == Try(Insert(check_received(output, p), p), Start)
       IN IF Started(o) THEN send_interleaved(o) ELSE output' = o /\ UNCHANGED sent

\* begin_data_capture hooks the encoders first.
Activate ==
  /\ ~output.active
  /\ output' = [output EXCEPT !.active = TRUE]
  /\ UNCHANGED <<sent, first, videos, audios>>

Video ==
  /\ videos < MaxVideo
  /\ videos' = videos + 1
  /\ interleave_packets([type |-> "video", track_idx |-> 0,
                         dts |-> first.video + videos * VideoPeriod,
                         keyframe |-> videos % KeyInterval = 0])
  /\ UNCHANGED <<first, audios>>

\* The audio thread calls the encoders of the mixes in turn.
Audio ==
  /\ audios < MaxAudio * NumMixes
  /\ audios' = audios + 1
  /\ LET m == audios % NumMixes
     IN interleave_packets([type |-> "audio", track_idx |-> m,
                            dts |-> first.audio[m] + (audios \div NumMixes) * AudioPeriod,
                            keyframe |-> FALSE])
  /\ UNCHANGED <<first, videos>>

Next == Activate \/ Video \/ Audio

Spec == Init /\ [][Next]_vars

----------------------------------------------------------------------------
(* Properties.                                                             *)

Packet == [type : {"video", "audio"}, track_idx : Mixes, dts : Nat, keyframe : BOOLEAN]

\* Types; no timestamp falls below 0 when the offsets are taken from it.
TypeOK ==
  /\ output \in [active : BOOLEAN, packets : Seq(Packet),
                 received_video : BOOLEAN, received_audio : BOOLEAN,
                 highest_video_ts : Nat, highest_audio_ts : Nat,
                 video_offset : Nat, audio_offsets : [Mixes -> Nat]]
  /\ sent \in Seq(Packet)
  /\ first \in [video : Starts, audio : MixStarts]
  /\ videos \in 0 .. MaxVideo /\ audios \in 0 .. MaxAudio * NumMixes

\* send_interleaved waits for a later packet of the other type: what the plugin
\* gets is in the order of its timestamps.  With several mixes a packet may be
\* late, but by no more than an audio packet: they never drift apart further.
SentOrdered ==
  LET slack == IF NumMixes = 1 THEN 0 ELSE AudioPeriod
  IN \A i, j \in DOMAIN sent : i < j => sent[i].dts - slack <= sent[j].dts

Whole(packets, period) == \A i \in DOMAIN packets : packets[i].dts = (i - 1) * period

\* The pruning at the start leaves video and audio that were captured together:
\* the last mix, the one that is looked at, starts no more than a frame after
\* the video, and no mix more than an audio packet before it.
InSync ==
  /\ output.audio_offsets[NumMixes - 1] - output.video_offset <= VideoPeriod
  /\ \A m \in Mixes : output.video_offset - output.audio_offsets[m] <= AudioPeriod

\* From the start on, the packets of an encoder, those sent and those waiting,
\* count from 0 and none is missing: pruning and sorting keep streams whole, and
\* the streams begin together.
StreamsWhole ==
  Started(output) =>
    LET all == sent \o output.packets
        OfVideo(p) == p.type = "video"
    IN /\ InSync
       /\ Whole(SelectSeq(all, OfVideo), VideoPeriod)
       /\ \A m \in Mixes :
            LET OfMix(p) == p.type = "audio" /\ p.track_idx = m
            IN Whole(SelectSeq(all, OfMix), AudioPeriod)
=============================================================================
