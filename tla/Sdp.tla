-------------------------------- MODULE Sdp --------------------------------
(***************************************************************************)
(* Session descriptions: src/src/description.cpp and src/src/candidate.cpp.*)
(*                                                                         *)
(* An SDP text is a sequence of lines <<kind, value>>, the attribute       *)
(* "a=key:value" being <<key, value>>.  The empty string stands for an     *)
(* absent string and -1 for an absent number.                              *)
(***************************************************************************)
EXTENDS Integers, FiniteSets, TLC, SequencesExt

If(condition, line) == IF condition THEN <<line>> ELSE <<>>
Lines(key, values) == [i \in DOMAIN values |-> <<key, values[i]>>]
InOrder(ids) == SetToSortSeq(ids, <)
AddNew(seq, x) == IF Contains(seq, x) THEN seq ELSE Append(seq, x)
EmplaceIn(map, key, value) == map @@ (key :> value)
Without(map, keys) == [k \in DOMAIN map \ keys |-> map[k]]

-----------------------------------------------------------------------------
(* Candidates.  An address is known once the candidate is resolved; only   *)
(* numeric nodes resolve in the simple mode.                               *)

NewCandidate(foundation, node, service, type, priority) ==
    [foundation |-> foundation, node |-> node, service |-> service, type |-> type,
     priority |-> priority, address |-> "", port |-> -1, family |-> "unresolved", mid |-> ""]

\* families gives the family of the numeric nodes.
Resolve(cand, families) ==
    IF cand.node \in DOMAIN families
    THEN [cand EXCEPT !.address = cand.node, !.port = cand.service,
                      !.family = families[cand.node]]
    ELSE cand

\* The refusal of a name is an exception.
ChangeAddress(cand, node, service, families) ==
    Resolve([cand EXCEPT !.node = node, !.service = service, !.address = "", !.port = -1,
                         !.family = "unresolved"], families)

\* A resolved candidate is written with its address.
CandidateLine(cand) ==
    [foundation |-> cand.foundation, type |-> cand.type, priority |-> cand.priority,
     node |-> IF cand.address # "" THEN cand.address ELSE cand.node,
     service |-> IF cand.address # "" THEN cand.port ELSE cand.service]

ParseCandidate(line, mid) ==
    [NewCandidate(line.foundation, line.node, line.service, line.type, line.priority)
     EXCEPT !.mid = mid]

SameCandidate(a, b) ==
    a.foundation = b.foundation /\ a.service = b.service /\ a.node = b.node

-----------------------------------------------------------------------------
(* Media entries.                                                          *)

Opposite(direction) ==
    CASE direction = "recvonly" -> "sendonly" [] direction = "sendonly" -> "recvonly"
      [] OTHER -> direction

NewEntry(type, mid, direction) ==
    [type |-> type, mid |-> mid, direction |-> direction, removed |-> FALSE,
     attributes |-> <<>>, extMaps |-> <<>>, rids |-> <<>>, bitrate |-> -1,
     rtpMaps |-> <<>>, ssrcs |-> <<>>, cnames |-> <<>>, sctpPort |-> -1, maxMessageSize |-> -1]

IsApplication(e) == e.type = "application"

Drop(e, keys) ==
    [e EXCEPT !.attributes = SelectSeq(@, LAMBDA attr : attr[1] \notin keys)]
AddAttribute(e, attr) == [e EXCEPT !.attributes = AddNew(@, attr)]
MarkRemoved(e) == [e EXCEPT !.removed = TRUE]
SetDirection(e, dir) == [e EXCEPT !.direction = dir]
AddRid(e, rid) == [e EXCEPT !.rids = Append(@, rid)]
AddExtMap(e, map) == [e EXCEPT !.extMaps = EmplaceIn(@, map.id, map)]
RemoveExtMap(e, id) == [e EXCEPT !.extMaps = Without(@, {id})]

\* The SSRCs are a list, and attributes of their own beside it.
SsrcAttribute(ssrc, cname, msid) ==
    <<"ssrc", [ssrc |-> ssrc, cname |-> cname, msid |-> msid]>>

AddSSRC(e, ssrc, cname, msid) ==
    [e EXCEPT
       !.attributes = @ \o <<SsrcAttribute(ssrc, cname, "")>>
                        \o If(msid # "", SsrcAttribute(ssrc, "", msid))
                        \o If(msid # "", <<"msid", msid>>),
       !.ssrcs = Append(@, ssrc),
       !.cnames = IF cname # "" THEN EmplaceIn(@, ssrc, cname) ELSE @]

DecimalPrefix(a, b) == \E k \in 0..9 : b \div 10^k = a

\* The attributes go by a prefix of their text, the list by value.
RemoveSSRC(e, ssrc) ==
    [e EXCEPT
       !.attributes = SelectSeq(@, LAMBDA attr :
                          attr[1] = "ssrc" => ~DecimalPrefix(ssrc, attr[2].ssrc)),
       !.ssrcs = SelectSeq(@, LAMBDA s : s # ssrc)]

ReplaceSSRC(e, old, ssrc, cname, msid) == AddSSRC(RemoveSSRC(e, old), ssrc, cname, msid)

ClearSSRCs_KeepList(e) == [Drop(e, {"ssrc"}) EXCEPT !.cnames = <<>>]

ClearSSRCs(e) == [Drop(e, {"ssrc"}) EXCEPT !.ssrcs = <<>>, !.cnames = <<>>]

\* Formats.
RtpMap(format, rtcpFbs, fmtps) == [format |-> format, rtcpFbs |-> rtcpFbs, fmtps |-> fmtps]
AddRtpMap(e, pt, map) == [e EXCEPT !.rtpMaps = EmplaceIn(@, pt, map)]

AddAudioCodec(e, pt, codec) == AddRtpMap(e, pt, RtpMap(codec, <<>>, <<>>))
AddVideoCodec(e, pt, codec) ==
    AddRtpMap(e, pt, RtpMap(codec, <<"nack", "nack pli", "goog-remb">>, <<>>))
AddRtxCodec(e, pt, original) ==
    AddRtpMap(e, pt, RtpMap("RTX", <<>>, << <<"apt", original>> >>))

\* With the formats that depend on it.
RemoveRtpMap(e, pt) ==
    [e EXCEPT !.rtpMaps = Without(@, {p \in DOMAIN @ :
                              p = pt \/ Contains(@[p].fmtps, <<"apt", pt>>)})]

RemoveFormat(e, format) ==
    FoldLeft(RemoveRtpMap, e,
             InOrder({pt \in DOMAIN e.rtpMaps : e.rtpMaps[pt].format = format}))

ReciprocateApplication(e) == [e EXCEPT !.maxMessageSize = -1]

ReciprocateMedia(e) ==
    Drop(ClearSSRCs([e EXCEPT
             !.direction = Opposite(@),
             !.extMaps = [id \in DOMAIN @ |-> [@[id] EXCEPT !.direction = Opposite(@)]]]),
         {"rtcp-rsize"})

-----------------------------------------------------------------------------
(* From an entry to its lines and back.                                    *)

EntryLines(e) ==
    LET ids == InOrder(DOMAIN e.extMaps)
        attributes == IF e.rids = <<>> THEN e.attributes ELSE Drop(e, {"ssrc"}).attributes
    IN  <<<<"mid", e.mid>>>>
        \o [i \in DOMAIN ids |-> <<"extmap", e.extMaps[ids[i]]>>]
        \o If(e.direction # "unknown", <<"direction", e.direction>>)
        \o attributes
        \o Lines("rid", e.rids)
        \o If(e.rids # <<>>, <<"simulcast", e.rids>>)

FormatLines(pt, map) ==
    <<<<"rtpmap", [pt |-> pt, format |-> map.format]>>>>
    \o [i \in DOMAIN map.rtcpFbs |-> <<"rtcp-fb", [pt |-> pt, value |-> map.rtcpFbs[i]]>>]
    \o [i \in DOMAIN map.fmtps |-> <<"fmtp", [pt |-> pt, value |-> map.fmtps[i]]>>]

MediaLines(e) ==
    LET pts == InOrder(DOMAIN e.rtpMaps) IN
    If(e.bitrate >= 0, <<"b", e.bitrate>>) \o EntryLines(e) \o <<<<"rtcp-mux", "">>>>
    \o FlattenSeq([i \in DOMAIN pts |-> FormatLines(pts[i], e.rtpMaps[pts[i]])])

ApplicationLines(e) ==
    EntryLines(e)
    \o If(e.sctpPort # -1, <<"sctp-port", e.sctpPort>>)
    \o If(e.maxMessageSize # -1, <<"max-message-size", e.maxMessageSize>>)

GenerateEntry(e, port) ==
    <<<<"m", [type |-> e.type, port |-> IF e.removed THEN 0 ELSE port]>>>>
    \o IF IsApplication(e) THEN ApplicationLines(e) ELSE MediaLines(e)

ParseEntryLine(e, key, value) ==
    CASE key = "mid" -> [e EXCEPT !.mid = value]
      [] key = "extmap" -> [e EXCEPT !.extMaps = (value.id :> value) @@ @]
      [] key = "direction" -> [e EXCEPT !.direction = value]
      [] key = "bundle-only" -> [e EXCEPT !.removed = FALSE]
      [] OTHER -> [e EXCEPT !.attributes = Append(@, <<key, value>>)]

ParseApplicationLine(e, key, value) ==
    CASE key = "sctp-port" -> [e EXCEPT !.sctpPort = value]
      [] key = "max-message-size" -> [e EXCEPT !.maxMessageSize = value]
      [] OTHER -> ParseEntryLine(e, key, value)

\* A line about a format makes its map when there is none yet.
ParseMediaLine(e, key, value) ==
    LET with == IF key \in {"rtpmap", "rtcp-fb", "fmtp"}
                THEN AddRtpMap(e, value.pt, RtpMap("", <<>>, <<>>)) ELSE e
    IN  CASE key = "rtpmap" -> [with EXCEPT !.rtpMaps[value.pt].format = value.format]
          [] key = "rtcp-fb" -> [with EXCEPT !.rtpMaps[value.pt].rtcpFbs = Append(@, value.value)]
          [] key = "fmtp" -> [with EXCEPT !.rtpMaps[value.pt].fmtps = Append(@, value.value)]
          [] key = "rtcp-mux" -> e
          [] key = "b" -> [e EXCEPT !.bitrate = value]
          [] key = "ssrc" ->
                [e EXCEPT !.ssrcs = AddNew(@, value.ssrc),
                          !.cnames = IF value.cname # ""
                                     THEN EmplaceIn(@, value.ssrc, value.cname) ELSE @,
                          !.attributes = Append(@, <<key, value>>)]
          [] OTHER -> ParseEntryLine(e, key, value)

-----------------------------------------------------------------------------
(* Descriptions.                                                           *)

EmptyDescription ==
    [role |-> "actpass", ufrag |-> "", pwd |-> "", iceOptions |-> <<>>, fingerprint |-> "",
     attributes |-> <<>>, candidates |-> <<>>, ended |-> FALSE, entries |-> <<>>]

Active(d) == SelectSeq(d.entries, LAMBDA e : ~e.removed)
BundleMid(d) == IF Active(d) = <<>> THEN "0" ELSE Active(d)[1].mid
HasMid(d, mid) == \E i \in DOMAIN d.entries : d.entries[i].mid = mid
HasApplication(d) == \E i \in DOMAIN d.entries : IsApplication(d.entries[i]) /\ ~d.entries[i].removed
HasAudioOrVideo(d) == \E i \in DOMAIN d.entries : ~IsApplication(d.entries[i]) /\ ~d.entries[i].removed

\* There is at most one application.
AddEntry(d, e) ==
    [d EXCEPT !.entries = Append(IF IsApplication(e)
                                 THEN SelectSeq(@, LAMBDA other : ~IsApplication(other))
                                 ELSE @, e)]

AddCandidate(d, cand) ==
    LET hinted == [cand EXCEPT !.mid = IF @ = "" THEN BundleMid(d) ELSE @] IN
    IF \E i \in DOMAIN d.candidates : SameCandidate(d.candidates[i], hinted) THEN d
    ELSE [d EXCEPT !.candidates = Append(@, hinted)]

ExtractCandidates(d) == [d EXCEPT !.candidates = <<>>, !.ended = FALSE]
EndCandidates(d) == [d EXCEPT !.ended = TRUE]

\* The host candidate of the highest priority, favouring IPv4.
DefaultCandidate(d) ==
    LET hosts == SelectSeq(d.candidates, LAMBDA c : c.type = "host")
        best(result, c) ==
            IF \/ result.family = "v6" /\ c.family = "v4"
               \/ result.family = c.family /\ result.priority < c.priority
            THEN c ELSE result
    IN  IF hosts = <<>> THEN {} ELSE {FoldLeft(best, hosts[1], Tail(hosts))}

\* Its port, or the discard port.
DefaultPort(d) ==
    IF \E c \in DefaultCandidate(d) : c.address # ""
    THEN (CHOOSE c \in DefaultCandidate(d) : TRUE).port ELSE 9

SessionLines(d) ==
    <<<<"msid-semantic", "WMS *">>, <<"setup", d.role>>>>
    \o If(d.ufrag # "", <<"ice-ufrag", d.ufrag>>) \o If(d.pwd # "", <<"ice-pwd", d.pwd>>)
    \o If(d.iceOptions # <<>>, <<"ice-options", d.iceOptions>>)
    \o If(d.fingerprint # "", <<"fingerprint", d.fingerprint>>)
    \o d.attributes

CandidateLines(d) ==
    [i \in DOMAIN d.candidates |-> <<"candidate", CandidateLine(d.candidates[i])>>]
    \o If(d.ended, <<"end-of-candidates", "">>)

\* The candidates follow the first entry that is not removed.
GenerateSdp(d) ==
    LET mids(entries) == [i \in DOMAIN entries |-> entries[i].mid]
        bundle == mids(Active(d))
        ls == mids(SelectSeq(Active(d), LAMBDA e : ~IsApplication(e)))
        first == SelectInSeq(d.entries, LAMBDA e : ~e.removed)
    IN  If(bundle # <<>>, <<"group", <<"BUNDLE">> \o bundle>>)
        \o If(ls # <<>>, <<"group", <<"LS">> \o ls>>)
        \o SessionLines(d)
        \o FlattenSeq([i \in DOMAIN d.entries |->
               GenerateEntry(d.entries[i], DefaultPort(d))
               \o (IF i = first THEN CandidateLines(d) ELSE <<>>)])

GenerateApplicationSdp(d) ==
    LET apps == SelectSeq(d.entries, IsApplication)
        app == IF apps = <<>> THEN NewEntry("application", "data", "sendrecv") ELSE apps[1]
    IN  GenerateEntry(app, DefaultPort(d)) \o SessionLines(d) \o CandidateLines(d)

\* Some attributes belong to the session wherever they stand; the others to
\* the last entry, if there is one.
ParseLine(d, line) ==
    LET key == line[1]
        value == line[2]
        last == Len(d.entries)
        entry == d.entries[last]
    IN  CASE key = "m" ->
                AddEntry(d, [NewEntry(value.type, ToString(last),
                                      IF value.type = "application" THEN "sendrecv" ELSE "unknown")
                             EXCEPT !.removed = value.port = 0])
          [] key = "setup" -> [d EXCEPT !.role = value]
          [] key = "fingerprint" -> [d EXCEPT !.fingerprint = value]
          [] key = "ice-ufrag" -> [d EXCEPT !.ufrag = value]
          [] key = "ice-pwd" -> [d EXCEPT !.pwd = value]
          [] key = "ice-options" -> [d EXCEPT !.iceOptions = value]
          [] key = "candidate" -> AddCandidate(d, ParseCandidate(value, BundleMid(d)))
          [] key = "end-of-candidates" -> [d EXCEPT !.ended = TRUE]
          [] OTHER ->
                IF last = 0 THEN [d EXCEPT !.attributes = Append(@, line)]
                ELSE [d EXCEPT !.entries[last] =
                         IF IsApplication(entry) THEN ParseApplicationLine(entry, key, value)
                         ELSE ParseMediaLine(entry, key, value)]

Parse(sdp) == FoldLeft(ParseLine, EmptyDescription, sdp)

=============================================================================
