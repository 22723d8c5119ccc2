------------------------------- MODULE Media -------------------------------
(***************************************************************************)
(* The tracks of two connected peers: how they are described and agreed on *)
(* (processLocalDescription and its like in src/src/impl/peerconnection.cpp),*)
(* how a frame becomes packets and feedback brings back the lost ones (the *)
(* media handlers), and which track a packet is given to (forwardMedia).   *)
(*                                                                         *)
(* The connection reorders packets, and loses and duplicates plan.faults of  *)
(* them; descriptions come in order.  The application of a peer makes the   *)
(* calls of its plan one after the other, and asks for what it misses.     *)
(***************************************************************************)
EXTENDS Sdp, Rtp

CONSTANTS
    Peers,      \* two of them
    Plans,      \* what the applications do
    Families,   \* the numeric addresses and their families
    QueueLimit  \* bound of a track's receive queue, in packets

VARIABLES
    plan, calls,   \* the calls of each peer, those still to make
    peer,          \* see NewPeer
    signal,        \* the descriptions on their way to each peer
    wire,          \* the packets on their way to each peer
    seen,          \* the packets each peer has unprotected
    log,           \* the packets first sent under each SSRC
    sent,          \* the units the applications sent under each SSRC
    connected,     \* "no", or the transport: "srtp", "data"
    faults

vars == <<plan, calls, peer, signal, wire, seen, log, sent, connected, faults>>

Other(p) == CHOOSE q \in Peers : q # p

\* lines: the tracks in the order of mTrackLines, tracks: the index of the
\* track of a mid, bySsrc: the index of the track of an SSRC; origin: what the
\* author of the remote description meant, agent: what the ICE agent read of it.
NewPeer == [lines |-> <<>>, tracks |-> <<>>, bySsrc |-> <<>>, local |-> EmptyDescription,
            remote |-> EmptyDescription, origin |-> EmptyDescription, agent |-> EmptyDescription,
            toOpen |-> FALSE]

\* queue: the receive queue, given: the media the application was given.  By
\* default the callback of a track that only sends discards.  The numbers of the
\* packets start anywhere: close to the wraparound.
NewTrack(e, handler, callback) ==
    [entry |-> e, handler |-> handler, alive |-> TRUE, open |-> FALSE, closed |-> FALSE,
     next |-> SeqModulus - 2, needsReport |-> FALSE, packetCount |-> 0, store |-> EmptyStore,
     callback |-> callback \/ e.direction = "sendonly", queue |-> <<>>, given |-> <<>>]

CloseTrack(track) == [track EXCEPT !.closed = TRUE, !.handler = "none", !.callback = FALSE]

-----------------------------------------------------------------------------
(* Tracks and descriptions.                                                *)

HasTrack(st, mid) == mid \in DOMAIN st.tracks /\ st.lines[st.tracks[mid]].alive

\* An entry of the map whose track is gone is not replaced.
InsertTrack(st, track) ==
    [st EXCEPT !.lines = Append(@, track),
               !.tracks = EmplaceIn(@, track.entry.mid, Len(st.lines) + 1)]

CloseRemoved(track) == IF track.entry.removed THEN CloseTrack(track) ELSE track

EmplaceTrack(st, e, handler, callback) ==
    IF HasTrack(st, e.mid)
    THEN [st EXCEPT !.lines[st.tracks[e.mid]] = CloseRemoved([@ EXCEPT !.entry = e])]
    ELSE InsertTrack(st, CloseRemoved(NewTrack(e, handler, callback)))

UpdateTrackSsrcCache_Stop(st, desc) ==
    LET update(s, e) ==
            IF ~HasTrack(s, e.mid) THEN s
            ELSE [s EXCEPT !.bySsrc = [ssrc \in ToSet(e.ssrcs) |-> s.tracks[e.mid]] @@ @]
        app == SelectInSeq(desc.entries, IsApplication)
    IN  FoldLeft(update, st, IF app = 0 THEN desc.entries ELSE SubSeq(desc.entries, 1, app - 1))

\* Tracks of mids that are not there are left out.
UpdateTrackSsrcCache(st, desc) ==
    LET update(s, e) ==
            IF IsApplication(e) \/ ~HasTrack(s, e.mid) THEN s
            ELSE [s EXCEPT !.bySsrc = [ssrc \in ToSet(e.ssrcs) |-> s.tracks[e.mid]] @@ @]
    IN  FoldLeft(update, st, desc.entries)

LocalApplication(mid) ==
    [NewEntry("application", mid, "sendrecv") EXCEPT !.sctpPort = 5000, !.maxMessageSize = 1]

FreeMid(d) == CHOOSE mid \in {ToString(m) : m \in 0..Len(d.entries)} : ~HasMid(d, mid)

\* One entry of the remote description.  The application may change the
\* description of the track it is given: its SSRCs are in mine.
ReciprocateEntry(st, e, mine) ==
    LET add(s, entry) == [s EXCEPT !.local = AddEntry(@, entry)]
        reciprocated == ReciprocateMedia(e)
        answered == IF mine.ssrc = 0 THEN reciprocated
                    ELSE AddSSRC(reciprocated, mine.ssrc, mine.cname, mine.msid)
    IN  IF IsApplication(e)
        THEN add(st, IF mine.channels THEN LocalApplication(e.mid)
                     ELSE [ReciprocateApplication(e) EXCEPT
                              !.sctpPort = IF @ = -1 THEN 5000 ELSE @, !.maxMessageSize = 1])
        ELSE IF HasTrack(st, e.mid) THEN add(st, st.lines[st.tracks[e.mid]].entry)
        ELSE IF e.mid \in DOMAIN st.tracks THEN add(st, MarkRemoved(reciprocated))
        ELSE add(InsertTrack(st, CloseRemoved(NewTrack(answered, mine.handler, mine.callback))), answered)

\* An offer goes on with the tracks and the application that are not in it.
LocalEntries(st, mine) ==
    LET tracks == SelectSeq(st.lines, LAMBDA track : track.alive)
        add(d, track) == IF HasMid(d, track.entry.mid) THEN d ELSE AddEntry(d, track.entry)
        media == FoldLeft(add, st.local, tracks)
    IN  IF mine.channels /\ ~HasApplication(media)
        THEN AddEntry(media, LocalApplication(FreeMid(media))) ELSE media

\* The candidates found so far are kept, and the application waits for the end
\* of the gathering.
ProcessLocalDescription(st, type, mine) ==
    LET blank == [st EXCEPT !.local =
                     [EmptyDescription EXCEPT
                        !.role = IF type = "offer" THEN "actpass" ELSE "active",
                        !.ufrag = mine.ufrag, !.pwd = mine.ufrag, !.fingerprint = mine.ufrag,
                        !.iceOptions = <<"trickle">>,
                        !.attributes = mine.attributes]]
        reciprocated == FoldLeft(LAMBDA s, e : ReciprocateEntry(s, e, mine), blank, st.remote.entries)
        cached == UpdateTrackSsrcCache(reciprocated, st.remote)
        entries == IF type = "offer" THEN LocalEntries(cached, mine) ELSE cached.local
        candidates == IF st.local.entries = <<>> THEN mine.candidates ELSE st.local.candidates
        local == FoldLeft(AddCandidate, EndCandidates(entries),
                          [i \in DOMAIN candidates |-> Resolve(candidates[i], Families)])
    IN  UpdateTrackSsrcCache([cached EXCEPT !.local = local, !.toOpen = TRUE], local)

\* setRemoteDescription() takes the candidates, with the mark of their end, out
\* of the description that the ICE agent and then the connection are given.
ProcessRemoteDescription(st, message) ==
    LET parsed == Parse(message.sdp)
        kept == FoldLeft(AddCandidate, ExtractCandidates(parsed), st.remote.candidates)
        remote == FoldLeft(AddCandidate, kept,
                           [i \in DOMAIN parsed.candidates |-> Resolve(parsed.candidates[i], Families)])
    IN  [UpdateTrackSsrcCache(st, remote) EXCEPT
            !.remote = remote, !.origin = message.of,
            !.agent = Parse(GenerateApplicationSdp(ExtractCandidates(parsed)))]

Signal(desc, type) == [type |-> type, sdp |-> GenerateSdp(desc), of |-> desc]

-----------------------------------------------------------------------------
(* Outgoing media: a chain of the packetizer, the sender reporter and the  *)
(* NACK responder.  The packets are numbered in log: index.                *)

Message(units, separator) ==
    FlattenSeq([i \in DOMAIN units |->
        (CASE separator = "Length" -> <<0, 0, 0, Len(units[i])>>
           [] separator = "Short" -> <<0, 0, 1>>
           [] separator = "Long" \/ (separator = "Any" /\ i = 1) -> <<0, 0, 0, 1>>
           [] OTHER -> <<0, 0, 1>>) \o units[i]])

Fragments(message, codec) ==
    IF codec = "OPUS" THEN <<Whole(message)>> ELSE GenerateFragments(SplitMessage(message, codec))

\* The sender report comes before the packets, and counts those before it.
Report(track, ssrc) == [NoPacket EXCEPT !.kind = "sr", !.ssrc = ssrc, !.count = track.packetCount]

Outgoing(track, message, index) ==
    LET codec == plan.codec
        ssrc == track.entry.ssrcs[1]
        fragments == Fragments(message, codec)
        packet(i) == Packetize(fragments[i], codec # "OPUS" /\ i = Len(fragments), ssrc,
                               (track.next + i - 1) % SeqModulus, plan.elements, plan.rotated)
        packets == [i \in DOMAIN fragments |->
                       [packet(i) EXCEPT !.mid = track.entry.mid, !.index = index + i]]
        report == track.needsReport /\ fragments # <<>>
    IN  [packets |-> packets, control |-> If(report, Report(track, ssrc)),
         track |-> [track EXCEPT !.next = (@ + Len(fragments)) % SeqModulus,
                                 !.needsReport = @ /\ ~report,
                                 !.packetCount = @ + Len(packets),
                                 !.store = FoldLeft(Store, @, packets)]]

\* Track::outgoing, transportSend
CanSend(track, control) ==
    /\ track.alive /\ ~track.closed /\ track.open
    /\ control \/ track.entry.direction \notin {"recvonly", "inactive"}

-----------------------------------------------------------------------------
(* Incoming media.                                                         *)

\* What a track's handler makes of a packet: what goes on to the application
\* and what is sent back.
Handle(track, packet) ==
    CASE track.handler = "chain" ->
            [pass |-> <<packet>>,
             back |-> IF packet.kind = "nack" THEN Requested(track.store, packet) ELSE <<>>]
      [] track.handler = "session" ->
            [pass |-> IF IsRtcp(packet) THEN <<>> ELSE <<packet>>,
             back |-> IF packet.kind = "sr"
                      THEN <<[NoPacket EXCEPT !.kind = "rr", !.ssrc = packet.ssrc]>>
                           \o If(plan.bitrate, [NoPacket EXCEPT !.kind = "remb", !.ssrc = packet.ssrc])
                      ELSE <<>>]
      [] OTHER -> [pass |-> <<packet>>, back |-> <<>>]

MediaOnly(packets) == SelectSeq(packets, LAMBDA packet : ~IsRtcp(packet))

\* A full queue drops what comes.
Push(track, packets) ==
    IF track.callback THEN [track EXCEPT !.given = @ \o MediaOnly(packets)]
    ELSE IF Len(track.queue) >= QueueLimit THEN track
    ELSE [track EXCEPT !.queue = @ \o packets]

\* Track::incoming
Incoming(track, packet) ==
    LET handled == Handle(track, packet) IN
    IF track.entry.direction \in {"sendonly", "inactive"} /\ ~IsRtcp(packet)
    THEN [track |-> track, back |-> <<>>]
    ELSE [track |-> Push(track, handled.pass),
          back |-> IF track.open THEN handled.back ELSE <<>>]

ForwardMedia_FirstTrack(st, packet) == IF st.lines = <<>> THEN {} ELSE {1}

\* forwardMedia: the tracks a packet is for.
ForwardMedia(st, packet) ==
    LET ssrcs == IF IsRtcp(packet) THEN RtcpSsrcs(packet) ELSE {packet.ssrc}
    IN  {track \in {st.bySsrc[ssrc] : ssrc \in ssrcs \cap DOMAIN st.bySsrc} : st.lines[track].alive}

\* srtp_unprotect() refuses a packet of an index it has seen.
Replayed(p, packet) == ~IsRtcp(packet) /\ <<packet.ssrc, packet.index>> \in seen[p]

-----------------------------------------------------------------------------

Init ==
    /\ plan \in Plans
    /\ calls = plan.calls
    /\ peer = [p \in Peers |-> NewPeer]
    /\ signal = [p \in Peers |-> <<>>]
    /\ wire = [p \in Peers |-> <<>>]
    /\ seen = [p \in Peers |-> {}]
    /\ log = <<>>
    /\ sent = <<>>
    /\ connected = "no"
    /\ faults = 0

Call(p, op) ==
    /\ calls[p] # <<>> /\ Head(calls[p]).op = op
    /\ calls' = [calls EXCEPT ![p] = Tail(@)]

\* PeerConnection::addTrack
AddTrack(p) ==
    /\ Call(p, "add")
    /\ LET c == Head(calls[p])
       IN  peer' = [peer EXCEPT ![p] = EmplaceTrack(@, c.entry, c.handler, plan.mine[p].callback)]
    /\ UNCHANGED <<plan, signal, wire, seen, log, sent, connected, faults>>

\* The application lets go of its track: ~Track.
DestroyTrack(p) ==
    /\ Call(p, "destroy")
    /\ LET mid == Head(calls[p]).mid
       IN  /\ HasTrack(peer[p], mid)
           /\ peer' = [peer EXCEPT ![p].lines[peer[p].tracks[mid]] =
                          [CloseTrack(@) EXCEPT !.alive = FALSE]]
    /\ UNCHANGED <<plan, signal, wire, seen, log, sent, connected, faults>>

\* The application offers when no exchange is going on.
Offer(p) ==
    /\ \A q \in Peers : signal[q] = <<>>
    /\ Call(p, "offer")
    /\ LET st == ProcessLocalDescription(peer[p], "offer", plan.mine[p])
       IN  /\ st.local.entries # <<>>
           /\ peer' = [peer EXCEPT ![p] = st]
           /\ signal' = [signal EXCEPT ![Other(p)] = <<Signal(st.local, "offer")>>]
    /\ UNCHANGED <<plan, wire, seen, log, sent, connected, faults>>

RecvAnswer(p) ==
    /\ signal[p] # <<>> /\ Head(signal[p]).type = "answer"
    /\ peer' = [peer EXCEPT ![p] = ProcessRemoteDescription(@, Head(signal[p]))]
    /\ signal' = [signal EXCEPT ![p] = Tail(@)]
    /\ UNCHANGED <<plan, calls, wire, seen, log, sent, connected, faults>>

RecvOffer(p) ==
    /\ signal[p] # <<>> /\ Head(signal[p]).type = "offer"
    /\ LET st == ProcessLocalDescription(ProcessRemoteDescription(peer[p], Head(signal[p])),
                                         "answer", plan.mine[p])
       IN  /\ peer' = [peer EXCEPT ![p] = st]
           /\ signal' = [signal EXCEPT ![p] = Tail(@),
                                       ![Other(p)] = Append(@, Signal(st.local, "answer"))]
    /\ UNCHANGED <<plan, calls, wire, seen, log, sent, connected, faults>>

\* The DTLS handshake ends: the media transport is there if the first
\* descriptions had media (initDtlsTransport).
Connect ==
    /\ connected = "no"
    /\ \A p \in Peers : peer[p].remote.entries # <<>> /\ peer[p].local.entries # <<>>
    /\ connected' = IF \A p \in Peers : HasAudioOrVideo(peer[p].local) THEN "srtp" ELSE "data"
    /\ peer' = [p \in Peers |-> [peer[p] EXCEPT !.toOpen = TRUE]]
    /\ UNCHANGED <<plan, calls, signal, wire, seen, log, sent, faults>>

OpenTracks(p) ==
    /\ connected # "no" /\ peer[p].toOpen
    /\ peer' = [peer EXCEPT
                  ![p].toOpen = FALSE,
                  ![p].lines = [i \in DOMAIN @ |->
                      [@[i] EXCEPT !.open = @ \/ (connected = "srtp" /\ ~peer[p].lines[i].closed)]]]
    /\ UNCHANGED <<plan, calls, signal, wire, seen, log, sent, connected, faults>>

\* Track::send of a frame through the chain.
SendFrame(p) ==
    /\ Call(p, "send")
    /\ LET c == Head(calls[p])
           line == peer[p].tracks[c.mid]
           track == peer[p].lines[line]
           ssrc == track.entry.ssrcs[1]
           logged == IF ssrc \in DOMAIN log THEN log[ssrc] ELSE <<>>
           units == IF ssrc \in DOMAIN sent THEN sent[ssrc] ELSE <<>>
           out == Outgoing(track, IF plan.codec = "OPUS" THEN c.frame[1]
                                  ELSE Message(c.frame, plan.codec), Len(logged))
       IN  /\ HasTrack(peer[p], c.mid) /\ CanSend(track, FALSE)
           /\ peer' = [peer EXCEPT ![p].lines[line] = out.track]
           /\ wire' = [wire EXCEPT ![Other(p)] = @ \o out.control \o out.packets]
           /\ log' = (ssrc :> logged \o out.packets) @@ log
           /\ sent' = (ssrc :> units \o c.frame) @@ sent
    /\ UNCHANGED <<plan, signal, seen, connected, faults>>

\* RtcpSrReporter::setNeedsToReport
NeedReport(p) ==
    /\ Call(p, "report")
    /\ HasTrack(peer[p], Head(calls[p]).mid)
    /\ peer' = [peer EXCEPT ![p].lines[peer[p].tracks[Head(calls[p]).mid]].needsReport = TRUE]
    /\ UNCHANGED <<plan, signal, wire, seen, log, sent, connected, faults>>

Deliver(p) ==
    \E i \in DOMAIN wire[p] :
       LET packet == wire[p][i]
           st == peer[p]
           tracks == IF Replayed(p, packet) THEN {} ELSE ForwardMedia(st, packet)
           result == [track \in tracks |-> Incoming(st.lines[track], packet)]
           order == SetToSortSeq(tracks, <)
           back == FlattenSeq([t \in DOMAIN order |-> result[order[t]].back])
       IN  /\ peer' = [peer EXCEPT ![p].lines = [line \in DOMAIN @ |->
                          IF line \in tracks THEN result[line].track ELSE @[line]]]
           /\ wire' = [wire EXCEPT ![p] = RemoveAt(@, i), ![Other(p)] = @ \o back]
           /\ seen' = [seen EXCEPT ![p] = IF IsRtcp(packet) THEN @
                                          ELSE @ \cup {<<packet.ssrc, packet.index>>}]
           /\ UNCHANGED <<plan, calls, signal, log, sent, connected, faults>>

\* Track::receive
Receive(p) ==
    \E line \in DOMAIN peer[p].lines :
       LET track == peer[p].lines[line] IN
       /\ track.alive /\ track.queue # <<>>
       /\ peer' = [peer EXCEPT ![p].lines[line] =
                      [track EXCEPT !.queue = Tail(@), !.given = @ \o MediaOnly(<<Head(track.queue)>>)]]
       /\ UNCHANGED <<plan, calls, signal, wire, seen, log, sent, connected, faults>>

Lose(p) ==
    /\ faults < plan.faults
    /\ faults' = faults + 1
    /\ \E i \in DOMAIN wire[p] : wire' = [wire EXCEPT ![p] = RemoveAt(@, i)]
    /\ UNCHANGED <<plan, calls, peer, signal, seen, log, sent, connected>>

Duplicate(p) ==
    /\ faults < plan.faults
    /\ faults' = faults + 1
    /\ \E i \in DOMAIN wire[p] :
          ~IsRtcp(wire[p][i]) /\ wire' = [wire EXCEPT ![p] = Append(@, wire[p][i])]
    /\ UNCHANGED <<plan, calls, peer, signal, seen, log, sent, connected>>

\* What a receiver sees missing: what comes before something it has.
Missing(track, ssrc) ==
    LET got == {packet.index : packet \in {r \in ToSet(track.given) : r.ssrc = ssrc}} IN
    IF got = {} THEN {} ELSE (1..Max(got)) \ got

\* The application asks for the packets it misses, unless its last request or
\* the answer is still on the way.
AskMissing(p) ==
    \E ssrc \in DOMAIN log, line \in DOMAIN peer[p].lines :
       LET track == peer[p].lines[line]
           missing == SetToSortSeq(Missing(track, ssrc), <)
           parts == FoldLeft(AddMissingPacket, <<>>,
                             [i \in DOMAIN missing |-> log[ssrc][missing[i]].seq])
       IN  /\ missing # <<>> /\ track.handler = "none" /\ CanSend(track, TRUE)
           /\ \A i \in DOMAIN wire[Other(p)] : wire[Other(p)][i].kind # "nack"
           /\ \A i \in DOMAIN wire[p] : wire[p][i].index \notin Missing(track, ssrc) /\ ~Replayed(p, wire[p][i])
           /\ Cardinality(ToSet(wire[p])) = Len(wire[p])
           /\ wire' = [wire EXCEPT ![Other(p)] = Append(@,
                          [NoPacket EXCEPT !.kind = "nack", !.ssrc = ssrc, !.parts = parts])]
           /\ UNCHANGED <<plan, calls, peer, signal, seen, log, sent, connected, faults>>

Next ==
    \/ Connect
    \/ \E p \in Peers :
          \/ AddTrack(p) \/ DestroyTrack(p) \/ Offer(p) \/ RecvOffer(p) \/ RecvAnswer(p)
          \/ OpenTracks(p) \/ SendFrame(p) \/ NeedReport(p) \/ Receive(p)
          \/ Deliver(p) \/ Lose(p) \/ Duplicate(p) \/ AskMissing(p)

Spec == Init /\ [][Next]_vars

\* The network delivers what it does not lose, and the receiver keeps taking
\* what came and asking for what did not.
Fairness == \A p \in Peers : WF_vars(Deliver(p)) /\ WF_vars(Receive(p)) /\ WF_vars(AskMissing(p))

FairSpec == Spec /\ Fairness

-----------------------------------------------------------------------------

\* An entry that went through its lines: rids come back as attributes, and
\* SSRCs are not announced beside rids.
SameEntry(a, b) ==
    /\ <<a.type, a.mid, a.removed, a.extMaps, a.rtpMaps, a.bitrate, a.sctpPort, a.maxMessageSize>>
       = <<b.type, b.mid, b.removed, b.extMaps, b.rtpMaps, b.bitrate, b.sctpPort, b.maxMessageSize>>
    /\ a.direction = b.direction
    /\ IF a.rids = <<>>
       THEN ToSet(a.ssrcs) = ToSet(b.ssrcs)
            /\ \A s \in ToSet(a.ssrcs) \cap DOMAIN a.cnames : b.cnames[s] = a.cnames[s]
       ELSE b.ssrcs = <<>> /\ Contains(b.attributes, <<"simulcast", a.rids>>)

SameCandidates(a, b) ==
    Len(a) = Len(b) /\ \A i \in DOMAIN a : CandidateLine(a[i]) = CandidateLine(b[i])

\* A description a peer has applied says what its author meant: the role and
\* the ICE and DTLS credentials, every entry in its place with its formats,
\* SSRCs and their names, and the candidates, in their order; the ICE agent
\* reads the same credentials (description.cpp:89, 256, 326).
Transferred ==
    \A p \in Peers : LET a == peer[p].origin
                         b == peer[p].remote
                         agent == peer[p].agent IN
        /\ <<a.role, a.ufrag, a.pwd, a.iceOptions, a.fingerprint>>
           = <<b.role, b.ufrag, b.pwd, b.iceOptions, b.fingerprint>>
        /\ <<agent.role, agent.ufrag, agent.pwd, agent.iceOptions>>
           = <<a.role, a.ufrag, a.pwd, a.iceOptions>>
        /\ ToSet(a.attributes) \subseteq ToSet(b.attributes)
        /\ Len(a.entries) = Len(b.entries)
        /\ \A i \in DOMAIN a.entries : SameEntry(a.entries[i], b.entries[i])
        /\ SameCandidates(a.candidates, b.candidates)

\* The mids that only one track of a peer ever had.
OnlyTrack(st, line) ==
    \A other \in DOMAIN st.lines :
        st.lines[other].entry.mid = st.lines[line].entry.mid => other = line

\* Once an exchange of descriptions is over, the SSRCs the remote peer
\* announced for a mid lead to the live track of that mid.  A mid taken up
\* again after its track was destroyed is excepted: the map keeps the entry
\* of the dead track (peerconnection.cpp:727, 1233).
SsrcsLeadToTracks ==
    \A p \in Peers : LET st == peer[p] IN
        (\A q \in Peers : signal[q] = <<>>) =>
        \A i \in DOMAIN st.remote.entries, line \in DOMAIN st.lines :
            LET e == st.remote.entries[i] IN
            ( /\ e.mid = st.lines[line].entry.mid
              /\ st.lines[line].alive /\ OnlyTrack(st, line) ) =>
            \A ssrc \in ToSet(e.ssrcs) : ssrc \in DOMAIN st.bySsrc /\ st.bySsrc[ssrc] = line

\* Every index leads to a track, and every queue has its bound.
TypeOK ==
    /\ \A p \in Peers : IsSuffix(calls[p], plan.calls[p])
    /\ faults \in 0..plan.faults /\ connected \in {"no", "srtp", "data"}
    /\ DOMAIN sent = DOMAIN log
    /\ \A p \in Peers : LET st == peer[p] IN
          /\ Range(st.tracks) \cup Range(st.bySsrc) \subseteq DOMAIN st.lines
          /\ \A line \in DOMAIN st.lines : LET track == st.lines[line] IN
                /\ track.next \in 0..SeqModulus - 1
                /\ Len(track.queue) <= QueueLimit
                /\ track.closed => ~track.callback

\* The maps of a peer lead where its descriptions say.
MediaInv == TypeOK /\ SsrcsLeadToTracks

\* A track is given the packets of the remote track of its mid, each at most
\* once and as it was first sent, whether it came late, twice or again.
ReceivedAsSent ==
    \A p \in Peers : \A line \in DOMAIN peer[p].lines :
        LET track == peer[p].lines[line]
        IN  /\ Cardinality(ToSet(track.given)) = Len(track.given)
            /\ \A packet \in ToSet(track.given) :
                  packet.mid = track.entry.mid /\ packet = log[packet.ssrc][packet.index]

\* The units in packets, in the order of their numbers.
Depacketize(packets) ==
    FoldLeft(LAMBDA units, packet :
                 IF packet.body.type \in {"Whole", "Start"}
                 THEN Append(units, IF packet.body.type = "Whole" THEN packet.body.data
                                    ELSE packet.body.header \o packet.body.data)
                 ELSE [units EXCEPT ![Len(units)] = @ \o packet.body.data],
             <<>>, packets)

\* A receiver that has all packets of an SSRC, and looks for the payload where
\* the headers say it is, gets the units that were sent; a packet fits.  It
\* holds of header extensions that fill whole words.
UnitsIntact ==
    \A p \in Peers : \A line \in DOMAIN peer[p].lines : \A ssrc \in DOMAIN log :
        LET got == {packet \in ToSet(peer[p].lines[line].given) : packet.ssrc = ssrc} IN
        Cardinality(got) = Len(log[ssrc]) =>
            /\ \A packet \in got : FragmentSize(packet.body) <= MaxFragment \/ plan.codec = "OPUS"
            /\ \A packet \in got : packet.extSize % 4 = 0 => BodyShift(packet) = 0
            /\ Depacketize(SetToSortSeq(got, LAMBDA a, b : a.index < b.index)) = sent[ssrc]

\* A receiver that asks for what it misses ends with all of it, but for what
\* the sender no longer stores, or whose track is gone, and for what a full
\* queue dropped: the SRTP layer takes that one for a replay when it comes again.
Stored(p, packet) ==
    \E line \in DOMAIN peer[p].lines :
        LET track == peer[p].lines[line] IN
        track.handler = "chain" /\ packet \in Range(track.store.map)

Recovered ==
    \A p \in Peers : \A line \in DOMAIN peer[p].lines : \A ssrc \in DOMAIN log :
        LET track == peer[p].lines[line] IN
        track.handler = "none" /\ CanSend(track, TRUE) =>
            \A i \in Missing(track, ssrc) :
                <<ssrc, i>> \in seen[p] \/ ~Stored(Other(p), log[ssrc][i])

LossesRecovered == <>[]Recovered

=============================================================================
