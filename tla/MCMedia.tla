------------------------------ MODULE MCMedia ------------------------------
(* The plans of the run "media".                                           *)
EXTENDS Media

MCPeers == {"A", "B"}
MCFamilies == ("n4" :> "v4") @@ ("n6" :> "v6")

A_Call(op, mid) == [op |-> op, mid |-> mid, entry |-> NewEntry("", "", ""), handler |-> "", frame |-> <<>>]
A_Add(e, handler) == [A_Call("add", e.mid) EXCEPT !.entry = e, !.handler = handler]
A_Send(mid, frame) == [A_Call("send", mid) EXCEPT !.frame = frame]
Offers == A_Call("offer", "")

Extension == [id |-> 1, uri |-> "sdes:mid", direction |-> "sendonly"]

\* A video whose description was edited: a format and what depends on it
\* removed, an SSRC replaced, an attribute removed.
Video(mid, dir, ssrc) ==
    LET e == SetDirection([NewEntry("video", mid, "sendrecv") EXCEPT !.bitrate = 3], dir)
        v0 == RemoveExtMap(AddExtMap(AddExtMap(e, Extension), [Extension EXCEPT !.id = 2]), 2)
        v1 == AddRtxCodec(AddVideoCodec(AddVideoCodec(v0, 96, "H264"), 97, "VP8"), 98, 97)
        v2 == RemoveFormat(v1, "VP8")
        v3 == AddSSRC(AddSSRC(v2, 12, "gone", ""), 2, "x", "")
    IN  ReplaceSSRC(RemoveSSRC(Drop(AddAttribute(v3, <<"rtcp-rsize", "">>), {"none"}), 2),
                    12, ssrc, "name", "stream")
Audio(mid, dir, ssrc) == AddSSRC(AddAudioCodec(NewEntry("audio", mid, dir), 111, "OPUS"), ssrc, "name", "")
Simulcast(mid) == AddRid(AddRid(Video(mid, "sendonly", 3), "high"), "low")
NoMedia == [NewEntry("video", "n", "inactive") EXCEPT !.removed = TRUE]

Host(foundation, node, priority) == NewCandidate(foundation, node, 7, "host", priority)
Candidates == <<NewCandidate("f0", "n4", 6, "srflx", 1), ChangeAddress(Host("f1", "n4", 1), "name.local", 8,
                                                              MCFamilies),
                Host("f2", "n6", 3), Host("f3", "n4", 2), Host("f2", "n6", 3)>>

Nobody(p) == [ssrc |-> 0, cname |-> "", msid |-> "", channels |-> FALSE, handler |-> "none",
              callback |-> TRUE, ufrag |-> p, attributes |-> <<>>, candidates |-> <<>>]
Base == [calls |-> [p \in Peers |-> <<>>], mine |-> [p \in Peers |-> Nobody(p)],
         codec |-> "Any", elements |-> <<3>>, rotated |-> FALSE, bitrate |-> FALSE,
         faults |-> 0]

Frame1 == << <<5, 0, 0, 3>>, <<7, 1, 0, 1, 4, 0, 2>> >>
Frame2 == << <<6>> >>

\* Losses of a stream, each separator.
Streams ==
    {[Base EXCEPT !.codec = codec, !.faults = 1,
         !.calls["A"] = <<A_Add(Video("v", "sendonly", 1), "chain"), Offers,
                          A_Send("v", Frame1), A_Call("report", "v"), A_Send("v", Frame2)>>] :
        codec \in {"Any", "Length"}}

\* A receiving session, and a peer that answers with a stream of its own.
Sessions ==
    {[Base EXCEPT !.codec = "Short", !.bitrate = TRUE, !.faults = 1,
         !.mine["B"] = [@ EXCEPT !.handler = "session", !.callback = FALSE, !.channels = TRUE],
         !.calls["A"] = <<A_Add(Video("v", "sendonly", 1), "chain"), A_Add(NoMedia, "none"), Offers,
                          A_Call("report", "v"), A_Send("v", Frame2), A_Send("v", Frame2)>>],
     [Base EXCEPT !.mine["B"] = [@ EXCEPT !.handler = "chain", !.ssrc = 21, !.cname = "b", !.msid = "s"],
         !.codec = "OPUS", !.elements = <<>>,
         !.calls["A"] = <<A_Add(Audio("0", "sendrecv", 1), "none"), Offers>>,
         !.calls["B"] = <<A_Send("0", Frame2), A_Send("0", Frame2), A_Send("0", Frame2)>>]}

\* Tracks that come and go, and data channels.
Renegotiations ==
    {[Base EXCEPT !.codec = "Long",
         !.mine["A"] = [@ EXCEPT !.channels = again.removed, !.attributes = << <<"x", "y">> >>,
                                 !.candidates = Candidates],
         !.calls["A"] = <<A_Add(Audio("a", "sendrecv", 5), "chain"),
                          A_Add(Video("v", "sendonly", 1), "chain"), Offers,
                          A_Send("v", Frame2), A_Call("destroy", "v"),
                          A_Add(Video("w", "sendonly", 4), "chain"), A_Add(again, "chain"),
                          Offers, A_Send("a", Frame2)>>,
         !.calls["B"] = <<A_Add(Audio("a", "recvonly", 6), "none"), A_Add(Simulcast("s"), "none"), Offers>>] :
        again \in {Video("v", "sendonly", 7), MarkRemoved(Video("u", "sendonly", 7))}}

\* Data channels first: tracks added later have no transport.
DataFirst ==
    {[Base EXCEPT !.mine["A"].channels = TRUE,
         !.calls["A"] = <<Offers, A_Add(Video("v", "sendonly", 1), "chain"), Offers>>]}

MCPlans == Streams \cup Sessions \cup Renegotiations \cup DataFirst

=============================================================================
