---------------------------- MODULE MCWebSocket ----------------------------
(* Plans for WebSocket: what the application and the remote peer do.       *)
EXTENDS WebSocket

Base == [role |-> "client", url |-> "ws", proxy |-> FALSE, backend |-> "OpenSSL", timeouts |-> {"close"},
         addresses |-> <<"ok">>, calls |-> <<<<"open", <<>>>>>>, onOpen |-> <<>>, onClient |-> <<>>,
         remote |-> <<>>, said |-> <<>>, end |-> "open", idle |-> 0, maxPings |-> 0, stalls |-> 0,
         cuts |-> {}]

Do(what) == <<what, <<>>>>
Say(frame) == <<"send", frame>>
Text(payload) == Frame("text", TRUE, payload)
Segment(after, cells) == [after |-> after, cells |-> cells]
Line(what) == <<"line", what>>
Anytime == <<"", "">>
Bye == << <<"bye", "">> >>

\* A message in two fragments with a ping between, and a long one.
Fragments == <<Frame("text", FALSE, <<1, 0>>), Frame("ping", TRUE, <<>>), Frame("continuation", TRUE, <<2>>)>>
Long == <<Frame("binary", TRUE, <<3, 0, 1>>)>>
Said == <<<<"text", <<1, 0, 2>>>>, <<"binary", <<3, 0, 1>>>>>>
AsCells(frames, mask) == FlattenSeq([i \in DOMAIN frames |-> Cells(frames[i], mask)])

Answer(frames) == <<Segment(Line("GET"), UpgradeResponse \o AsCells(frames, FALSE))>>
Request(frames) == <<Segment(Anytime, UpgradeRequest), Segment(Line("101"), AsCells(frames, TRUE))>>

Hi == Text(<<1>>)
HiSaid == <<<<"text", <<1>>>>>>
PeerCloses == <<Frame("close", TRUE, <<>>)>>

\* Clients: a message in fragments; a close by the peer, by the application, forced,
\* or from the open callback.
Reading == [Base EXCEPT !.remote = Answer(Fragments \o Long), !.said = Said, !.end = "eof",
                        !.addresses = <<"refused", "ok">>, !.cuts = {1}]
PeerClosing == [Base EXCEPT !.remote = Answer(PeerCloses), !.end = "eof"]
AppClosing == [Base EXCEPT !.calls = <<Do("open"), Do("close")>>, !.remote = Answer(<<>>), !.end = "eof"]
Forced == [Base EXCEPT !.calls = <<Do("open"), Do("forceClose")>>, !.remote = Answer(<<>>)]
OpenClosing == [Base EXCEPT !.onOpen = <<Do("close")>>, !.remote = Answer(<<>>)]

\* Connections that fail: no address, bad ones, a bad URL, a silent peer, a late
\* timeout, a bad answer, a reset, pings without answer.
NoAddress == [Base EXCEPT !.addresses = <<>>]
BadAddresses == [Base EXCEPT !.addresses = <<"fails", "hangs">>]
BadUrl == [Base EXCEPT !.url = "invalid"]
Silent == [Base EXCEPT !.timeouts = {"connect"}]
Late == [Base EXCEPT !.remote = Answer(<<>>), !.timeouts = {"connect"}]
BadAnswer == [Base EXCEPT !.remote = <<Segment(Line("GET"), Lines(<<"403">>))>>]
Resets == [Base EXCEPT !.remote = Answer(<<>>), !.onOpen = <<Say(Hi)>>, !.end = "reset"]
Idle == [Base EXCEPT !.remote = Answer(<<>>), !.idle = 2, !.maxPings = 1]

\* A socket that is full, with a send by the application and by the open callback.
Stalls == [Base EXCEPT !.calls = <<Do("open"), Say(Hi), Say(Hi)>>, !.onOpen = <<Say(Text(<<2, 3>>))>>,
                       !.remote = Answer(<<>>), !.stalls = 2]
SendsLate == [Stalls EXCEPT !.onOpen = <<>>, !.end = "eof", !.stalls = 0]
ResetLate == [Stalls EXCEPT !.onOpen = <<>>, !.end = "reset", !.stalls = 1,
                            !.remote =
                Answer(<<>>) \o <<Segment(<<"key", Key>>, Cells(Frame("pong", TRUE, <<>>), FALSE))>>]

\* Through a proxy; over TLS, which the peer ends, but for one that just goes.
Proxied == [Base EXCEPT !.proxy = TRUE, !.remote = <<Segment(Line("CONNECT"), Lines(<<"200">>))>> \o Answer(<<Hi>>),
                        !.said = HiSaid, !.end = "eof"]
Refused == [Proxied EXCEPT !.said = <<>>,
               !.remote = <<Segment(Line("CONNECT"), Lines(<<"403">>)), Segment(Anytime, Lines(<<"403">>))>>]
ForcedProxy == [Forced EXCEPT !.proxy = TRUE, !.remote = <<Segment(Line("CONNECT"), Lines(<<"200">>))>>]
ForcedTls == [Forced EXCEPT !.url = "wss", !.remote = <<Segment(Hello[1], Hello)>>]
Secure(backend) ==
    [Base EXCEPT !.url = "wss", !.backend = backend, !.said = HiSaid,
                 !.remote = <<Segment(Hello[1], Hello)>> \o Answer(<<Hi>>) \o <<Segment(Anytime, Bye)>>]
Gone == [Secure("GnuTLS") EXCEPT !.remote = SubSeq(@, 1, 2), !.end = "eof"]

\* Servers: plain with a bad or a good request, secure.
Serves == [Base EXCEPT !.role = "server", !.calls = <<Do("stopServer")>>, !.onOpen = <<Say(Hi)>>,
                       !.remote = Request(<<Hi>>), !.said = HiSaid, !.end = "eof"]
BadRequest == [Serves EXCEPT !.remote = <<Segment(Anytime, Lines(<<"GET", "host">>))>>, !.said = <<>>]
ServesTls == [Serves EXCEPT !.url = "wss", !.backend = "MbedTLS", !.calls = <<>>, !.onOpen = <<>>, !.end = "open",
                            !.remote = <<Segment(Anytime, Hello)>> \o Request(<<Hi>>) \o <<Segment(Anytime, Bye)>>]

MCPlans ==
    {Reading, PeerClosing, AppClosing, Forced, OpenClosing, NoAddress, BadAddresses, BadUrl, Silent, Late,
     BadAnswer, Resets, Idle, Stalls, SendsLate, ResetLate, Proxied, Refused, ForcedProxy,
     ForcedTls, Gone, Serves, BadRequest, ServesTls}
    \cup {Secure(backend) : backend \in {"GnuTLS", "MbedTLS", "OpenSSL"}}
=============================================================================
