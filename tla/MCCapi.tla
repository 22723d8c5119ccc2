------------------------------- MODULE MCCapi -------------------------------
(* Plans for Capi: what two threads of an application, its callbacks and   *)
(* the network do.                                                         *)
EXTENDS Capi

MCKindOf == [o \in Objects |-> CASE o \in {"out", "in"} -> "dc" [] o = "client" -> "ws" [] OTHER -> o]
MCOwner == [o \in Objects |-> CASE o \in {"out", "in", "track"} -> "pc"
                                [] o = "client" -> "server" [] OTHER -> o]

Call(do, o) == [do |-> do, o |-> o, ev |-> None, x |-> None]
On(o, ev) == [do |-> "set", o |-> o, ev |-> ev, x |-> "app"]
Off(o, ev) == [do |-> "unset", o |-> o, ev |-> ev, x |-> None]
Make(o, x) == [do |-> "create", o |-> o, ev |-> None, x |-> x]
Read(o, buffer, size) == [do |-> "receive", o |-> o, ev |-> None, x |-> [buffer |-> buffer, size |-> size]]
Do(do, o, x) == [do |-> do, o |-> o, ev |-> None, x |-> x]

Reliable == [unordered |-> FALSE, unreliable |-> FALSE, maxPacketLifeTime |-> 0, maxRetransmits |-> 0]
Plan(one, two, acts, body) == [calls |-> ("app1" :> one) @@ ("app2" :> two), net |-> acts, body |-> body]
Nothing == <<"none", "none">> :> <<>>

\* A channel that the application creates, reads by callback, and deletes while
\* the peer closes it, and again in its closed callback.
OutPlan == Plan(<<Make("pc", None), Make("out", Reliable), On("out", "message"), On("out", "closed"),
                  Call("delete", "out")>>,
                <<Do("pointer", "pc", "mine")>>,
                <<<<"up", "pc", None>>, <<"up", "out", None>>, <<"data", "out", "m1">>,
                  <<"data", "out", "m2">>, <<"reset", "out", None>>>>,
                <<"out", "closed">> :> <<Call("delete", "out")>>)

\* A channel that the peer opens, and what its announcement registers; the
\* connection may be deleted while it is announced.
Told == (<<"in", "announce">> :> <<On("in", "message"), On("in", "closed")>>)
        @@ (<<"in", "closed">> :> <<Call("delete", "in")>>)
InPlan(two, data, told) ==
    Plan(<<Make("pc", None), On("pc", "announce")>>, two,
         <<<<"up", "pc", None>>, <<"OPEN", "in", Reliable>>>> \o data, told)
InPlans == {InPlan(<<>>, <<<<"data", "in", "m1">>, <<"data", "in", "m2">>, <<"reset", "in", None>>>>, Told),
            InPlan(<<>>, <<<<"data", "in", "m1">>>>, Told),
            InPlan(<<Call("delete", "pc")>>, <<>>, Nothing)}

\* Every reliability an rtcDataChannelInit may ask for.
OpenPlan(i) == Plan(<<Make("pc", None), On("pc", "announce")>>, <<>>,
                    <<<<"up", "pc", None>>, <<"OPEN", "in", i>>>>, Nothing)

\* A channel that is polled, with size queries, on the available callback.
PollPlan == Plan(<<Make("pc", None), Make("out", Reliable), On("out", "available"),
                   Call("delete", "out")>>,
                 <<On("pc", "state"), Off("pc", "signaling")>>,
                 <<<<"up", "pc", None>>, <<"up", "out", None>>, <<"data", "out", "m1">>, <<"data", "out", "m2">>>>,
                 <<"out", "available">> :> <<Read("out", FALSE, 0), Read("out", TRUE, 1), Read("out", TRUE, 2),
                                              Read("out", TRUE, 2)>>)

\* A track with a packetizer, and a cleanup when what is left has no callbacks.
TrackPlan == Plan(<<Make("pc", None), Make("track", [codec |-> "none", mid |-> ""]),
                    Make("track", [codec |-> "H264", mid |-> ""]),
                    Do("chain", "track", "sr"), Do("packetize", "track", None),
                    Do("chain", "track", "sr"), Do("chain", "track", "nack"),
                    Call("delete", "track"), Call("cleanup", "pc")>>,
                  <<Read("track", TRUE, 2)>>,
                  <<<<"up", "track", None>>, <<"data", "track", "m1">>, <<"data", "track", "m2">>>>,
                  Nothing)

\* A WebSocket server, whose clients are announced on its thread, and deleted by
\* rtcDeleteWebSocket() or rtcDelete() in a callback.
ServerPlan(how, ev) ==
    Plan(<<Make("server", None), Call("delete", "server")>>,
         <<Call("close", "client")>>,
         <<<<"client", "client", None>>, <<"up", "client", None>>, <<"data", "client", "m1">>>>,
         (<<"client", "announce">> :> <<On("client", "message"), On("client", "closed")>>)
         @@ (<<"client", ev>> :> <<Do("delete", "client", how)>>))

MCPlans == {OutPlan, PollPlan, TrackPlan, ServerPlan("forced", "message"), ServerPlan("closed", "closed")}
           \cup InPlans \cup {OpenPlan(i) : i \in Inits}

\* A channel with a callback is left to rtcCleanup().
CleanupPlans == {Plan(<<Make("pc", None), Make("out", Reliable), On("out", "closed"), Call("cleanup", "pc")>>,
                      <<>>, <<>>, Nothing)}
=============================================================================
