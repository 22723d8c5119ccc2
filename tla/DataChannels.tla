---------------------------- MODULE DataChannels ----------------------------
(***************************************************************************)
(* Data channels of two connected peers: the in-band negotiation (OPEN and *)
(* ACK of RFC 8832), the assignment of streams, and closing by stream      *)
(* reset.  Models impl::DataChannel with its two subclasses                *)
(* (src/src/impl/datachannel.cpp) and the part of impl::PeerConnection     *)
(* that owns them (src/src/impl/peerconnection.cpp:421-711).               *)
(*                                                                         *)
(* Each handler is one step, except that createDataChannel() and the       *)
(* Connected callback take and release mDataChannelsMutex several times.   *)
(* The SCTP association is modelled from its use: each stream carries      *)
(* ordered messages in order, an unordered message may overtake others,    *)
(* and a reset waits for what precedes it and holds back what follows.     *)
(***************************************************************************)
EXTENDS Integers, SequencesExt, FiniteSetsExt, FiniteSets

CONSTANTS
    Peers, Active,          \* the two peers, and the one in the DTLS client role
    Outgoing,               \* channels the applications may create
    Scenarios,              \* the sets of them that one behaviour may create
    Incoming,               \* objects for the channels that remote OPENs create
    PeerOf,                 \* the peer each channel object belongs to
    Unordered,              \* outgoing channels created with unordered delivery
    MaxStream,              \* highest negotiated stream
    Talkers,                \* channels on which data is sent
    MaxData,                \* bound on the data messages sent on each of them
    Droppable,              \* channels whose last reference may be dropped
    MayOverlapConnect       \* createDataChannel may overlap the Connected callback

Channels == Outgoing \cup Incoming
Streams == 0..MaxStream
Unassigned == -1

ASSUME ChannelAssumption ==
    /\ Active \in Peers /\ IsFiniteSet(Peers) /\ Cardinality(Peers) = 2
    /\ Outgoing \cap Incoming = {} /\ Scenarios \subseteq SUBSET Outgoing
    /\ PeerOf \in [Channels -> Peers]
    /\ Unordered \subseteq Outgoing
    /\ MaxStream \in Nat /\ MaxData \in Nat
    /\ Talkers \cup Droppable \subseteq Channels
    /\ MayOverlapConnect \in BOOLEAN

VARIABLES
    sctp,                   \* per peer: "connecting", then mState is Connected
                            \* ("up"), then the state callback has run ("ready")
    opening,                \* openDataChannels is enqueued on mProcessor
    mDataChannels,          \* per peer: weak references by stream, as pairs
    mUnassigned,            \* per peer: mUnassignedDataChannels
    life,                   \* of each object: "new", "created", "assigned" (both
                            \* inside createDataChannel), "held" or "gone"
    mStream, mIsOpen, mIsClosed,
    mReliable,              \* the channel is ordered (mReliability)
    transport,              \* mSctpTransport is set
    origin,                 \* of an incoming channel: the channel whose OPEN made it
    received,               \* data received, as the channels it was sent on
    sent,                   \* data messages sent on each channel
    net                     \* messages in flight from a peer on a stream

chan == <<mStream, mIsOpen, mIsClosed, mReliable, transport, origin,
          received, sent>>
vars == <<sctp, opening, mDataChannels, mUnassigned, life, chan, net>>

Message == [type : {"open", "ack", "data", "reset"}, from : Channels \cup Peers, ordered : BOOLEAN]

TypeOK ==
    /\ sctp \in [Peers -> {"connecting", "up", "ready"}]
    /\ opening \in [Peers -> BOOLEAN]
    /\ mDataChannels \in [Peers -> SUBSET (Streams \X Channels)]
    /\ \A p \in Peers : \A e, f \in mDataChannels[p] : e[1] = f[1] => e = f
    /\ mUnassigned \in [Peers -> Seq(Outgoing)]
    /\ life \in [Channels -> {"new", "created", "assigned", "held", "gone"}]
    /\ mStream \in [Channels -> Streams \cup {Unassigned}]
    /\ {mIsOpen, mIsClosed, mReliable, transport} \subseteq [Channels -> BOOLEAN]
    /\ origin \in [Incoming -> SUBSET Outgoing]
    /\ sent \in [Channels -> Nat]
    /\ received \in [Channels -> Seq(Channels)]
    /\ net \in [Peers \X Streams -> Seq(Message)]

Init ==
    /\ sctp = [p \in Peers |-> "connecting"]
    /\ opening = [p \in Peers |-> FALSE]
    /\ mDataChannels = [p \in Peers |-> {}]
    /\ mUnassigned = [p \in Peers |-> <<>>]
    /\ \E created \in Scenarios :
          life = [c \in Channels |-> IF c \in created \cup Incoming THEN "new" ELSE "gone"]
    /\ mStream = [c \in Channels |-> Unassigned]
    /\ mIsOpen = [c \in Channels |-> FALSE]
    /\ mIsClosed = [c \in Channels |-> FALSE]
    /\ mReliable = [c \in Channels |-> c \notin Unordered]
    /\ transport = [c \in Channels |-> FALSE]
    /\ origin = [c \in Incoming |-> {}]
    /\ received = [c \in Channels |-> <<>>]
    /\ sent = [c \in Channels |-> 0]
    /\ net = [l \in Peers \X Streams |-> <<>>]

-----------------------------------------------------------------------------
Other(p) == CHOOSE q \in Peers : q # p
Alive(c) == life[c] \notin {"new", "gone"}
ChannelsAt(p, s) == {c \in Channels : <<s, c>> \in mDataChannels[p]}

\* findDataChannel: the live channel of the stream, as a set of at most one.
Found(p, s) == {c \in ChannelsAt(p, s) : Alive(c)}

Msg(t, c, o) == [type |-> t, from |-> c, ordered |-> o]
Post(n, p, s, m) == [n EXCEPT ![<<p, s>>] = Append(@, m)]

\* closeStream: a reset of the stream goes out (SctpSend models its way).
PostReset(n, p, s) == Post(n, p, s, Msg("reset", p, TRUE))

FirstStream_Same(p) == 0

\* The DTLS client uses even streams, the server odd ones.
FirstStream(p) == IF p = Active THEN 0 ELSE 1

\* The streams of the right parity that have no entry, or one that expired.
FreeStreams(p, map) ==
    {s \in Streams : s % 2 = FirstStream(p) /\ \A e \in map : e[1] = s => ~Alive(e[2])}

AssignOne_First(p, acc, c) ==
    IF acc.thrown \/ ~Alive(c) THEN acc
    ELSE IF acc.stream[c] # Unassigned
         THEN [acc EXCEPT !.thrown = TRUE]
         ELSE LET s == FirstStream(p) IN
              [acc EXCEPT !.stream[c] = s, !.map = @ \cup {<<s, c>>}]

\* The body of the loop of assignDataChannels for one channel.  emplace() does
\* not replace the expired entry of a stream.
AssignOne(p, acc, c) ==
    IF acc.thrown \/ ~Alive(c) THEN acc
    ELSE LET free == FreeStreams(p, acc.map) IN
         IF free = {} \/ acc.stream[c] # Unassigned
         THEN [acc EXCEPT !.thrown = TRUE]
         ELSE LET s == Min(free) IN
              [map |-> IF \E e \in acc.map : e[1] = s THEN acc.map ELSE acc.map \cup {<<s, c>>},
               stream |-> [acc.stream EXCEPT ![c] = s],
               thrown |-> FALSE]

\* assignDataChannels: when it throws, the channels it has served stay in
\* mUnassignedDataChannels.
Assignment(p) ==
    LET acc[n \in 0..Len(mUnassigned[p])] ==
            IF n = 0 THEN [map |-> mDataChannels[p], stream |-> mStream, thrown |-> FALSE]
            ELSE AssignOne(p, acc[n - 1], mUnassigned[p][n])
    IN acc[Len(mUnassigned[p])]

AssignDataChannels(p) ==
    LET end == Assignment(p) IN
    /\ mDataChannels' = [mDataChannels EXCEPT ![p] = end.map]
    /\ mStream' = end.stream
    /\ mUnassigned' = IF end.thrown THEN mUnassigned ELSE [mUnassigned EXCEPT ![p] = <<>>]

\* OutgoingDataChannel::open of some channels: each sends its OPEN.
OpenAll(p, cs) ==
    /\ net' = [l \in Peers \X Streams |->
                  net[l] \o SetToSeq({Msg("open", c, TRUE) : c \in {d \in cs : l = <<p, mStream[d]>>}})]
    /\ transport' = [c \in Channels |-> transport[c] \/ c \in cs]

\* emplaceDataChannel, under the lock: expired entries are erased, and the new
\* channel waits for a stream.
CreateChannel(c) ==
    LET p == PeerOf[c] IN
    /\ c \in Outgoing
    /\ life[c] = "new"
    /\ sctp[p] = "up" \/ opening[p] => MayOverlapConnect
    /\ life' = [life EXCEPT ![c] = "created"]
    /\ mDataChannels' = [mDataChannels EXCEPT ![p] = {e \in @ : Alive(e[2])}]
    /\ mUnassigned' = [mUnassigned EXCEPT ![p] = Append(@, c)]
    /\ UNCHANGED <<sctp, opening, chan, net>>

\* emplaceDataChannel, when SCTP is not connected: nothing more to do; otherwise
\* streams are assigned now.  If that throws, the application gets no channel.
CreateAssign(c) ==
    LET p == PeerOf[c] IN
    /\ life[c] = "created"
    /\ \/ /\ sctp[p] = "connecting"
          /\ life' = [life EXCEPT ![c] = "held"]
          /\ UNCHANGED <<mDataChannels, mUnassigned, mStream, mIsClosed>>
       \/ /\ sctp[p] # "connecting"
          /\ AssignDataChannels(p)
          /\ life' = [life EXCEPT ![c] = IF Assignment(p).thrown THEN "gone" ELSE "assigned"]
          /\ mIsClosed' = [mIsClosed EXCEPT ![c] = @ \/ Assignment(p).thrown]
    /\ UNCHANGED <<sctp, opening, mIsOpen, mReliable, transport, origin,
                   received, sent, net>>

CreateOpen(c) ==
    /\ life[c] = "assigned"
    /\ life' = [life EXCEPT ![c] = "held"]
    /\ OpenAll(PeerOf[c], {c})
    /\ UNCHANGED <<sctp, opening, mDataChannels, mUnassigned, mStream, mIsOpen, mIsClosed,
                   mReliable, origin, received, sent>>

\* The association comes up: the transport's state is Connected ...
SctpUp(p) ==
    /\ sctp[p] = "connecting"
    /\ (\E c \in Outgoing : PeerOf[c] = p /\ life[c] = "created") => MayOverlapConnect
    /\ sctp' = [sctp EXCEPT ![p] = "up"]
    /\ UNCHANGED <<opening, mDataChannels, mUnassigned, life, chan, net>>

SctpConnected_NoOpen(p) ==
    /\ sctp[p] = "up"
    /\ sctp' = [sctp EXCEPT ![p] = "ready"]
    /\ AssignDataChannels(p)
    /\ UNCHANGED <<opening, life, mIsOpen, mIsClosed, mReliable, transport, origin,
                   received, sent, net>>

\* ... and its callback assigns streams and enqueues openDataChannels, unless
\* the assignment throws.
SctpConnected(p) ==
    /\ sctp[p] = "up"
    /\ sctp' = [sctp EXCEPT ![p] = "ready"]
    /\ AssignDataChannels(p)
    /\ opening' = [opening EXCEPT ![p] = ~Assignment(p).thrown]
    /\ UNCHANGED <<life, mIsOpen, mIsClosed, mReliable, transport, origin,
                   received, sent, net>>

\* openDataChannels on the processor: every channel that is not open, or closed,
\* is opened; open() of an incoming channel does nothing.
OpenDataChannels(p) ==
    /\ opening[p]
    /\ opening' = [opening EXCEPT ![p] = FALSE]
    /\ OpenAll(p, {c \in Outgoing : /\ c \in UNION {Found(p, s) : s \in Streams}
                                    /\ ~mIsOpen[c] /\ ~mIsClosed[c]})
    /\ UNCHANGED <<sctp, mDataChannels, mUnassigned, life, mStream, mIsOpen, mIsClosed,
                   mReliable, origin, received, sent>>

SendData_Unordered(c) ==
    /\ c \in Talkers
    /\ life[c] = "held"
    /\ transport[c] /\ ~mIsClosed[c]
    /\ sent[c] < MaxData
    /\ sent' = [sent EXCEPT ![c] = @ + 1]
    /\ net' = Post(net, PeerOf[c], mStream[c], Msg("data", c, mReliable[c]))
    /\ UNCHANGED <<sctp, opening, mDataChannels, mUnassigned, life, mStream, mIsOpen, mIsClosed,
                   mReliable, transport, origin, received>>

\* DataChannel::outgoing: before the ACK, messages are sent ordered.
SendData(c) ==
    /\ c \in Talkers
    /\ life[c] = "held"
    /\ transport[c] /\ ~mIsClosed[c]
    /\ sent[c] < MaxData
    /\ sent' = [sent EXCEPT ![c] = @ + 1]
    /\ net' = Post(net, PeerOf[c], mStream[c], Msg("data", c, mReliable[c] \/ ~mIsOpen[c]))
    /\ UNCHANGED <<sctp, opening, mDataChannels, mUnassigned, life, mStream, mIsOpen, mIsClosed,
                   mReliable, transport, origin, received>>

\* DataChannel::close: an open channel with a transport resets its stream.
Closing(c, n) ==
    IF mIsOpen[c] /\ transport[c] THEN PostReset(n, PeerOf[c], mStream[c]) ELSE n

Close_NoReset(c) ==
    /\ life[c] = "held"
    /\ ~mIsClosed[c]
    /\ mIsOpen' = [mIsOpen EXCEPT ![c] = FALSE]
    /\ mIsClosed' = [mIsClosed EXCEPT ![c] = TRUE]
    /\ UNCHANGED <<sctp, opening, mDataChannels, mUnassigned, life, mStream, mReliable, transport,
                   origin, received, sent, net>>

\* The application closes a channel, or drops it, which closes it.
Close(c) ==
    /\ life[c] = "held"
    /\ \/ ~mIsClosed[c] /\ UNCHANGED life
       \/ c \in Droppable /\ life' = [life EXCEPT ![c] = "gone"]
    /\ net' = Closing(c, net)
    /\ mIsOpen' = [mIsOpen EXCEPT ![c] = FALSE]
    /\ mIsClosed' = [mIsClosed EXCEPT ![c] = TRUE]
    /\ UNCHANGED <<sctp, opening, mDataChannels, mUnassigned, mStream, mReliable, transport,
                   origin, received, sent>>

-----------------------------------------------------------------------------
\* The messages in flight on a stream that may be received next: the first, or
\* an unordered one that no reset precedes.
Deliverable(l) ==
    {i \in 1..Len(net[l]) : \/ i = 1
                            \/ /\ ~net[l][i].ordered
                               /\ \A j \in 1..i : net[l][j].type # "reset"}

\* An OPEN of the wrong parity.  None is received from a peer that runs this code.
WrongParity(q, s) == s % 2 # FirstStream(Other(q))

\* forwardMessage of an OPEN: the stream is closed if the parity is wrong;
\* otherwise an open channel of the stream is closed first, and a new incoming
\* channel is created, which replaces no entry of the map; it answers with an
\* ACK and is open.
ReceiveOpen(q, s, m, rest) ==
    IF WrongParity(q, s)
    THEN /\ net' = PostReset(rest, q, s)
         /\ UNCHANGED <<mDataChannels, life, chan>>
    ELSE LET old == {c \in Found(q, s) : mIsOpen[c]}
             closed == IF old = {} THEN rest ELSE PostReset(rest, q, s)
         IN \E new \in Incoming :
                /\ PeerOf[new] = q
                /\ life[new] = "new"
                /\ life' = [life EXCEPT ![new] = "held"]
                /\ mStream' = [mStream EXCEPT ![new] = s]
                /\ mReliable' = [mReliable EXCEPT ![new] = mReliable[m.from]]
                /\ transport' = [transport EXCEPT ![new] = TRUE]
                /\ origin' = [origin EXCEPT ![new] = {m.from}]
                /\ mIsOpen' = [c \in Channels |-> c = new \/ (mIsOpen[c] /\ c \notin old)]
                /\ mIsClosed' = [c \in Channels |-> mIsClosed[c] \/ c \in old]
                /\ mDataChannels' = IF ChannelsAt(q, s) # {} THEN mDataChannels
                                    ELSE [mDataChannels EXCEPT ![q] = @ \cup {<<s, new>>}]
                /\ net' = Post(closed, q, s, Msg("ack", new, TRUE))
                /\ UNCHANGED <<received, sent>>

\* forwardMessage of another message without a channel: a reset is ignored,
\* anything else has the stream closed.
ReceiveUnexpected(q, s, m, rest) ==
    /\ Found(q, s) = {}
    /\ net' = IF m.type = "reset" THEN rest ELSE PostReset(rest, q, s)
    /\ UNCHANGED <<mDataChannels, life, chan>>

\* DataChannel::incoming of an ACK, of a reset, of data; a closed channel
\* ignores them.
ReceiveAck(c) ==
    /\ mIsOpen' = [mIsOpen EXCEPT ![c] = TRUE]
    /\ UNCHANGED <<mIsClosed, received>>

ReceiveReset(c) ==
    /\ mIsOpen' = [mIsOpen EXCEPT ![c] = FALSE]
    /\ mIsClosed' = [mIsClosed EXCEPT ![c] = TRUE]
    /\ UNCHANGED <<received>>

ReceiveData(c, m) ==
    /\ received' = [received EXCEPT ![c] = Append(@, m.from)]
    /\ UNCHANGED <<mIsOpen, mIsClosed>>

ReceiveOther(q, s, m, rest) ==
    /\ net' = rest
    /\ \E c \in Found(q, s) :
          \/ mIsClosed[c] /\ UNCHANGED <<mIsOpen, mIsClosed, received>>
          \/ ~mIsClosed[c] /\ m.type = "ack" /\ ReceiveAck(c)
          \/ ~mIsClosed[c] /\ m.type = "reset" /\ ReceiveReset(c)
          \/ ~mIsClosed[c] /\ m.type = "data" /\ ReceiveData(c, m)
    /\ UNCHANGED <<mDataChannels, life, mStream, mReliable, transport, origin, sent>>

\* A message reaches peer q, whose state callback has run.
Receive(q, s) ==
    LET l == <<Other(q), s>> IN
    /\ sctp[q] = "ready"
    /\ \E i \in Deliverable(l) :
          LET m == net[l][i]
              rest == [net EXCEPT ![l] = RemoveAt(@, i)]
          IN \/ m.type = "open" /\ ReceiveOpen(q, s, m, rest)
             \/ m.type # "open" /\ ReceiveUnexpected(q, s, m, rest)
             \/ m.type # "open" /\ ReceiveOther(q, s, m, rest)
    /\ UNCHANGED <<sctp, opening, mUnassigned>>

\* The steps of the library at peer p, and those of its application.
Library(p) ==
    \/ \E c \in Outgoing : PeerOf[c] = p /\ (CreateAssign(c) \/ CreateOpen(c))
    \/ SctpUp(p)
    \/ SctpConnected(p)
    \/ OpenDataChannels(p)
    \/ \E s \in Streams : Receive(p, s)

Application == \E c \in Channels : CreateChannel(c) \/ SendData(c) \/ Close(c)

Next == Application \/ \E p \in Peers : Library(p)

\* The threads of the library go on and the association delivers.  The steps of
\* the library are finitely many, so that none of them is put off for ever.
Fairness == \A p \in Peers : WF_vars(Library(p))

Spec == Init /\ [][Next]_vars /\ Fairness

-----------------------------------------------------------------------------
\* The channel at the other end of an outgoing channel, if it exists.
Counterparts(c) == {d \in Incoming : c \in origin[d]}

\* What is sent on a channel is received by its counterpart alone.
NoCrossTalk ==
    \A d \in Channels : \A i \in 1..Len(received[d]) :
        LET c == received[d][i] IN
        \/ d \in Incoming /\ c \in origin[d]
        \/ c \in Incoming /\ d \in origin[c]

\* "Before the ACK has been received on a DataChannel, all messages must be sent
\* ordered" (datachannel.cpp:189): data never overtakes the OPEN of its channel,
\* which would have the peer close the stream.
NoDataBeforeOpen ==
    \A q \in Peers, s \in Streams : sctp[q] = "ready" =>
        \A i \in Deliverable(<<Other(q), s>>) :
            LET m == net[<<Other(q), s>>][i] IN
            m.type = "data" /\ m.from \in Outgoing => Counterparts(m.from) # {}

\* A channel created by the application opens, at both ends, or is closed.
EventuallyOpen ==
    \A c \in Outgoing : (life[c] = "held") ~>
        \/ mIsClosed[c]
        \/ mIsOpen[c] /\ \E d \in Counterparts(c) : mIsOpen[d] \/ mIsClosed[d]

\* Closing an open channel at either end closes the other end.
CloseConverges ==
    \A c \in Outgoing : (mIsOpen[c] /\ Counterparts(c) # {}) ~>
        ((mIsClosed[c] \/ \E d \in Counterparts(c) : mIsClosed[d]) =>
            (mIsClosed[c] /\ \A d \in Counterparts(c) : mIsClosed[d]))

\* What is in flight and what was received belongs to the right channel.
ChannelInv == TypeOK /\ NoCrossTalk /\ NoDataBeforeOpen
=============================================================================
