------------------------- MODULE DataChannels_proofs -------------------------
(***************************************************************************)
(* Proofs about DataChannels, for any channels, streams and scenarios,     *)
(* whenever channels are created: what is sent on a channel is received by *)
(* its counterpart alone, and no data overtakes the OPEN of its channel.   *)
(* The application is assumed to leave a stream to every channel, and not  *)
(* to create channels beside one that it drops.                            *)
(***************************************************************************)
EXTENDS DataChannels, SequenceTheorems, FunctionTheorems, WellFoundedInduction,
        FiniteSetTheorems, TLAPS

\* A channel that may be dropped is the only one its peer creates: the stream of a
\* dropped channel is assigned again while its counterpart may still send on it.
DropsAlone ==
    \A created \in Scenarios : \A c \in created \cap Droppable, d \in created :
        PeerOf[c] = PeerOf[d] => c = d

\* There is a stream for every channel, so that no assignment throws.
ParityStreams(p) == {s \in Streams : s % 2 = FirstStream(p)}

EnoughStreams ==
    \A created \in Scenarios :
        /\ IsFiniteSet(created)
        /\ \A p \in Peers :
              Cardinality({c \in created : PeerOf[c] = p}) <= Cardinality(ParityStreams(p))

\* An object that does not exist yet, or that this behaviour does not create.
Dormant(c) == life[c] = "new" \/ (life[c] = "gone" /\ ~mIsClosed[c])

\* What exists belongs to one scenario, and what is gone was dropped.
Lives ==
    /\ \E created \in Scenarios :
           \A c \in Outgoing : life[c] # "gone" \/ mIsClosed[c] => c \in created
    /\ \A c \in Outgoing : life[c] = "gone" /\ mIsClosed[c] => c \in Droppable
    /\ \A d \in Incoming : life[d] \in {"new", "held", "gone"}
    /\ \A c \in Outgoing : life[c] = "assigned" => mStream[c] # Unassigned

\* The side that created a channel shows in the parity of its stream.
Parities ==
    /\ \A c \in Outgoing : mStream[c] # Unassigned => mStream[c] % 2 = FirstStream(PeerOf[c])
    /\ \A d \in Incoming :
           mStream[d] # Unassigned => mStream[d] % 2 = FirstStream(Other(PeerOf[d]))

\* Only what exists has a stream, and only what has a stream has the association.
Bound ==
    /\ \A c \in Channels : Dormant(c) => mStream[c] = Unassigned
    /\ \A c \in Channels : transport[c] => mStream[c] # Unassigned

\* The map leads to channels of the peer by their streams, and to every outgoing one.
Mapped ==
    /\ \A p \in Peers : \A e \in mDataChannels[p] :
           PeerOf[e[2]] = p /\ mStream[e[2]] = e[1]
    /\ \A c \in Outgoing : Alive(c) /\ mStream[c] # Unassigned =>
           <<mStream[c], c>> \in mDataChannels[PeerOf[c]]

\* mUnassignedDataChannels has each channel once, without a stream: c is at place i.
WaitsAt(p, i, c) ==
    /\ PeerOf[c] = p /\ life[c] # "new" /\ (Alive(c) => mStream[c] = Unassigned)
    /\ \A j \in 1..Len(mUnassigned[p]) : mUnassigned[p][j] = c => i = j

Waiting ==
    /\ \A p \in Peers : \A i \in 1..Len(mUnassigned[p]) : WaitsAt(p, i, mUnassigned[p][i])
    /\ \A c \in Outgoing : life[c] = "created" /\ mStream[c] = Unassigned =>
           \E i \in 1..Len(mUnassigned[PeerOf[c]]) : mUnassigned[PeerOf[c]][i] = c

\* A message is in flight from the channel that sent it, on its stream.
SentFrom(m, p, s, stream, associated) ==
    IF m.type = "reset" THEN m.ordered
    ELSE /\ m.from \in Channels /\ PeerOf[m.from] = p /\ stream[m.from] = s
         /\ associated[m.from]
         /\ m.type = "open" => m.from \in Outgoing /\ m.ordered
         /\ m.type = "ack" => m.from \in Incoming /\ m.ordered

Flies(n, stream, associated) ==
    \A p \in Peers, s \in Streams : \A i \in 1..Len(n[<<p, s>>]) :
        SentFrom(n[<<p, s>>][i], p, s, stream, associated)

InFlight == Flies(net, mStream, transport)

\* The counterpart of an outgoing channel is of the other peer, and has its stream.
Origins ==
    \A d \in Incoming :
        IF mStream[d] = Unassigned THEN origin[d] = {}
        ELSE \E c \in Outgoing : /\ origin[d] = {c}
                                 /\ PeerOf[c] = Other(PeerOf[d])
                                 /\ mStream[c] = mStream[d]

\* Until a channel has a counterpart its OPEN is in flight, and its data behind.
OpenFirst(c, s) ==
    \E k \in 1..Len(s) :
        /\ s[k].type = "open" /\ s[k].from = c
        /\ \A i \in 1..Len(s) : s[i].type = "data" /\ s[i].from = c => k < i /\ s[i].ordered

Opens ==
    \A c \in Outgoing : Counterparts(c) = {} =>
        /\ ~mIsOpen[c]
        /\ transport[c] => OpenFirst(c, net[<<PeerOf[c], mStream[c]>>])

\* The inductive invariant.
Inv ==
    /\ TypeOK /\ Lives /\ Parities /\ Bound /\ Mapped /\ Waiting
    /\ InFlight /\ Origins /\ Opens /\ NoCrossTalk
-----------------------------------------------------------------------------
\* A set of natural numbers has a least element.
LEMMA Least ==
    ASSUME NEW S \in SUBSET Nat, S # {}
    PROVE  \E x \in S : \A y \in S : x <= y
  <1> DEFINE R == {ss \in Nat \X Nat : ss[1] < ss[2]}
  <1>1. IsWellFoundedOn(R, Nat)
    BY NatLessThanWellFounded DEF OpToRel
  <1>2. \E x \in S : \A y \in S : <<y, x>> \notin R
    <2> HIDE DEF R
    <2> QED
      BY <1>1, WFMin
  <1>3. \A x, y \in S : <<y, x>> \notin R => x <= y
    OBVIOUS
  <1> QED
    BY <1>2, <1>3

\* What holds at 0 and is passed on up to N holds up to N.
LEMMA Climb ==
    ASSUME NEW N \in Nat, NEW G, 0 \in G, \A n \in 0..N - 1 : n \in G => n + 1 \in G
    PROVE  \A n \in 0..N : n \in G
  <1> DEFINE Out == {n \in 0..N : n \notin G}
  <1> SUFFICES ASSUME Out # {}
               PROVE  FALSE
    OBVIOUS
  <1>1. PICK x \in Out : \A y \in Out : x <= y
    <2>1. Out \in SUBSET Nat
      OBVIOUS
    <2> HIDE DEF Out
    <2> QED
      BY <2>1, Least
  <1>2. x - 1 \in 0..N - 1 /\ x - 1 \in G
    BY <1>1
  <1> QED
    BY <1>1, <1>2

\* A finite sequence of values, each a function of the one before, exists.
\* The sequences of a set of at most one element.
LEMMA OneToSeq ==
    /\ SetToSeq({}) = <<>>
    /\ \A x : SetToSeq({x}) = <<x>>
  <1>1. SetToSeq({}) = <<>>
    <2>1. Cardinality({}) = 0
      BY FS_EmptySet
    <2>2. <<>> \in [1..0 -> {}] /\ IsInjective(<<>>)
      BY DEF IsInjective
    <2>3. \A f \in [1..0 -> {}] : f = <<>>
      OBVIOUS
    <2> QED
      BY <2>1, <2>2, <2>3 DEF SetToSeq
  <1>2. ASSUME NEW x PROVE SetToSeq({x}) = <<x>>
    <2>1. Cardinality({x}) = 1
      BY FS_Singleton
    <2>2. <<x>> \in [1..1 -> {x}] /\ IsInjective(<<x>>)
      BY DEF IsInjective
    <2>3. \A f \in [1..1 -> {x}] : f = <<x>>
      OBVIOUS
    <2> QED
      BY <2>1, <2>2, <2>3 DEF SetToSeq
  <1> QED
    BY <1>1, <1>2

\* What is left of a sequence from which an element was taken.
LEMMA RemoveAtProperties ==
    ASSUME NEW S, NEW s \in Seq(S), NEW i \in 1..Len(s)
    PROVE  /\ RemoveAt(s, i) \in Seq(S)
           /\ Len(RemoveAt(s, i)) = Len(s) - 1
           /\ \A j \in 1..Len(s) - 1 : RemoveAt(s, i)[j] = IF j < i THEN s[j] ELSE s[j + 1]
  <1> DEFINE a == SubSeq(s, 1, i - 1)
             b == SubSeq(s, i + 1, Len(s))
  <1>0. Len(s) \in Nat /\ \A j \in 1..Len(s) : s[j] \in S
    BY ElementOfSeq, LenProperties
  <1>1. /\ a \in Seq(S) /\ Len(a) = i - 1
        /\ \A j \in 1..i - 1 : a[j] = s[j]
    <2> DEFINE n == i - 1
    <2>1. n \in Nat /\ \A j \in 1..n : s[j] \in S
      BY <1>0
    <2> HIDE DEF n
    <2>2. /\ SubSeq(s, 1, n) \in Seq(S)
          /\ Len(SubSeq(s, 1, n)) = IF 1 <= n THEN n - 1 + 1 ELSE 0
          /\ \A j \in 1..n - 1 + 1 : SubSeq(s, 1, n)[j] = s[1 + j - 1]
      BY <2>1, SubSeqProperties
    <2> QED
      BY <2>1, <2>2 DEF n
  <1>2. /\ b \in Seq(S) /\ Len(b) = Len(s) - i
        /\ \A j \in 1..Len(s) - i : b[j] = s[i + j]
    <2> DEFINE m == i + 1
               n == Len(s)
    <2>1. m \in Nat /\ n \in Nat /\ \A j \in m..n : s[j] \in S
      BY <1>0
    <2>3. i = m - 1
      OBVIOUS
    <2> HIDE DEF m, n
    <2>2. /\ SubSeq(s, m, n) \in Seq(S)
          /\ Len(SubSeq(s, m, n)) = IF m <= n THEN n - m + 1 ELSE 0
          /\ \A j \in 1..n - m + 1 : SubSeq(s, m, n)[j] = s[m + j - 1]
      BY <2>1, SubSeqProperties
    <2> QED
      BY <2>1, <2>2, <2>3 DEF m, n
  <1> HIDE DEF a, b
  <1>3. /\ a \o b \in Seq(S)
        /\ Len(a \o b) = Len(a) + Len(b)
        /\ \A j \in 1..Len(a) + Len(b) :
              (a \o b)[j] = IF j <= Len(a) THEN a[j] ELSE b[j - Len(a)]
    BY <1>1, <1>2, ConcatProperties
  <1>4. RemoveAt(s, i) = a \o b
    BY DEF RemoveAt, a, b
  <1>5. Len(a) + Len(b) = Len(s) - 1 /\ Len(a) = i - 1
    BY <1>0, <1>1, <1>2
  <1>6. \A j \in 1..Len(s) - 1 : (a \o b)[j] = IF j < i THEN s[j] ELSE s[j + 1]
    <2> SUFFICES ASSUME NEW j \in 1..Len(s) - 1
                 PROVE  (a \o b)[j] = IF j < i THEN s[j] ELSE s[j + 1]
      OBVIOUS
    <2>1. CASE j < i
      BY <1>1, <1>3, <1>5, <2>1
    <2>2. CASE ~(j < i)
      <3>1. j - (i - 1) \in 1..Len(s) - i /\ i + (j - (i - 1)) = j + 1
        BY <1>0, <2>2
      <3>2. b[j - (i - 1)] = s[j + 1]
        BY <1>2, <3>1
      <3>3. j \in 1..Len(a) + Len(b) /\ ~(j <= Len(a)) /\ j - Len(a) = j - (i - 1)
        BY <1>5, <2>2
      <3> QED
        BY <1>3, <2>2, <3>2, <3>3
    <2> QED
      BY <2>1, <2>2
  <1> QED
    BY <1>3, <1>4, <1>5, <1>6

-----------------------------------------------------------------------------
\* There are two peers, and their streams differ in parity.
LEMMA TwoPeers ==
    ASSUME NEW p \in Peers
    PROVE  /\ Other(p) \in Peers /\ Other(p) # p /\ Other(Other(p)) = p
           /\ Peers = {p, Other(p)}
           /\ FirstStream(Other(p)) # FirstStream(p)
           /\ FirstStream(p) \in Nat
  <1>1. IsFiniteSet(Peers \ {p}) /\ Cardinality(Peers \ {p}) = 1
    BY ChannelAssumption, FS_RemoveElement
  <1>2. PICK q : Peers \ {p} = {q}
    BY <1>1, FS_Singleton
  <1>3. Peers = {p, q} /\ p # q
    BY <1>2
  <1>4. Other(p) = q /\ Other(q) = p
    BY <1>3 DEF Other
  <1> QED
    BY <1>3, <1>4, ChannelAssumption DEF FirstStream

\* What findDataChannel returns is a channel of the peer, with that stream.
LEMMA FoundBelongs ==
    ASSUME TypeOK, Mapped, NEW q \in Peers, NEW s \in Streams, NEW c \in Found(q, s)
    PROVE  /\ c \in Channels /\ Alive(c) /\ PeerOf[c] = q /\ mStream[c] = s
           /\ <<s, c>> \in mDataChannels[q]
  <1>1. c \in Channels /\ Alive(c) /\ <<s, c>> \in mDataChannels[q]
    BY DEF Found, ChannelsAt
  <1> QED
    BY <1>1 DEF Mapped

\* An outgoing channel with a stream exists.
LEMMA NotDormant ==
    ASSUME TypeOK, Bound, NEW c \in Channels, mStream[c] # Unassigned
    PROVE  /\ life[c] # "new" /\ (life[c] # "gone" \/ mIsClosed[c])
           /\ Alive(c) \/ (life[c] = "gone" /\ mIsClosed[c])
  BY DEF Bound, Dormant, Alive

\* No two outgoing channels of a peer have the same stream.
LEMMA Unique ==
    ASSUME DropsAlone, TypeOK, Lives, Bound, Mapped,
           NEW c \in Outgoing, NEW d \in Outgoing,
           PeerOf[c] = PeerOf[d], mStream[c] = mStream[d], mStream[c] # Unassigned
    PROVE  c = d
  <1>0. c \in Channels /\ d \in Channels /\ PeerOf[c] \in Peers
    BY ChannelAssumption DEF Channels
  <1>1. CASE Alive(c) /\ Alive(d)
    <2>1. /\ <<mStream[c], c>> \in mDataChannels[PeerOf[c]]
          /\ <<mStream[d], d>> \in mDataChannels[PeerOf[c]]
      BY <1>0, <1>1 DEF Mapped
    <2> QED
      BY <1>0, <2>1 DEF TypeOK
  <1>2. CASE ~Alive(c) \/ ~Alive(d)
    <2>1. PICK created \in Scenarios :
              \A x \in Outgoing : life[x] # "gone" \/ mIsClosed[x] => x \in created
      BY DEF Lives
    <2>2. c \in created /\ d \in created
      BY <1>0, <2>1, NotDormant
    <2>3. c \in Droppable \/ d \in Droppable
      BY <1>0, <1>2, NotDormant DEF Lives
    <2> QED
      BY <2>2, <2>3 DEF DropsAlone
  <1> QED
    BY <1>1, <1>2

-----------------------------------------------------------------------------
\* assignDataChannels: what the loop has done when it has served n channels of the
\* queue.  No channel was left out, none lost the stream it had, and each that got one
\* is found by it.
Assignments ==
    [map : SUBSET (Streams \X Channels), stream : [Channels -> Streams \cup {Unassigned}],
     thrown : BOOLEAN]

Served(p, r, n) ==
    /\ r \in Assignments /\ ~r.thrown
    /\ mDataChannels[p] \subseteq r.map
    /\ \A e, f \in r.map : e[1] = f[1] => e = f
    /\ \A e \in r.map : PeerOf[e[2]] = p /\ r.stream[e[2]] = e[1]
    /\ \A c \in Channels : r.stream[c] # mStream[c] =>
          /\ mStream[c] = Unassigned
          /\ c \in Outgoing /\ PeerOf[c] = p /\ Alive(c)
          /\ r.stream[c] \in ParityStreams(p) /\ <<r.stream[c], c>> \in r.map
    /\ \A i \in 1..Len(mUnassigned[p]) : Alive(mUnassigned[p][i]) =>
          (r.stream[mUnassigned[p][i]] # Unassigned <=> i <= n)

\* The assignment as a sequence of steps, one for each channel of the queue.
LEMMA AssignmentSteps ==
    ASSUME TypeOK, NEW p \in Peers
    PROVE  \E acc :
              /\ acc[0] = [map |-> mDataChannels[p], stream |-> mStream, thrown |-> FALSE]
              /\ \A n \in 1..Len(mUnassigned[p]) :
                    acc[n] = AssignOne(p, acc[n - 1], mUnassigned[p][n])
              /\ Assignment(p) = acc[Len(mUnassigned[p])]
  <1> DEFINE N == Len(mUnassigned[p])
             b == [map |-> mDataChannels[p], stream |-> mStream, thrown |-> FALSE]
             F(x, n) == AssignOne(p, x, mUnassigned[p][n])
             Is(f, n) == f = [i \in 0..n |-> IF i = 0 THEN b ELSE F(f[i - 1], i)]
             G == {n \in 0..N : \E f : Is(f, n)}
             Last0 == (CHOOSE f : Is(f, N))[N]
  <1>0. N \in Nat
    BY LenProperties DEF TypeOK
  <1>1. Assignment(p) = Last0
    BY DEF Assignment
  <1> HIDE DEF N, b, F
  <1>2. 0 \in G
    <2> DEFINE f == [i \in 0..0 |-> b]
    <2>1. Is(f, 0)
      OBVIOUS
    <2> HIDE DEF f, Is
    <2> QED
      BY <1>0, <2>1
  <1>3. ASSUME NEW n \in 0..N - 1, n \in G
        PROVE  n + 1 \in G
    <2>1. PICK g : Is(g, n)
      BY <1>3
    <2> DEFINE f == [i \in 0..n + 1 |-> IF i = n + 1 THEN F(g[n], n + 1) ELSE g[i]]
    <2>2. \A i \in 0..n : f[i] = g[i]
      OBVIOUS
    <2>3. \A i \in 0..n + 1 : f[i] = IF i = 0 THEN b ELSE F(f[i - 1], i)
      <3>1. ASSUME NEW i \in 0..n PROVE f[i] = IF i = 0 THEN b ELSE F(f[i - 1], i)
        BY <2>1, <2>2
      <3>2. f[n + 1] = F(f[n], n + 1)
        BY <2>2
      <3> QED
        BY <3>1, <3>2
    <2>4. Is(f, n + 1)
      <3> HIDE DEF f
      <3> SUFFICES f = [i \in 0..n + 1 |-> f[i]]
        BY <2>3
      <3> QED
        BY DEF f
    <2> HIDE DEF f, Is
    <2> QED
      BY <1>0, <2>4
  <1>4. N \in G
    <2> HIDE DEF G
    <2> QED
      BY <1>0, <1>2, <1>3, Climb
  <1> DEFINE acc == CHOOSE f : Is(f, N)
  <1>5. Is(acc, N)
    <2> HIDE DEF Is
    <2> QED
      BY <1>4
  <1>6. Assignment(p) = acc[N]
    BY <1>1
  <1> HIDE DEF acc
  <1>7. acc[0] = b /\ \A n \in 1..N : acc[n] = F(acc[n - 1], n)
    BY <1>0, <1>5
  <1> QED
    BY <1>6, <1>7 DEF N, b, F

\* In the loop, a stream of the parity of p is one of an outgoing channel of p.
LEMMA ServedOutgoing ==
    ASSUME TypeOK, Parities, NEW p \in Peers, NEW n, NEW r, Served(p, r, n),
           NEW e \in r.map, e[1] \in ParityStreams(p)
    PROVE  e[2] \in Outgoing /\ PeerOf[e[2]] = p /\ r.stream[e[2]] = e[1]
  <1>1. /\ e[2] \in Channels /\ PeerOf[e[2]] = p /\ r.stream[e[2]] = e[1]
        /\ e[1] \in Streams /\ e[1] % 2 = FirstStream(p)
    BY DEF Served, Assignments, ParityStreams
  <1>2. ASSUME e[2] \notin Outgoing PROVE FALSE
    <2>1. e[2] \in Incoming /\ mStream[e[2]] = e[1]
      BY <1>1, <1>2 DEF Served, Channels
    <2>2. e[1] # Unassigned
      BY <1>1 DEF Streams, Unassigned
    <2> QED
      BY <1>1, <2>1, <2>2, TwoPeers DEF Parities
  <1> QED
    BY <1>1, <1>2

\* As there are enough streams, there is one for the next channel of the queue.
LEMMA StreamLeft ==
    ASSUME EnoughStreams, TypeOK, Lives, Parities, NEW p \in Peers,
           NEW n, NEW r, Served(p, r, n),
           NEW c \in Outgoing, PeerOf[c] = p, Alive(c), r.stream[c] = Unassigned
    PROVE  FreeStreams(p, r.map) # {}
  <1> SUFFICES ASSUME FreeStreams(p, r.map) = {}
               PROVE  FALSE
    OBVIOUS
  <1>1. PICK created \in Scenarios :
            \A x \in Outgoing : life[x] # "gone" \/ mIsClosed[x] => x \in created
    BY DEF Lives
  <1> DEFINE Mine == {d \in created : PeerOf[d] = p}
             Others == Mine \ {c}
             f == [s \in ParityStreams(p) |-> CHOOSE d \in Others : r.stream[d] = s]
  <1>2. ASSUME NEW s \in ParityStreams(p)
        PROVE  \E d \in Others : r.stream[d] = s
    <2>1. PICK e \in r.map : e[1] = s /\ Alive(e[2])
      BY DEF FreeStreams, ParityStreams
    <2>2. e[2] \in Outgoing /\ PeerOf[e[2]] = p /\ r.stream[e[2]] = s
      BY <2>1, ServedOutgoing
    <2>3. e[2] \in created
      BY <1>1, <2>1, <2>2 DEF Alive
    <2>4. s # Unassigned
      BY DEF ParityStreams, Streams, Unassigned
    <2> QED
      BY <2>2, <2>3, <2>4
  <1>3. c \in Mine
    BY <1>1 DEF Alive
  <1>4. /\ IsFiniteSet(created) /\ Cardinality(Mine) <= Cardinality(ParityStreams(p))
        /\ Mine \in SUBSET created
    BY DEF EnoughStreams
  <1>5. f \in Injection(ParityStreams(p), Others)
    <2>1. \A s \in ParityStreams(p) : f[s] \in Others /\ r.stream[f[s]] = s
      BY <1>2
    <2>2. f \in [ParityStreams(p) -> Others]
      BY <2>1
    <2> HIDE DEF f, Others
    <2>3. \A s, t \in ParityStreams(p) : f[s] = f[t] => s = t
      BY <2>1
    <2> QED
      BY <2>2, <2>3 DEF Injection, IsInjective
  <1> HIDE DEF f, Mine
  <1>6. IsFiniteSet(Mine) /\ Cardinality(Mine) \in Nat
    BY <1>4, FS_Subset, FS_CardinalityType
  <1>7. IsFiniteSet(Others) /\ Cardinality(Others) = Cardinality(Mine) - 1
    BY <1>3, <1>6, FS_RemoveElement
  <1> HIDE DEF Others
  <1>8. /\ IsFiniteSet(ParityStreams(p))
        /\ Cardinality(ParityStreams(p)) <= Cardinality(Others)
    BY <1>5, <1>7, FS_Injection
  <1>9. Cardinality(ParityStreams(p)) \in Nat
    BY <1>8, FS_CardinalityType
  <1> QED
    BY <1>4, <1>6, <1>7, <1>8, <1>9

\* An expired entry of the parity of p is of a dropped channel, which is alone.
LEMMA NoneExpired ==
    ASSUME DropsAlone, TypeOK, Lives, Parities, Bound, NEW p \in Peers,
           NEW n, NEW r, Served(p, r, n),
           NEW c \in Outgoing, PeerOf[c] = p, Alive(c),
           NEW s \in FreeStreams(p, r.map)
    PROVE  ~ \E e \in r.map : e[1] = s
  <1> SUFFICES ASSUME NEW e \in r.map, e[1] = s
               PROVE  FALSE
    OBVIOUS
  <1>1. s \in ParityStreams(p) /\ ~Alive(e[2]) /\ s # Unassigned
    BY DEF FreeStreams, ParityStreams, Streams, Unassigned
  <1>2. e[2] \in Outgoing /\ PeerOf[e[2]] = p /\ r.stream[e[2]] = s
    BY <1>1, ServedOutgoing
  <1>3. e[2] \in Channels
    BY <1>2 DEF Channels
  <1>4. mStream[e[2]] = s
    BY <1>1, <1>2, <1>3 DEF Served
  <1>5. life[e[2]] = "gone" /\ mIsClosed[e[2]]
    BY <1>1, <1>3, <1>4, NotDormant
  <1>6. PICK created \in Scenarios :
            \A x \in Outgoing : life[x] # "gone" \/ mIsClosed[x] => x \in created
    BY DEF Lives
  <1>7. e[2] \in created \cap Droppable /\ c \in created
    BY <1>2, <1>5, <1>6 DEF Alive, Lives
  <1> QED
    BY <1>1, <1>2, <1>7 DEF DropsAlone

\* One more channel is served.
LEMMA ServeOne ==
    ASSUME DropsAlone, EnoughStreams, TypeOK, Lives, Parities, Bound, Waiting,
           NEW p \in Peers, NEW n \in 1..Len(mUnassigned[p]),
           NEW r, Served(p, r, n - 1)
    PROVE  Served(p, AssignOne(p, r, mUnassigned[p][n]), n)
  <1> DEFINE q == mUnassigned[p]
             c == q[n]
             free == FreeStreams(p, r.map)
             s == Min(free)
             r2 == AssignOne(p, r, c)
  <1>0. /\ q \in Seq(Outgoing) /\ Len(q) \in Nat /\ n \in Nat
        /\ \A i \in 1..Len(q) : q[i] \in Outgoing /\ q[i] \in Channels
    BY LenProperties, ElementOfSeq DEF TypeOK, Channels
  <1>1. /\ PeerOf[c] = p
        /\ \A i \in 1..Len(q) : q[i] = c => i = n
    BY <1>0 DEF Waiting, WaitsAt
  <1>2. CASE ~Alive(c)
    <2>1. r2 = r
      BY <1>2 DEF AssignOne
    <2>2. \A i \in 1..Len(q) : Alive(q[i]) => (i <= n - 1 <=> i <= n)
      BY <1>0, <1>2
    <2> QED
      BY <2>1, <2>2 DEF Served
  <1>3. CASE Alive(c)
    <2>1. r \in Assignments /\ ~r.thrown
      BY DEF Served
    <2>2. r.stream[c] = Unassigned
      <3>1. r.stream[q[n]] # Unassigned <=> n <= n - 1
        BY <1>3 DEF Served
      <3> QED
        BY <1>0, <3>1
    <2>3. free # {} /\ free \in SUBSET Streams
      BY <1>0, <1>1, <1>3, <2>2, StreamLeft DEF FreeStreams
    <2>4. s \in free
      <3>1. free \in SUBSET Nat
        BY <2>3 DEF Streams
      <3> HIDE DEF free
      <3>2. \E x \in free : \A y \in free : x <= y
        BY <2>3, <3>1, Least
      <3> QED
        BY <3>2 DEF Min
    <2>5. ~ \E e \in r.map : e[1] = s
      BY <1>0, <1>1, <1>3, <2>4, NoneExpired
    <2>6. s \in ParityStreams(p) /\ s # Unassigned /\ s \in Streams
      BY <2>4 DEF FreeStreams, ParityStreams, Streams, Unassigned
    <2>7. r2 = [map |-> r.map \cup {<<s, c>>}, stream |-> [r.stream EXCEPT ![c] = s],
                thrown |-> FALSE]
      BY <1>3, <2>1, <2>2, <2>3, <2>5 DEF AssignOne
    <2>9. c \in Outgoing /\ c \in Channels
      BY <1>0
    <2> HIDE DEF r2, s, free, c, q
    <2>8. /\ r2.map = r.map \cup {<<s, c>>} /\ r2.stream = [r.stream EXCEPT ![c] = s]
          /\ ~r2.thrown /\ r2 \in Assignments
      <3> DEFINE map == r.map \cup {<<s, c>>}
                 stream == [r.stream EXCEPT ![c] = s]
      <3>1. /\ r.map \in SUBSET (Streams \X Channels)
            /\ r.stream \in [Channels -> Streams \cup {Unassigned}]
        BY <2>1 DEF Assignments
      <3>2. /\ map \in SUBSET (Streams \X Channels)
            /\ stream \in [Channels -> Streams \cup {Unassigned}]
        BY <2>6, <2>9, <3>1
      <3>3. r2 = [map |-> map, stream |-> stream, thrown |-> FALSE]
        BY <2>7
      <3> HIDE DEF map, stream
      <3>4. r2 \in Assignments /\ r2.map = map /\ r2.stream = stream /\ ~r2.thrown
        BY <3>2, <3>3 DEF Assignments
      <3> QED
        BY <3>4 DEF map, stream
    <2>10. /\ r2.stream[c] = s
           /\ \A d \in Channels \ {c} : r2.stream[d] = r.stream[d]
      BY <2>1, <2>8, <2>9 DEF Assignments
    <2>11. mDataChannels[p] \subseteq r2.map
      BY <2>8 DEF Served
    <2>12. \A e, f \in r2.map : e[1] = f[1] => e = f
      BY <2>5, <2>8 DEF Served
    <2>13. \A e \in r2.map : PeerOf[e[2]] = p /\ r2.stream[e[2]] = e[1]
      <3>1. \A e \in r.map : PeerOf[e[2]] = p /\ r.stream[e[2]] = e[1] /\ e[2] # c /\ e[2] \in Channels
        BY <2>1, <2>2 DEF Served, Assignments, Streams, Unassigned
      <3> QED
        BY <1>1, <2>8, <2>10, <3>1
    <2>14. ASSUME NEW d \in Channels, r2.stream[d] # mStream[d]
           PROVE  /\ mStream[d] = Unassigned
                  /\ d \in Outgoing /\ PeerOf[d] = p /\ Alive(d)
                  /\ r2.stream[d] \in ParityStreams(p) /\ <<r2.stream[d], d>> \in r2.map
      <3>1. CASE d = c
        <4>1. mStream[c] = Unassigned
          BY <2>2, <2>9 DEF Served
        <4> QED
          BY <1>1, <1>3, <2>6, <2>8, <2>9, <2>10, <3>1, <4>1
      <3>2. CASE d # c
        BY <2>8, <2>10, <2>14, <3>2 DEF Served
      <3> QED
        BY <3>1, <3>2
    <2>15. ASSUME NEW i \in 1..Len(q), Alive(q[i])
           PROVE  r2.stream[q[i]] # Unassigned <=> i <= n
      <3>1. CASE i = n
        BY <2>6, <2>10, <3>1 DEF c
      <3>2. CASE i # n
        <4>1. q[i] # c /\ q[i] \in Channels
          BY <1>0, <1>1, <3>2
        <4>2. r.stream[q[i]] # Unassigned <=> i <= n - 1
          BY <2>15 DEF Served, q
        <4>3. i <= n - 1 <=> i <= n
          BY <1>0, <3>2
        <4> QED
          BY <2>10, <4>1, <4>2, <4>3
      <3> QED
        BY <3>1, <3>2
    <2> QED
      BY <2>8, <2>11, <2>12, <2>13, <2>14, <2>15 DEF Served, r2, c, q
  <1> QED
    BY <1>2, <1>3

\* The whole queue is served.
LEMMA AllServed ==
    ASSUME DropsAlone, EnoughStreams, TypeOK, Lives, Parities, Bound, Mapped, Waiting,
           NEW p \in Peers
    PROVE  Served(p, Assignment(p), Len(mUnassigned[p]))
  <1> DEFINE N == Len(mUnassigned[p])
  <1>0. N \in Nat /\ \A i \in 1..N : mUnassigned[p][i] \in Channels
    BY LenProperties, ElementOfSeq DEF TypeOK, Channels
  <1>1. PICK acc :
            /\ acc[0] = [map |-> mDataChannels[p], stream |-> mStream, thrown |-> FALSE]
            /\ \A n \in 1..N : acc[n] = AssignOne(p, acc[n - 1], mUnassigned[p][n])
            /\ Assignment(p) = acc[N]
    BY AssignmentSteps
  <1> DEFINE G == {n \in 0..N : Served(p, acc[n], n)}
  <1>2. 0 \in G
    <2> DEFINE b == acc[0]
    <2>1. b.map = mDataChannels[p] /\ b.stream = mStream /\ b.thrown = FALSE
      BY <1>1
    <2>2. b \in Assignments
      BY <1>1 DEF Assignments, TypeOK
    <2>3. /\ \A e, f \in b.map : e[1] = f[1] => e = f
          /\ \A e \in b.map : PeerOf[e[2]] = p /\ b.stream[e[2]] = e[1]
      BY <2>1 DEF TypeOK, Mapped
    <2>4. \A i \in 1..N : Alive(mUnassigned[p][i]) =>
             (b.stream[mUnassigned[p][i]] # Unassigned <=> i <= 0)
      BY <1>0, <2>1 DEF Waiting, WaitsAt
    <2> HIDE DEF b
    <2>5. Served(p, b, 0)
      BY <2>1, <2>2, <2>3, <2>4 DEF Served
    <2> QED
      BY <1>0, <2>5 DEF b
  <1>3. ASSUME NEW n \in 0..N - 1, n \in G
        PROVE  n + 1 \in G
    <2>1. n + 1 \in 1..N /\ (n + 1) - 1 = n
      BY <1>0
    <2>2. Served(p, AssignOne(p, acc[n], mUnassigned[p][n + 1]), n + 1)
      BY <1>3, <2>1, ServeOne
    <2> QED
      BY <1>0, <1>1, <2>1, <2>2
  <1>4. N \in G
    <2> HIDE DEF G, N
    <2>1. \A n \in 0..N : n \in G
      BY <1>0, <1>2, <1>3, Climb
    <2> QED
      BY <1>0, <2>1
  <1> QED
    BY <1>1, <1>4

-----------------------------------------------------------------------------
\* What a message does to the network that carries it, and one that is received.
Nets == [Peers \X Streams -> Seq(Message)]

\* A stream carries a sequence of messages.
LEMMA NetTyped ==
    ASSUME NEW n \in Nets, NEW p \in Peers, NEW s \in Streams
    PROVE  /\ n[<<p, s>>] \in Seq(Message) /\ Len(n[<<p, s>>]) \in Nat
           /\ \A i \in 1..Len(n[<<p, s>>]) : n[<<p, s>>][i] \in Message
  <1>1. n[<<p, s>>] \in Seq(Message)
    BY DEF Nets
  <1> QED
    BY <1>1, LenProperties, ElementOfSeq

\* The sequence of a stream after Append and after RemoveAt keeps its OPEN first.
LEMMA OpenFirstAppend ==
    ASSUME NEW c, NEW t \in Seq(Message), NEW m \in Message, OpenFirst(c, t),
           m.type = "data" /\ m.from = c => m.ordered
    PROVE  OpenFirst(c, Append(t, m))
  <1>1. /\ Len(t) \in Nat /\ Len(Append(t, m)) = Len(t) + 1
        /\ \A i \in 1..Len(t) : Append(t, m)[i] = t[i]
        /\ Append(t, m)[Len(t) + 1] = m
    BY AppendProperties, LenProperties
  <1>2. PICK k \in 1..Len(t) :
            /\ t[k].type = "open" /\ t[k].from = c
            /\ \A i \in 1..Len(t) : t[i].type = "data" /\ t[i].from = c => k < i /\ t[i].ordered
    BY DEF OpenFirst
  <1> DEFINE u == Append(t, m)
  <1> HIDE DEF u
  <1>3. k \in 1..Len(u) /\ u[k].type = "open" /\ u[k].from = c
    BY <1>1, <1>2 DEF u
  <1>4. ASSUME NEW i \in 1..Len(u), u[i].type = "data", u[i].from = c
        PROVE  k < i /\ u[i].ordered
    <2>1. CASE i \in 1..Len(t)
      BY <1>1, <1>2, <1>4, <2>1 DEF u
    <2>2. CASE i = Len(t) + 1
      BY <1>1, <1>2, <1>4, <2>2 DEF u
    <2> QED
      BY <1>1, <2>1, <2>2 DEF u
  <1> QED
    BY <1>3, <1>4 DEF OpenFirst, u

\* A message other than the OPEN is taken off the stream.
LEMMA OpenFirstRemove ==
    ASSUME NEW c, NEW t \in Seq(Message), NEW j \in 1..Len(t), OpenFirst(c, t),
           t[j].type = "open" => t[j].from # c
    PROVE  OpenFirst(c, RemoveAt(t, j))
  <1> DEFINE u == RemoveAt(t, j)
  <1>1. /\ Len(t) \in Nat /\ Len(u) = Len(t) - 1
        /\ \A i \in 1..Len(t) - 1 : u[i] = IF i < j THEN t[i] ELSE t[i + 1]
    BY RemoveAtProperties, LenProperties
  <1>2. PICK k \in 1..Len(t) :
            /\ t[k].type = "open" /\ t[k].from = c
            /\ \A i \in 1..Len(t) : t[i].type = "data" /\ t[i].from = c => k < i /\ t[i].ordered
    BY DEF OpenFirst
  <1> HIDE DEF u
  <1>3. k # j
    BY <1>2
  <1> DEFINE l == IF k < j THEN k ELSE k - 1
  <1>4. l \in 1..Len(u) /\ u[l] = t[k]
    BY <1>1, <1>3
  <1>5. ASSUME NEW i \in 1..Len(u), u[i].type = "data", u[i].from = c
        PROVE  l < i /\ u[i].ordered
    <2>1. CASE i < j
      <3>1. u[i] = t[i] /\ i \in 1..Len(t)
        BY <1>1, <2>1
      <3> QED
        BY <1>1, <1>2, <1>5, <2>1, <3>1
    <2>2. CASE ~(i < j)
      <3>1. u[i] = t[i + 1] /\ i + 1 \in 1..Len(t)
        BY <1>1, <2>2
      <3>2. k < i + 1 /\ u[i].ordered
        BY <1>2, <1>5, <3>1
      <3> QED
        BY <1>1, <1>3, <2>2, <3>2
    <2> QED
      BY <2>1, <2>2
  <1> QED
    BY <1>2, <1>4, <1>5 DEF OpenFirst, u

\* A message is posted.
LEMMA Posted ==
    ASSUME NEW n \in Nets, NEW p \in Peers, NEW s \in Streams, NEW m \in Message
    PROVE  /\ Post(n, p, s, m) \in Nets
           /\ \A stream, associated :
                 Flies(n, stream, associated) /\ SentFrom(m, p, s, stream, associated)
                 => Flies(Post(n, p, s, m), stream, associated)
           /\ \A c : \A l \in Peers \X Streams :
                 OpenFirst(c, n[l]) /\ (m.type = "data" /\ m.from = c => m.ordered)
                 => OpenFirst(c, Post(n, p, s, m)[l])
  <1> DEFINE n2 == Post(n, p, s, m)
  <1>1. /\ n[<<p, s>>] \in Seq(Message) /\ n2[<<p, s>>] = Append(n[<<p, s>>], m)
        /\ \A l \in Peers \X Streams : l # <<p, s>> => n2[l] = n[l]
    BY DEF Post, Nets
  <1>2. n2 \in Nets
    BY AppendProperties DEF Post, Nets
  <1>3. ASSUME NEW stream, NEW associated, Flies(n, stream, associated),
               SentFrom(m, p, s, stream, associated)
        PROVE  Flies(n2, stream, associated)
    <2> SUFFICES ASSUME NEW q \in Peers, NEW r \in Streams, NEW i \in 1..Len(n2[<<q, r>>])
                 PROVE  SentFrom(n2[<<q, r>>][i], q, r, stream, associated)
      BY DEF Flies
    <2> HIDE DEF n2
    <2>1. CASE q = p /\ r = s
      <3>1. /\ Len(n[<<p, s>>]) \in Nat /\ Len(n2[<<p, s>>]) = Len(n[<<p, s>>]) + 1
            /\ \A j \in 1..Len(n[<<p, s>>]) : n2[<<p, s>>][j] = n[<<p, s>>][j]
            /\ n2[<<p, s>>][Len(n[<<p, s>>]) + 1] = m
        BY <1>1, AppendProperties, LenProperties
      <3>2. i \in 1..Len(n[<<p, s>>]) \/ i = Len(n[<<p, s>>]) + 1
        BY <2>1, <3>1
      <3> QED
        BY <1>3, <2>1, <3>1, <3>2 DEF Flies
    <2>2. CASE ~(q = p /\ r = s)
      BY <1>1, <1>3, <2>2 DEF Flies
    <2> QED
      BY <2>1, <2>2
  <1>4. ASSUME NEW c, NEW l \in Peers \X Streams, OpenFirst(c, n[l]),
               m.type = "data" /\ m.from = c => m.ordered
        PROVE  OpenFirst(c, n2[l])
    <2> HIDE DEF n2
    <2>1. CASE l = <<p, s>>
      BY <1>1, <1>4, <2>1, OpenFirstAppend
    <2>2. CASE l # <<p, s>>
      BY <1>1, <1>4, <2>2
    <2> QED
      BY <2>1, <2>2
  <1> QED
    BY <1>2, <1>3, <1>4

\* A message is received: the one at place j is taken off its stream.
Taken(n, p, s, j) == [n EXCEPT ![<<p, s>>] = RemoveAt(@, j)]

\* What is left in flight.
LEMMA Received ==
    ASSUME NEW n \in Nets, NEW p \in Peers, NEW s \in Streams, NEW j \in 1..Len(n[<<p, s>>])
    PROVE  /\ Taken(n, p, s, j) \in Nets
           /\ \A stream, associated :
                 Flies(n, stream, associated) => Flies(Taken(n, p, s, j), stream, associated)
           /\ \A c : \A l \in Peers \X Streams :
                 /\ OpenFirst(c, n[l])
                 /\ n[<<p, s>>][j].type = "open" => n[<<p, s>>][j].from # c
                 => OpenFirst(c, Taken(n, p, s, j)[l])
  <1> DEFINE rest == Taken(n, p, s, j)
  <1>1. /\ n[<<p, s>>] \in Seq(Message) /\ rest[<<p, s>>] = RemoveAt(n[<<p, s>>], j)
        /\ \A l \in Peers \X Streams : l # <<p, s>> => rest[l] = n[l]
    BY DEF Nets, Taken
  <1> HIDE DEF rest
  <1> DEFINE t == n[<<p, s>>]
             u == RemoveAt(t, j)
  <1>2. /\ u \in Seq(Message) /\ Len(t) \in Nat /\ Len(u) = Len(t) - 1
        /\ \A i \in 1..Len(t) - 1 : u[i] = IF i < j THEN t[i] ELSE t[i + 1]
    <2>1. t \in Seq(Message) /\ j \in 1..Len(t)
      BY <1>1
    <2> HIDE DEF t
    <2> QED
      BY <2>1, RemoveAtProperties, LenProperties
  <1>3. rest \in Nets
    BY <1>2 DEF Nets, Taken, rest
  <1>4. ASSUME NEW stream, NEW associated, Flies(n, stream, associated)
        PROVE  Flies(rest, stream, associated)
    <2> SUFFICES ASSUME NEW q \in Peers, NEW r \in Streams, NEW i \in 1..Len(rest[<<q, r>>])
                 PROVE  SentFrom(rest[<<q, r>>][i], q, r, stream, associated)
      BY DEF Flies
    <2>1. CASE q = p /\ r = s
      <3>1. i \in 1..Len(u) /\ rest[<<q, r>>][i] = u[i]
        BY <1>1, <2>1
      <3> HIDE DEF u
      <3>2. PICK k \in 1..Len(t) : u[i] = t[k]
        <4>1. /\ i \in 1..Len(t) - 1 /\ i \in 1..Len(t) /\ i + 1 \in 1..Len(t)
              /\ u[i] = IF i < j THEN t[i] ELSE t[i + 1]
          BY <1>2, <3>1
        <4> HIDE DEF t
        <4> QED
          BY <4>1
      <3> QED
        BY <1>4, <2>1, <3>1, <3>2 DEF Flies
    <2>2. CASE ~(q = p /\ r = s)
      BY <1>1, <1>4, <2>2 DEF Flies
    <2> QED
      BY <2>1, <2>2
  <1>5. ASSUME NEW c, NEW l \in Peers \X Streams, OpenFirst(c, n[l]),
               t[j].type = "open" => t[j].from # c
        PROVE  OpenFirst(c, rest[l])
    <2>1. CASE l = <<p, s>>
      BY <1>1, <1>5, <2>1, OpenFirstRemove
    <2>2. CASE l # <<p, s>>
      BY <1>1, <1>5, <2>2
    <2> QED
      BY <2>1, <2>2
  <1> QED
    BY <1>3, <1>4, <1>5 DEF rest

-----------------------------------------------------------------------------
\* Nothing is open, assigned or in flight at first.
LEMMA InvInit == Init => Inv
  <1> SUFFICES ASSUME Init PROVE Inv
    OBVIOUS
  <1> USE DEF Init
  <1>1. TypeOK
    <2>1. /\ opening \in [Peers -> BOOLEAN]
          /\ {mIsOpen, mIsClosed, mReliable, transport} \subseteq [Channels -> BOOLEAN]
      <3>1. /\ opening \in [Peers -> BOOLEAN]
            /\ mIsOpen \in [Channels -> BOOLEAN] /\ mIsClosed \in [Channels -> BOOLEAN]
            /\ mReliable \in [Channels -> BOOLEAN] /\ transport \in [Channels -> BOOLEAN]
        OBVIOUS
      <3> QED
        BY <3>1
    <2>2. /\ mUnassigned \in [Peers -> Seq(Outgoing)]
          /\ received \in [Channels -> Seq(Channels)]
          /\ net \in [Peers \X Streams -> Seq(Message)]
      BY EmptySeq
    <2>3. /\ sctp \in [Peers -> {"connecting", "up", "ready"}]
          /\ mDataChannels \in [Peers -> SUBSET (Streams \X Channels)]
          /\ \A p \in Peers : mDataChannels[p] = {}
          /\ life \in [Channels -> {"new", "created", "assigned", "held", "gone"}]
          /\ mStream \in [Channels -> Streams \cup {Unassigned}]
          /\ origin \in [Incoming -> SUBSET Outgoing]
          /\ sent \in [Channels -> Nat]
      OBVIOUS
    <2> QED
      BY <2>1, <2>2, <2>3 DEF TypeOK
  <1>2. \A p \in Peers : mDataChannels[p] = {} /\ Len(mUnassigned[p]) = 0
    BY EmptySeq
  <1>3. \A c \in Channels : /\ mStream[c] = Unassigned /\ ~transport[c] /\ ~mIsOpen[c] /\ ~mIsClosed[c]
                            /\ life[c] \in {"new", "gone"} /\ Len(received[c]) = 0
    BY EmptySeq
  <1>4. \A d \in Incoming : origin[d] = {} /\ d \in Channels /\ life[d] = "new"
    BY ChannelAssumption DEF Channels
  <1>5. \A c \in Outgoing : c \in Channels
    BY DEF Channels
  <1>6. Lives
    <2>1. PICK created \in Scenarios :
              life = [c \in Channels |-> IF c \in created \cup Incoming THEN "new" ELSE "gone"]
      OBVIOUS
    <2>2. \A c \in Outgoing : life[c] # "gone" \/ mIsClosed[c] => c \in created
      BY <1>3, <1>5, <2>1, ChannelAssumption
    <2> QED
      BY <1>3, <1>4, <1>5, <2>2 DEF Lives
  <1>7. Parities /\ Bound
    BY <1>3, <1>4, <1>5 DEF Parities, Bound
  <1>8. Mapped /\ Waiting
    BY <1>2, <1>3, <1>5 DEF Mapped, Waiting, Alive
  <1>9. InFlight
    <2>1. \A p \in Peers, s \in Streams : Len(net[<<p, s>>]) = 0
      BY EmptySeq
    <2> QED
      BY <2>1 DEF InFlight, Flies
  <1>10. Origins /\ Opens
    BY <1>3, <1>4, <1>5 DEF Origins, Opens
  <1>11. NoCrossTalk
    BY <1>3 DEF NoCrossTalk
  <1> QED
    BY <1>1, <1>6, <1>7, <1>8, <1>9, <1>10, <1>11 DEF Inv

\* What is in flight stays right when channels get streams and the association.
LEMMA FliesLater ==
    ASSUME TypeOK, NEW n, Flies(n, mStream, transport),
           \A c \in Channels : transport[c] => transport'[c] /\ mStream'[c] = mStream[c]
    PROVE  Flies(n, mStream', transport')
  <1> SUFFICES ASSUME NEW p \in Peers, NEW s \in Streams, NEW i \in 1..Len(n[<<p, s>>])
               PROVE  SentFrom(n[<<p, s>>][i], p, s, mStream', transport')
    BY DEF Flies
  <1> DEFINE m == n[<<p, s>>][i]
  <1>1. SentFrom(m, p, s, mStream, transport)
    BY DEF Flies
  <1> HIDE DEF m
  <1>2. SentFrom(m, p, s, mStream', transport')
    BY <1>1 DEF SentFrom
  <1> QED
    BY <1>2 DEF m

\* The parts of TypeOK, as types of one variable each.
LEMMA Types ==
    ASSUME TypeOK
    PROVE  /\ mIsOpen \in [Channels -> BOOLEAN] /\ mIsClosed \in [Channels -> BOOLEAN]
           /\ mReliable \in [Channels -> BOOLEAN] /\ transport \in [Channels -> BOOLEAN]
           /\ net \in Nets
           /\ \A c \in Outgoing : c \in Channels /\ c \notin Incoming
           /\ \A c \in Incoming : c \in Channels /\ c \notin Outgoing
           /\ \A c \in Channels : PeerOf[c] \in Peers /\ (c \in Outgoing \/ c \in Incoming)
           /\ \A c \in Channels : mStream[c] # Unassigned <=> mStream[c] \in Streams
  <1>1. /\ mIsOpen \in [Channels -> BOOLEAN] /\ mIsClosed \in [Channels -> BOOLEAN]
        /\ mReliable \in [Channels -> BOOLEAN] /\ transport \in [Channels -> BOOLEAN]
    BY DEF TypeOK
  <1>2. Unassigned \notin Streams
    BY DEF Unassigned, Streams
  <1> QED
    BY <1>1, <1>2, ChannelAssumption DEF TypeOK, Nets, Channels

\* A channel is created.
LEMMA InvCreateChannel ==
    ASSUME Inv, NEW c \in Channels, CreateChannel(c)
    PROVE  Inv'
  <1> USE DEF Inv
  <1> DEFINE p == PeerOf[c]
  <1>1. /\ c \in Outgoing /\ life[c] = "new" /\ life' = [life EXCEPT ![c] = "created"]
        /\ mDataChannels' = [mDataChannels EXCEPT ![p] = {e \in @ : Alive(e[2])}]
        /\ mUnassigned' = [mUnassigned EXCEPT ![p] = Append(@, c)]
        /\ UNCHANGED <<sctp, opening, chan, net>>
    BY DEF CreateChannel
  <1>2. UNCHANGED <<mStream, mIsOpen, mIsClosed, mReliable, transport, origin, received, sent>>
    BY <1>1 DEF chan
  <1>3. /\ c \in Channels /\ p \in Peers /\ mStream[c] = Unassigned
        /\ life'[c] = "created" /\ \A d \in Channels : d # c => life'[d] = life[d]
    BY <1>1, Types DEF Bound, Dormant, TypeOK
  <1>4. /\ \A q \in Peers : mDataChannels'[q] \subseteq mDataChannels[q]
        /\ \A q \in Peers : \A e \in mDataChannels[q] : Alive(e[2]) => e \in mDataChannels'[q]
    BY <1>1 DEF TypeOK
  <1>5. \A d \in Channels : Alive(d)' => d = c \/ Alive(d)
    BY <1>3 DEF Alive
  <1>6. TypeOK'
    <2>1. mUnassigned' \in [Peers -> Seq(Outgoing)]
      BY <1>1, <1>3, AppendProperties DEF TypeOK
    <2>2. /\ mDataChannels' \in [Peers -> SUBSET (Streams \X Channels)]
          /\ \A q \in Peers : \A e, f \in mDataChannels'[q] : e[1] = f[1] => e = f
      BY <1>1, <1>4 DEF TypeOK
    <2>3. life' \in [Channels -> {"new", "created", "assigned", "held", "gone"}]
      BY <1>1 DEF TypeOK
    <2> QED
      BY <1>1, <1>2, <2>1, <2>2, <2>3 DEF TypeOK
  <1>7. Lives'
    BY <1>1, <1>2, <1>3, Types DEF Lives
  <1>8. Parities' /\ Bound'
    BY <1>2, <1>3 DEF Parities, Bound, Dormant
  <1>9. Mapped'
    BY <1>2, <1>3, <1>4, <1>5, Types DEF Mapped
  <1>10. Waiting'
    <2> DEFINE t == mUnassigned[p]
               u == mUnassigned'[p]
    <2>1. /\ t \in Seq(Outgoing) /\ u = Append(t, c)
          /\ \A q \in Peers : q # p => mUnassigned'[q] = mUnassigned[q]
      BY <1>1, <1>3 DEF TypeOK
    <2>2. /\ Len(t) \in Nat /\ Len(u) = Len(t) + 1 /\ u[Len(t) + 1] = c
          /\ \A i \in 1..Len(t) : u[i] = t[i] /\ t[i] \in Outgoing
      <3> HIDE DEF t, u
      <3> QED
        BY <1>1, <2>1, AppendProperties, LenProperties, ElementOfSeq
    <2>3. \A i \in 1..Len(t) : t[i] # c
      BY <1>1, <1>3 DEF Waiting, WaitsAt
    <2>4. ASSUME NEW q \in Peers, NEW i \in 1..Len(mUnassigned'[q])
          PROVE  WaitsAt(q, i, mUnassigned[q][i])'
      <3>1. CASE q # p
        <4>1. /\ mUnassigned'[q] = mUnassigned[q]
              /\ mUnassigned[q] \in Seq(Outgoing) /\ i \in 1..Len(mUnassigned[q])
          BY <2>1, <3>1 DEF TypeOK
        <4>2. mUnassigned[q][i] \in Channels
          BY <4>1, ElementOfSeq, Types
        <4>3. WaitsAt(q, i, mUnassigned[q][i])
          BY <4>1 DEF Waiting
        <4>4. mUnassigned[q][i] # c
          BY <1>1, <4>3 DEF WaitsAt
        <4> QED
          BY <1>2, <1>3, <1>5, <4>1, <4>2, <4>3, <4>4 DEF WaitsAt
      <3>2. CASE q = p /\ i = Len(t) + 1
        BY <1>2, <1>3, <2>2, <2>3, <3>2 DEF WaitsAt
      <3>3. CASE q = p /\ i \in 1..Len(t)
        <4>1. u[i] = t[i] /\ t[i] # c /\ t[i] \in Channels
          BY <2>2, <2>3, <3>3, Types
        <4>2. PeerOf[t[i]] = p /\ life[t[i]] # "new" /\ (Alive(t[i]) => mStream[t[i]] = Unassigned)
          BY <1>3, <3>3 DEF Waiting, WaitsAt
        <4>3. \A j \in 1..Len(u) : u[j] = t[i] => i = j
          <5>1. \A j \in 1..Len(t) : t[j] = t[i] => i = j
            BY <1>3, <3>3 DEF Waiting, WaitsAt
          <5> HIDE DEF t, u
          <5> QED
            BY <2>2, <4>1, <5>1
        <4>4. WaitsAt(p, i, t[i])'
          BY <1>2, <1>3, <1>5, <4>1, <4>2, <4>3 DEF WaitsAt
        <4> QED
          BY <3>3, <4>1, <4>4
      <3> QED
        <4>1. i \in 1..Len(t) \/ i = Len(t) + 1 \/ q # p
          BY <2>2
        <4> QED
          BY <3>1, <3>2, <3>3, <4>1
    <2>5. ASSUME NEW d \in Outgoing, life'[d] = "created", mStream'[d] = Unassigned
          PROVE  \E i \in 1..Len(mUnassigned'[PeerOf[d]]) : mUnassigned'[PeerOf[d]][i] = d
      <3>1. CASE d = c
        BY <2>2, <3>1
      <3>2. CASE d # c
        <4>1. PICK i \in 1..Len(mUnassigned[PeerOf[d]]) : mUnassigned[PeerOf[d]][i] = d
          BY <1>2, <1>3, <2>5, <3>2, Types DEF Waiting
        <4>2. CASE PeerOf[d] = p
          BY <2>2, <4>1, <4>2
        <4>3. CASE PeerOf[d] # p
          BY <2>1, <4>1, <4>3, Types
        <4> QED
          BY <4>2, <4>3
      <3> QED
        BY <3>1, <3>2
    <2> QED
      BY <2>4, <2>5 DEF Waiting
  <1>11. InFlight'
    BY <1>1, <1>2 DEF InFlight
  <1>12. Origins' /\ Opens' /\ NoCrossTalk'
    BY <1>1, <1>2 DEF Origins, Opens, Counterparts, NoCrossTalk
  <1> QED
    BY <1>6, <1>7, <1>8, <1>9, <1>10, <1>11, <1>12

-----------------------------------------------------------------------------
\* What assignDataChannels does to the map and to the streams.
LEMMA AssignEffect ==
    ASSUME DropsAlone, EnoughStreams, Inv, NEW p \in Peers, AssignDataChannels(p)
    PROVE  /\ ~Assignment(p).thrown
           /\ mUnassigned' = [mUnassigned EXCEPT ![p] = <<>>]
           /\ mStream' \in [Channels -> Streams \cup {Unassigned}]
           /\ mDataChannels' \in [Peers -> SUBSET (Streams \X Channels)]
           /\ mDataChannels[p] \subseteq mDataChannels'[p]
           /\ \A q \in Peers : q # p => mDataChannels'[q] = mDataChannels[q]
           /\ \A e, f \in mDataChannels'[p] : e[1] = f[1] => e = f
           /\ \A e \in mDataChannels'[p] : PeerOf[e[2]] = p /\ mStream'[e[2]] = e[1]
           /\ \A c \in Channels : mStream'[c] # mStream[c] =>
                 /\ mStream[c] = Unassigned
                 /\ c \in Outgoing /\ PeerOf[c] = p /\ Alive(c)
                 /\ mStream'[c] \in ParityStreams(p)
                 /\ <<mStream'[c], c>> \in mDataChannels'[p]
           /\ \A i \in 1..Len(mUnassigned[p]) : Alive(mUnassigned[p][i]) =>
                 mStream'[mUnassigned[p][i]] # Unassigned
  <1> DEFINE r == Assignment(p)
             N == Len(mUnassigned[p])
  <1>1. Served(p, r, N)
    BY AllServed DEF Inv
  <1>2. /\ mDataChannels' = [mDataChannels EXCEPT ![p] = r.map]
        /\ mStream' = r.stream
        /\ mUnassigned' = IF r.thrown THEN mUnassigned ELSE [mUnassigned EXCEPT ![p] = <<>>]
    BY DEF AssignDataChannels
  <1> HIDE DEF r
  <1>3. mDataChannels'[p] = r.map /\ \A q \in Peers : q # p => mDataChannels'[q] = mDataChannels[q]
    BY <1>2 DEF Inv, TypeOK
  <1>4. N \in Nat
    BY LenProperties DEF Inv, TypeOK
  <1>5. r \in Assignments /\ ~r.thrown
    BY <1>1 DEF Served
  <1>6. /\ mStream' \in [Channels -> Streams \cup {Unassigned}]
        /\ mDataChannels' \in [Peers -> SUBSET (Streams \X Channels)]
    BY <1>2, <1>5 DEF Inv, TypeOK, Assignments
  <1> HIDE DEF N
  <1>7. \A i \in 1..N : Alive(mUnassigned[p][i]) => mStream'[mUnassigned[p][i]] # Unassigned
    BY <1>1, <1>2, <1>4 DEF Served, N
  <1> QED
    BY <1>1, <1>2, <1>3, <1>5, <1>6, <1>7 DEF Served, r, N

\* Streams are assigned, and perhaps a channel goes on that was being created.
LEMMA InvAssign ==
    ASSUME DropsAlone, EnoughStreams, Inv, NEW p \in Peers, AssignDataChannels(p),
           sctp' \in [Peers -> {"connecting", "up", "ready"}], opening' \in [Peers -> BOOLEAN],
           UNCHANGED <<mIsOpen, mIsClosed, mReliable, transport, origin, received, sent, net>>,
           \/ life' = life
           \/ \E c \in Outgoing : /\ PeerOf[c] = p /\ life[c] = "created"
                                  /\ life' = [life EXCEPT ![c] = "assigned"]
    PROVE  Inv'
  <1> USE DEF Inv
  <1> DEFINE q0 == mUnassigned[p]
  <1>1. /\ mUnassigned' = [mUnassigned EXCEPT ![p] = <<>>]
        /\ mStream' \in [Channels -> Streams \cup {Unassigned}]
        /\ mDataChannels' \in [Peers -> SUBSET (Streams \X Channels)]
        /\ mDataChannels[p] \subseteq mDataChannels'[p]
        /\ \A q \in Peers : q # p => mDataChannels'[q] = mDataChannels[q]
        /\ \A e, f \in mDataChannels'[p] : e[1] = f[1] => e = f
        /\ \A e \in mDataChannels'[p] : PeerOf[e[2]] = p /\ mStream'[e[2]] = e[1]
    BY AssignEffect
  <1>2. \A c \in Channels : mStream'[c] # mStream[c] =>
           /\ mStream[c] = Unassigned
           /\ c \in Outgoing /\ PeerOf[c] = p /\ Alive(c)
           /\ mStream'[c] \in ParityStreams(p)
           /\ <<mStream'[c], c>> \in mDataChannels'[p]
    BY AssignEffect
  <1>3. \A i \in 1..Len(q0) : Alive(q0[i]) => mStream'[q0[i]] # Unassigned
    BY AssignEffect
  <1>4. \A c \in Channels :
           \/ life'[c] = life[c]
           \/ c \in Outgoing /\ PeerOf[c] = p /\ life[c] = "created" /\ life'[c] = "assigned"
    BY DEF TypeOK
  <1>5. \A c \in Channels : (Alive(c)' <=> Alive(c)) /\ (Dormant(c)' <=> Dormant(c))
    BY <1>4 DEF Alive, Dormant
  <1>6. \A c \in Channels : mStream[c] # Unassigned => mStream'[c] = mStream[c]
    BY <1>2
  <1>7. \A q \in Peers : mUnassigned'[q] = IF q = p THEN <<>> ELSE mUnassigned[q]
    BY <1>1 DEF TypeOK
  <1>8. TypeOK'
    <2>1. mUnassigned' \in [Peers -> Seq(Outgoing)]
      BY <1>1, EmptySeq DEF TypeOK
    <2>2. \A q \in Peers : \A e, f \in mDataChannels'[q] : e[1] = f[1] => e = f
      BY <1>1 DEF TypeOK
    <2>3. life' \in [Channels -> {"new", "created", "assigned", "held", "gone"}]
      BY DEF TypeOK
    <2> QED
      BY <1>1, <2>1, <2>2, <2>3 DEF TypeOK
  <1>9. Lives'
    <2>1. \E created \in Scenarios :
              \A c \in Outgoing : life'[c] # "gone" \/ mIsClosed'[c] => c \in created
      <3>1. \A c \in Outgoing : life'[c] # "gone" \/ mIsClosed'[c] => life[c] # "gone" \/ mIsClosed[c]
        BY <1>4, Types
      <3> QED
        BY <3>1 DEF Lives
    <2>2. \A c \in Outgoing : life'[c] = "gone" /\ mIsClosed'[c] => c \in Droppable
      BY <1>4, Types DEF Lives
    <2>3. \A d \in Incoming : life'[d] \in {"new", "held", "gone"}
      BY <1>4, Types DEF Lives
    <2>4. ASSUME NEW c \in Outgoing, life'[c] = "assigned" PROVE mStream'[c] # Unassigned
      <3>1. CASE mStream[c] # Unassigned
        BY <1>6, <3>1, Types
      <3>2. CASE mStream[c] = Unassigned
        <4>1. life[c] = "created" /\ PeerOf[c] = p /\ Alive(c)
          BY <1>4, <2>4, <3>2, Types DEF Lives, Alive
        <4>2. PICK i \in 1..Len(q0) : q0[i] = c
          BY <3>2, <4>1 DEF Waiting
        <4> QED
          BY <1>3, <4>1, <4>2
      <3> QED
        BY <3>1, <3>2
    <2> QED
      BY <2>1, <2>2, <2>3, <2>4 DEF Lives
  <1>10. Parities'
    BY <1>2, Types DEF Parities, ParityStreams
  <1>11. Bound'
    <2>1. \A c \in Channels : Dormant(c)' => mStream'[c] = Unassigned
      BY <1>2, <1>5 DEF Bound, Dormant, Alive
    <2> QED
      BY <1>6, <2>1 DEF Bound
  <1>12. Mapped'
    <2>1. ASSUME NEW q \in Peers, NEW e \in mDataChannels'[q]
          PROVE  PeerOf[e[2]] = q /\ mStream'[e[2]] = e[1]
      <3>1. CASE q = p
        BY <1>1, <3>1
      <3>2. CASE q # p
        <4>1. e \in mDataChannels[q] /\ e[2] \in Channels
          BY <1>1, <3>2 DEF TypeOK
        <4>2. PeerOf[e[2]] = q /\ mStream[e[2]] = e[1]
          BY <4>1 DEF Mapped
        <4> QED
          BY <1>2, <3>2, <4>1, <4>2
      <3> QED
        BY <3>1, <3>2
    <2>2. ASSUME NEW c \in Outgoing, Alive(c)', mStream'[c] # Unassigned
          PROVE  <<mStream'[c], c>> \in mDataChannels'[PeerOf[c]]
      <3>1. c \in Channels /\ Alive(c) /\ PeerOf[c] \in Peers
        BY <1>5, <2>2, Types
      <3>2. CASE mStream'[c] # mStream[c]
        BY <1>2, <3>1, <3>2
      <3>3. CASE mStream'[c] = mStream[c]
        <4>1. <<mStream[c], c>> \in mDataChannels[PeerOf[c]]
          BY <2>2, <3>1, <3>3 DEF Mapped
        <4> QED
          BY <1>1, <3>1, <3>3, <4>1
      <3> QED
        BY <3>2, <3>3
    <2> QED
      BY <2>1, <2>2 DEF Mapped
  <1>13. Waiting'
    <2>1. ASSUME NEW q \in Peers, NEW i \in 1..Len(mUnassigned'[q])
          PROVE  WaitsAt(q, i, mUnassigned[q][i])'
      <3>1. CASE q = p
        BY <1>7, <2>1, <3>1, EmptySeq
      <3>2. CASE q # p
        <4>1. /\ mUnassigned'[q] = mUnassigned[q]
              /\ mUnassigned[q] \in Seq(Outgoing) /\ i \in 1..Len(mUnassigned[q])
          BY <1>7, <2>1, <3>2 DEF TypeOK
        <4>2. mUnassigned[q][i] \in Channels
          BY <4>1, ElementOfSeq, Types
        <4>3. WaitsAt(q, i, mUnassigned[q][i])
          BY <4>1 DEF Waiting
        <4>4. PeerOf[mUnassigned[q][i]] = q
          BY <4>3 DEF WaitsAt
        <4> QED
          BY <1>2, <1>4, <1>5, <3>2, <4>1, <4>2, <4>3, <4>4 DEF WaitsAt
      <3> QED
        BY <3>1, <3>2
    <2>2. ASSUME NEW c \in Outgoing, life'[c] = "created", mStream'[c] = Unassigned
          PROVE  \E i \in 1..Len(mUnassigned'[PeerOf[c]]) : mUnassigned'[PeerOf[c]][i] = c
      <3>1. life[c] = "created" /\ mStream[c] = Unassigned /\ Alive(c) /\ PeerOf[c] \in Peers
        BY <1>4, <1>6, <2>2, Types DEF Alive
      <3>2. PICK i \in 1..Len(mUnassigned[PeerOf[c]]) : mUnassigned[PeerOf[c]][i] = c
        BY <3>1 DEF Waiting
      <3>3. PeerOf[c] # p
        BY <1>3, <2>2, <3>1, <3>2
      <3> QED
        BY <1>7, <3>1, <3>2, <3>3
    <2> QED
      BY <2>1, <2>2 DEF Waiting
  <1>14. InFlight'
    <2>1. \A c \in Channels : transport[c] => transport'[c] /\ mStream'[c] = mStream[c]
      BY <1>6 DEF Bound
    <2>2. Flies(net, mStream', transport')
      BY <2>1, FliesLater DEF InFlight
    <2> QED
      BY <2>2 DEF InFlight
  <1>15. Origins'
    <2> SUFFICES ASSUME NEW d \in Incoming
                 PROVE  IF mStream'[d] = Unassigned THEN origin'[d] = {}
                        ELSE \E c \in Outgoing : /\ origin'[d] = {c}
                                                 /\ PeerOf[c] = Other(PeerOf[d])
                                                 /\ mStream'[c] = mStream'[d]
      BY DEF Origins
    <2>1. mStream'[d] = mStream[d] /\ origin'[d] = origin[d]
      BY <1>2, Types
    <2> QED
      BY <1>6, <2>1, Types DEF Origins
  <1>16. Opens'
    <2> SUFFICES ASSUME NEW c \in Outgoing, (Counterparts(c) = {})'
                 PROVE  /\ ~mIsOpen'[c]
                        /\ transport'[c] => OpenFirst(c, net'[<<PeerOf[c], mStream'[c]>>])
      BY DEF Opens
    <2>1. Counterparts(c) = {}
      BY DEF Counterparts
    <2>2. transport[c] => mStream'[c] = mStream[c]
      BY <1>6, Types DEF Bound
    <2> QED
      BY <2>1, <2>2 DEF Opens
  <1>17. NoCrossTalk'
    BY DEF NoCrossTalk
  <1> QED
    BY <1>8, <1>9, <1>10, <1>11, <1>12, <1>13, <1>14, <1>15, <1>16, <1>17

\* A step that leaves streams, maps and lives alone, but for channels that close.
LEMMA Unmoved ==
    ASSUME Inv, UNCHANGED <<mDataChannels, mUnassigned, life, mStream, origin>>,
           \A c \in Channels : mIsClosed[c] => mIsClosed'[c],
           \A c \in Channels : mIsClosed'[c] => mIsClosed[c] \/ Alive(c),
           \A c \in Channels : transport'[c] => mStream[c] # Unassigned
    PROVE  Lives' /\ Parities' /\ Bound' /\ Mapped' /\ Waiting' /\ Origins'
  <1> USE DEF Inv
  <1>1. Lives'
    <2>1. \A c \in Outgoing : c \in Channels
      BY Types
    <2> QED
      BY <2>1 DEF Lives, Alive
  <1>2. Parities' /\ Mapped' /\ Waiting' /\ Origins'
    BY DEF Parities, Mapped, Waiting, WaitsAt, Origins, Alive
  <1>3. Bound'
    BY DEF Bound, Dormant, Alive
  <1> QED
    BY <1>1, <1>2, <1>3

\* The transport becomes Connected.
LEMMA InvSctpUp ==
    ASSUME Inv, NEW p \in Peers, SctpUp(p)
    PROVE  Inv'
  <1> USE DEF Inv
  <1>1. /\ sctp' \in [Peers -> {"connecting", "up", "ready"}]
        /\ UNCHANGED <<opening, mDataChannels, mUnassigned, life, net>>
        /\ UNCHANGED <<mStream, mIsOpen, mIsClosed, mReliable, transport, origin, received, sent>>
    BY DEF SctpUp, chan, TypeOK
  <1>2. TypeOK'
    BY <1>1 DEF TypeOK
  <1>3. Lives' /\ Parities' /\ Bound' /\ Mapped' /\ Waiting' /\ Origins'
    BY <1>1, Unmoved DEF Bound
  <1>4. InFlight' /\ Opens' /\ NoCrossTalk'
    BY <1>1 DEF InFlight, Opens, Counterparts, NoCrossTalk
  <1> QED
    BY <1>2, <1>3, <1>4

\* The state callback assigns streams, and no assignment throws.
LEMMA InvSctpConnected ==
    ASSUME DropsAlone, EnoughStreams, Inv, NEW p \in Peers, SctpConnected(p)
    PROVE  Inv'
  <1>1. /\ AssignDataChannels(p)
        /\ sctp' = [sctp EXCEPT ![p] = "ready"]
        /\ opening' = [opening EXCEPT ![p] = ~Assignment(p).thrown]
        /\ UNCHANGED <<life, mIsOpen, mIsClosed, mReliable, transport, origin, received, sent, net>>
    BY DEF SctpConnected
  <1>2. sctp' \in [Peers -> {"connecting", "up", "ready"}]
    BY <1>1 DEF Inv, TypeOK
  <1>3. opening' \in [Peers -> BOOLEAN]
    <2>1. (~Assignment(p).thrown) \in BOOLEAN
      BY Zenon
    <2>2. opening \in [Peers -> BOOLEAN]
      BY DEF Inv, TypeOK
    <2> HIDE DEF Inv
    <2> QED
      BY <1>1, <2>1, <2>2
  <1> QED
    BY <1>1, <1>2, <1>3, InvAssign

\* createDataChannel() assigns streams, if the transport is Connected.
LEMMA InvCreateAssign ==
    ASSUME DropsAlone, EnoughStreams, Inv, NEW c \in Outgoing, CreateAssign(c)
    PROVE  Inv'
  <1> DEFINE p == PeerOf[c]
  <1>1. /\ life[c] = "created" /\ c \in Channels /\ p \in Peers
        /\ UNCHANGED <<sctp, opening, mIsOpen, mReliable, transport, origin, received, sent, net>>
    BY Types DEF CreateAssign, Inv
  <1>2. CASE /\ life' = [life EXCEPT ![c] = "held"]
             /\ UNCHANGED <<mDataChannels, mUnassigned, mStream, mIsClosed>>
    <2> USE DEF Inv
    <2>1. life'[c] = "held" /\ \A d \in Channels : d # c => life'[d] = life[d]
      BY <1>1, <1>2 DEF TypeOK
    <2>2. \A d \in Channels : (Alive(d)' <=> Alive(d)) /\ (Dormant(d)' <=> Dormant(d))
      BY <1>1, <1>2, <2>1 DEF Alive, Dormant
    <2>3. TypeOK'
      BY <1>1, <1>2 DEF TypeOK
    <2>4. Lives'
      BY <1>1, <1>2, <2>1, Types DEF Lives
    <2>5. Parities' /\ Bound'
      BY <1>1, <1>2, <2>2 DEF Parities, Bound
    <2>6. Mapped'
      BY <1>2, <2>2, Types DEF Mapped
    <2>7. Waiting'
      <3>1. ASSUME NEW q \in Peers, NEW i \in 1..Len(mUnassigned[q])
            PROVE  WaitsAt(q, i, mUnassigned[q][i])'
        <4>1. mUnassigned[q] \in Seq(Outgoing)
          BY DEF TypeOK
        <4>2. mUnassigned[q][i] \in Channels
          BY <4>1, ElementOfSeq, Types
        <4>3. WaitsAt(q, i, mUnassigned[q][i])
          BY DEF Waiting
        <4> QED
          BY <1>1, <1>2, <2>1, <2>2, <4>2, <4>3 DEF WaitsAt
      <3>2. \A d \in Outgoing : life'[d] = "created" => life[d] = "created"
        BY <2>1, Types
      <3> QED
        BY <1>2, <3>1, <3>2 DEF Waiting
    <2>8. InFlight' /\ Origins' /\ Opens' /\ NoCrossTalk'
      BY <1>1, <1>2 DEF InFlight, Origins, Opens, Counterparts, NoCrossTalk
    <2> QED
      BY <2>3, <2>4, <2>5, <2>6, <2>7, <2>8
  <1>3. CASE /\ AssignDataChannels(p)
             /\ life' = [life EXCEPT ![c] = IF Assignment(p).thrown THEN "gone" ELSE "assigned"]
             /\ mIsClosed' = [mIsClosed EXCEPT ![c] = @ \/ Assignment(p).thrown]
    <2>1. ~Assignment(p).thrown
      BY <1>1, <1>3, AssignEffect
    <2>2. life' = [life EXCEPT ![c] = "assigned"]
      BY <1>3, <2>1
    <2>3. mIsClosed' = mIsClosed
      <3>1. mIsClosed \in [Channels -> BOOLEAN]
        BY Types DEF Inv
      <3>2. mIsClosed' = [mIsClosed EXCEPT ![c] = mIsClosed[c]]
        <4>1. (mIsClosed[c] \/ Assignment(p).thrown) = mIsClosed[c]
          BY <1>1, <2>1, <3>1
        <4> QED
          BY <1>3, <4>1
      <3> QED
        BY <1>1, <3>1, <3>2
    <2>4. sctp' \in [Peers -> {"connecting", "up", "ready"}] /\ opening' \in [Peers -> BOOLEAN]
      BY <1>1 DEF Inv, TypeOK
    <2> QED
      BY <1>1, <1>3, <2>2, <2>3, <2>4, InvAssign
  <1> QED
    BY <1>2, <1>3 DEF CreateAssign

-----------------------------------------------------------------------------
\* The messages that are made are messages.
LEMMA Messages ==
    /\ \A t \in {"open", "ack", "data", "reset"} : \A c \in Channels \cup Peers :
           \A o \in BOOLEAN : Msg(t, c, o) \in Message
    /\ \A t, c, o : Msg(t, c, o).type = t /\ Msg(t, c, o).from = c /\ Msg(t, c, o).ordered = o
  BY DEF Msg, Message

\* Channels send their OPEN, each on its stream.
LEMMA Opened ==
    ASSUME DropsAlone, Inv, NEW p \in Peers, NEW cs \in SUBSET Outgoing, OpenAll(p, cs),
           \A c \in cs : PeerOf[c] = p /\ mStream[c] # Unassigned
    PROVE  /\ net' \in Nets /\ transport' \in [Channels -> BOOLEAN]
           /\ \A c \in Channels : transport'[c] <=> transport[c] \/ c \in cs
           /\ Flies(net', mStream, transport')
           /\ \A c \in Outgoing : Counterparts(c) = {} /\ transport'[c] =>
                 OpenFirst(c, net'[<<PeerOf[c], mStream[c]>>])
  <1> USE DEF Inv
  <1> DEFINE Here(l) == {d \in cs : l = <<p, mStream[d]>>}
             Sent(l) == {Msg("open", c, TRUE) : c \in Here(l)}
             O(d) == Msg("open", d, TRUE)
  <1>1. /\ net' = [l \in Peers \X Streams |-> net[l] \o SetToSeq(Sent(l))]
        /\ transport' = [c \in Channels |-> transport[c] \/ c \in cs]
    BY DEF OpenAll
  <1>2. /\ transport' \in [Channels -> BOOLEAN]
        /\ \A c \in Channels : transport'[c] <=> transport[c] \/ c \in cs
    <2>1. transport \in [Channels -> BOOLEAN]
      BY Types
    <2>2. \A c \in Channels : (transport[c] \/ c \in cs) \in BOOLEAN
      BY Zenon
    <2> QED
      BY <1>1, <2>1, <2>2
  <1>3. ASSUME NEW l \in Peers \X Streams, Here(l) = {}
        PROVE  net'[l] = net[l]
    <2>1. Sent(l) = {}
      BY <1>3
    <2>2. net[l] \in Seq(Message)
      BY DEF TypeOK
    <2> HIDE DEF Sent
    <2>3. net'[l] = net[l] \o <<>>
      BY <1>1, <2>1, OneToSeq
    <2> QED
      BY <2>2, <2>3, ConcatEmptySeq
  <1>4. ASSUME NEW l \in Peers \X Streams, NEW d \in Here(l)
        PROVE  net'[l] = Append(net[l], O(d))
    <2>1. \A e \in Here(l) : e = d
      BY Unique
    <2>2. Sent(l) = {O(d)}
      BY <2>1
    <2>3. net[l] \in Seq(Message) /\ O(d) \in Message
      BY Messages, Types DEF TypeOK
    <2> HIDE DEF Sent, O, Here
    <2>4. net'[l] = net[l] \o <<O(d)>>
      BY <1>1, <2>2, OneToSeq
    <2> QED
      BY <2>3, <2>4, AppendIsConcat
  <1>5. \A d \in cs : /\ O(d) \in Message /\ O(d).type = "open" /\ O(d).from = d /\ O(d).ordered
                      /\ <<p, mStream[d]>> \in Peers \X Streams /\ d \in Here(<<p, mStream[d]>>)
    <2> SUFFICES ASSUME NEW d \in cs
                 PROVE  /\ O(d) \in Message /\ O(d).type = "open" /\ O(d).from = d /\ O(d).ordered
                        /\ <<p, mStream[d]>> \in Peers \X Streams /\ d \in Here(<<p, mStream[d]>>)
      OBVIOUS
    <2>1. d \in Channels /\ mStream[d] \in Streams
      BY Types
    <2>2. O(d) \in Message /\ O(d).type = "open" /\ O(d).from = d /\ O(d).ordered
      BY <2>1 DEF Msg, Message
    <2> QED
      BY <2>1, <2>2
  <1>6. \A l \in Peers \X Streams : net'[l] \in Seq(Message)
    <2> SUFFICES ASSUME NEW l \in Peers \X Streams PROVE net'[l] \in Seq(Message)
      OBVIOUS
    <2>1. net[l] \in Seq(Message)
      BY DEF TypeOK
    <2>2. CASE Here(l) = {}
      BY <1>3, <2>1, <2>2
    <2>3. CASE Here(l) # {}
      <3>1. PICK d \in Here(l) : TRUE
        BY <2>3
      <3>2. O(d) \in Message /\ net'[l] = Append(net[l], O(d))
        BY <1>4, <1>5
      <3> HIDE DEF O
      <3> QED
        BY <2>1, <3>2, AppendProperties
    <2> QED
      BY <2>2, <2>3
  <1>7. net' \in Nets
    BY <1>1, <1>6 DEF Nets
  <1> HIDE DEF Here, Sent, O
  <1>8. Flies(net', mStream, transport')
    <2> SUFFICES ASSUME NEW q \in Peers, NEW s \in Streams, NEW i \in 1..Len(net'[<<q, s>>])
                 PROVE  SentFrom(net'[<<q, s>>][i], q, s, mStream, transport')
      BY DEF Flies
    <2> DEFINE l == <<q, s>>
               t == net[l]
    <2>1. ASSUME NEW j \in 1..Len(t) PROVE SentFrom(t[j], q, s, mStream, transport')
      <3>1. SentFrom(t[j], q, s, mStream, transport)
        BY DEF InFlight, Flies
      <3> HIDE DEF t
      <3> QED
        BY <1>2, <3>1 DEF SentFrom
    <2>2. l \in Peers \X Streams
      OBVIOUS
    <2>3. CASE Here(l) = {}
      <3>1. net'[l] = t
        BY <1>3, <2>2, <2>3
      <3> QED
        BY <2>1, <3>1
    <2>4. CASE Here(l) # {}
      <3>1. PICK d \in Here(l) : TRUE
        BY <2>4
      <3>2. d \in cs /\ p = q /\ mStream[d] = s /\ d \in Channels
        BY <3>1, Types DEF Here
      <3>3. net'[l] = Append(t, O(d)) /\ t \in Seq(Message)
        BY <1>4, <2>2, <3>1 DEF TypeOK
      <3>4. SentFrom(O(d), q, s, mStream, transport')
        BY <1>2, <1>5, <3>2 DEF SentFrom
      <3> HIDE DEF t, l
      <3>5. /\ Len(t) \in Nat /\ Len(net'[l]) = Len(t) + 1
            /\ \A j \in 1..Len(t) : net'[l][j] = t[j]
            /\ net'[l][Len(t) + 1] = O(d)
        BY <1>5, <3>2, <3>3, AppendProperties, LenProperties
      <3>6. i \in 1..Len(t) \/ i = Len(t) + 1
        BY <3>5 DEF l
      <3> QED
        BY <2>1, <3>4, <3>5, <3>6 DEF l
    <2> QED
      BY <2>3, <2>4
  <1>9. ASSUME NEW c \in Outgoing, Counterparts(c) = {}, transport'[c]
        PROVE  OpenFirst(c, net'[<<PeerOf[c], mStream[c]>>])
    <2> DEFINE l == <<PeerOf[c], mStream[c]>>
               t == net[l]
    <2>1. c \in Channels /\ PeerOf[c] \in Peers /\ mStream[c] # Unassigned
      BY <1>2, <1>9, Types DEF Bound
    <2>2. l \in Peers \X Streams /\ t \in Seq(Message)
      BY <2>1, Types DEF TypeOK
    <2>3. CASE transport[c]
      <3>1. OpenFirst(c, t)
        BY <1>9, <2>3 DEF Opens
      <3>2. CASE Here(l) = {}
        BY <1>3, <2>2, <3>1, <3>2
      <3>3. CASE Here(l) # {}
        <4>1. PICK d \in Here(l) : TRUE
          BY <3>3
        <4>2. net'[l] = Append(t, O(d)) /\ O(d) \in Message /\ O(d).ordered
          BY <1>4, <1>5, <2>2, <4>1 DEF Here
        <4> QED
          BY <2>2, <3>1, <4>2, OpenFirstAppend
      <3> QED
        BY <3>2, <3>3
    <2>4. CASE ~transport[c]
      <3>1. c \in cs /\ c \in Here(l) /\ PeerOf[c] = p
        BY <1>2, <1>5, <1>9, <2>1, <2>4
      <3>2. net'[l] = Append(t, O(c)) /\ O(c) \in Message /\ O(c).type = "open" /\ O(c).from = c
        BY <1>4, <1>5, <2>2, <3>1
      <3>3. \A i \in 1..Len(t) : ~(t[i].type = "data" /\ t[i].from = c)
        <4> SUFFICES ASSUME NEW i \in 1..Len(t), t[i].type = "data", t[i].from = c
                     PROVE  FALSE
          OBVIOUS
        <4>1. SentFrom(t[i], PeerOf[c], mStream[c], mStream, transport)
          BY <2>1, Types DEF InFlight, Flies
        <4> QED
          BY <2>4, <4>1 DEF SentFrom
      <3> DEFINE u == net'[l]
      <3> HIDE DEF t, l
      <3>4. /\ Len(t) \in Nat /\ Len(u) = Len(t) + 1
            /\ \A j \in 1..Len(t) : u[j] = t[j]
            /\ u[Len(t) + 1] = O(c)
        BY <2>2, <3>2, AppendProperties, LenProperties
      <3> HIDE DEF u
      <3>5. Len(t) + 1 \in 1..Len(u) /\ \A i \in 1..Len(u) : i \in 1..Len(t) \/ i = Len(t) + 1
        BY <3>4
      <3>6. \A i \in 1..Len(u) : ~(u[i].type = "data" /\ u[i].from = c)
        BY <3>2, <3>3, <3>4, <3>5
      <3>7. OpenFirst(c, u)
        BY <3>2, <3>4, <3>5, <3>6 DEF OpenFirst
      <3> QED
        BY <3>7 DEF u, l
    <2> QED
      BY <2>3, <2>4
  <1> QED
    BY <1>2, <1>7, <1>8, <1>9

\* The OPEN of a channel, or of all, leaves the invariant.
LEMMA InvCreateOpen ==
    ASSUME DropsAlone, Inv, NEW c \in Outgoing, CreateOpen(c)
    PROVE  Inv'
  <1> USE DEF Inv
  <1>1. /\ life[c] = "assigned" /\ life' = [life EXCEPT ![c] = "held"]
        /\ OpenAll(PeerOf[c], {c})
        /\ UNCHANGED <<sctp, opening, mDataChannels, mUnassigned, mStream, mIsOpen, mIsClosed,
                       mReliable, origin, received, sent>>
    BY DEF CreateOpen
  <1>2. c \in Channels /\ PeerOf[c] \in Peers /\ mStream[c] # Unassigned
    BY <1>1, Types DEF Lives
  <1>3. /\ net' \in Nets /\ transport' \in [Channels -> BOOLEAN]
        /\ \A d \in Channels : transport'[d] <=> transport[d] \/ d \in {c}
        /\ Flies(net', mStream, transport')
        /\ \A d \in Outgoing : Counterparts(d) = {} /\ transport'[d] =>
              OpenFirst(d, net'[<<PeerOf[d], mStream[d]>>])
    BY <1>1, <1>2, Opened
  <1>4. life'[c] = "held" /\ \A d \in Channels : d # c => life'[d] = life[d]
    BY <1>1, <1>2 DEF TypeOK
  <1>5. \A d \in Channels : (Alive(d)' <=> Alive(d)) /\ (Dormant(d)' <=> Dormant(d))
    BY <1>1, <1>4 DEF Alive, Dormant
  <1>6. TypeOK'
    <2>1. life' \in [Channels -> {"new", "created", "assigned", "held", "gone"}]
      BY <1>1 DEF TypeOK
    <2>2. net' \in [Peers \X Streams -> Seq(Message)]
      BY <1>3 DEF Nets
    <2> QED
      BY <1>1, <1>3, <2>1, <2>2 DEF TypeOK
  <1>7. Lives'
    BY <1>1, <1>4, Types DEF Lives
  <1>8. Parities' /\ Bound'
    BY <1>1, <1>2, <1>3, <1>5 DEF Parities, Bound
  <1>9. Mapped'
    BY <1>1, <1>5, Types DEF Mapped
  <1>10. Waiting'
    <2>1. ASSUME NEW q \in Peers, NEW i \in 1..Len(mUnassigned[q])
          PROVE  WaitsAt(q, i, mUnassigned[q][i])'
      <3>1. mUnassigned[q] \in Seq(Outgoing)
        BY DEF TypeOK
      <3>2. mUnassigned[q][i] \in Channels
        BY <3>1, ElementOfSeq, Types
      <3>3. WaitsAt(q, i, mUnassigned[q][i])
        BY DEF Waiting
      <3> QED
        BY <1>1, <1>4, <1>5, <3>2, <3>3 DEF WaitsAt
    <2>2. \A d \in Outgoing : life'[d] = "created" => life[d] = "created"
      BY <1>4, Types
    <2> QED
      BY <1>1, <2>1, <2>2 DEF Waiting
  <1>11. InFlight'
    BY <1>1, <1>3 DEF InFlight
  <1>12. Origins' /\ NoCrossTalk'
    BY <1>1 DEF Origins, NoCrossTalk
  <1>13. Opens'
    BY <1>1, <1>3 DEF Opens, Counterparts
  <1> QED
    BY <1>6, <1>7, <1>8, <1>9, <1>10, <1>11, <1>12, <1>13

\* openDataChannels() sends the OPEN of every channel that has not sent it.
LEMMA InvOpenDataChannels ==
    ASSUME DropsAlone, Inv, NEW p \in Peers, OpenDataChannels(p)
    PROVE  Inv'
  <1> USE DEF Inv
  <1> DEFINE cs == {c \in Outgoing : /\ c \in UNION {Found(p, s) : s \in Streams}
                                     /\ ~mIsOpen[c] /\ ~mIsClosed[c]}
  <1>1. /\ opening' = [opening EXCEPT ![p] = FALSE] /\ OpenAll(p, cs)
        /\ UNCHANGED <<sctp, mDataChannels, mUnassigned, life, mStream, mIsOpen, mIsClosed,
                       mReliable, origin, received, sent>>
    BY DEF OpenDataChannels
  <1>2. \A c \in cs : PeerOf[c] = p /\ mStream[c] # Unassigned
    <2> SUFFICES ASSUME NEW c \in cs PROVE PeerOf[c] = p /\ mStream[c] # Unassigned
      OBVIOUS
    <2>1. PICK s \in Streams : c \in Found(p, s)
      OBVIOUS
    <2>2. c \in Channels /\ PeerOf[c] = p /\ mStream[c] = s
      <3> HIDE DEF cs
      <3> QED
        BY <2>1, FoundBelongs
    <2> QED
      BY <2>2, Types
  <1>3. cs \in SUBSET Outgoing
    OBVIOUS
  <1> HIDE DEF cs
  <1>4. /\ net' \in Nets /\ transport' \in [Channels -> BOOLEAN]
        /\ \A d \in Channels : transport'[d] <=> transport[d] \/ d \in cs
        /\ Flies(net', mStream, transport')
        /\ \A d \in Outgoing : Counterparts(d) = {} /\ transport'[d] =>
              OpenFirst(d, net'[<<PeerOf[d], mStream[d]>>])
    BY <1>1, <1>2, <1>3, Opened
  <1>5. TypeOK'
    <2>1. net' \in [Peers \X Streams -> Seq(Message)] /\ opening' \in [Peers -> BOOLEAN]
      BY <1>1, <1>4 DEF Nets, TypeOK
    <2> QED
      BY <1>1, <1>4, <2>1 DEF TypeOK
  <1>6. Lives' /\ Parities' /\ Bound' /\ Mapped' /\ Waiting' /\ Origins'
    BY <1>1, <1>2, <1>4, Unmoved DEF Bound
  <1>7. InFlight' /\ NoCrossTalk'
    BY <1>1, <1>4 DEF InFlight, NoCrossTalk
  <1>8. Opens'
    BY <1>1, <1>4 DEF Opens, Counterparts
  <1> QED
    BY <1>5, <1>6, <1>7, <1>8

\* Data is sent.
LEMMA InvSendData ==
    ASSUME Inv, NEW c \in Channels, SendData(c)
    PROVE  Inv'
  <1> USE DEF Inv
  <1> DEFINE p == PeerOf[c]
             s == mStream[c]
             m == Msg("data", c, mReliable[c] \/ ~mIsOpen[c])
  <1>1. /\ transport[c] /\ sent' = [sent EXCEPT ![c] = @ + 1]
        /\ net' = Post(net, p, s, m)
        /\ UNCHANGED <<sctp, opening, mDataChannels, mUnassigned, life, mStream, mIsOpen, mIsClosed,
                       mReliable, transport, origin, received>>
    BY DEF SendData
  <1>2. p \in Peers /\ s \in Streams /\ net \in Nets
    BY <1>1, Types DEF Bound
  <1>3. /\ m \in Message /\ m.type = "data" /\ m.from = c /\ (~mIsOpen[c] => m.ordered)
    <2>1. (mReliable[c] \/ ~mIsOpen[c]) \in BOOLEAN
      BY Zenon
    <2>2. m \in Message
      BY <2>1 DEF Msg, Message
    <2> QED
      BY <2>2 DEF Msg
  <1>4. SentFrom(m, p, s, mStream, transport)
    BY <1>1, <1>3 DEF SentFrom
  <1> HIDE DEF m
  <1>5. /\ net' \in Nets /\ Flies(net', mStream, transport)
        /\ \A d : \A l \in Peers \X Streams :
              OpenFirst(d, net[l]) /\ (m.from = d => m.ordered) => OpenFirst(d, net'[l])
    BY <1>1, <1>2, <1>3, <1>4, Posted DEF InFlight
  <1>6. TypeOK'
    <2>1. net' \in [Peers \X Streams -> Seq(Message)] /\ sent' \in [Channels -> Nat]
      BY <1>1, <1>5 DEF Nets, TypeOK
    <2> QED
      BY <1>1, <2>1 DEF TypeOK
  <1>7. Lives' /\ Parities' /\ Bound' /\ Mapped' /\ Waiting' /\ Origins'
    BY <1>1, Unmoved DEF Bound
  <1>8. InFlight' /\ NoCrossTalk'
    BY <1>1, <1>5 DEF InFlight, NoCrossTalk
  <1>9. Opens'
    <2> SUFFICES ASSUME NEW d \in Outgoing, Counterparts(d) = {}
                 PROVE  /\ ~mIsOpen[d]
                        /\ transport[d] => OpenFirst(d, net'[<<PeerOf[d], mStream[d]>>])
      BY <1>1 DEF Opens, Counterparts
    <2>1. ~mIsOpen[d] /\ (transport[d] => OpenFirst(d, net[<<PeerOf[d], mStream[d]>>]))
      BY DEF Opens
    <2>2. transport[d] => <<PeerOf[d], mStream[d]>> \in Peers \X Streams
      BY Types DEF Bound
    <2> QED
      BY <1>3, <1>5, <2>1, <2>2
  <1> QED
    BY <1>6, <1>7, <1>8, <1>9

\* A reset leaves the messages in flight and the OPENs right.
LEMMA ResetPosted ==
    ASSUME NEW n \in Nets, NEW p \in Peers, NEW s \in Streams
    PROVE  /\ PostReset(n, p, s) \in Nets
           /\ \A stream, associated :
                 Flies(n, stream, associated) => Flies(PostReset(n, p, s), stream, associated)
           /\ \A c : \A l \in Peers \X Streams :
                 OpenFirst(c, n[l]) => OpenFirst(c, PostReset(n, p, s)[l])
  <1> DEFINE m == Msg("reset", p, TRUE)
  <1>1. m \in Message /\ m.type = "reset" /\ m.ordered
    BY DEF Msg, Message
  <1>2. PostReset(n, p, s) = Post(n, p, s, m)
    BY DEF PostReset
  <1> HIDE DEF m
  <1>3. \A stream, associated : SentFrom(m, p, s, stream, associated)
    BY <1>1 DEF SentFrom
  <1> QED
    BY <1>1, <1>2, <1>3, Posted

\* A channel is closed, and perhaps dropped.
LEMMA InvClose ==
    ASSUME Inv, NEW c \in Channels, Close(c)
    PROVE  Inv'
  <1> USE DEF Inv
  <1>1. /\ life[c] = "held"
        /\ life' = life \/ (c \in Droppable /\ life' = [life EXCEPT ![c] = "gone"])
        /\ net' = Closing(c, net)
        /\ mIsOpen' = [mIsOpen EXCEPT ![c] = FALSE]
        /\ mIsClosed' = [mIsClosed EXCEPT ![c] = TRUE]
        /\ UNCHANGED <<sctp, opening, mDataChannels, mUnassigned, mStream, mReliable, transport,
                       origin, received, sent>>
    BY DEF Close
  <1>2. /\ mIsOpen' \in [Channels -> BOOLEAN] /\ mIsClosed' \in [Channels -> BOOLEAN]
        /\ mIsClosed'[c] /\ \A d \in Channels : d # c => mIsClosed'[d] = mIsClosed[d]
        /\ ~mIsOpen'[c] /\ \A d \in Channels : mIsOpen'[d] => mIsOpen[d]
    BY <1>1, Types
  <1>3. /\ \A d \in Channels : d # c => life'[d] = life[d]
        /\ life'[c] = "held" \/ (life'[c] = "gone" /\ c \in Droppable)
        /\ life' \in [Channels -> {"new", "created", "assigned", "held", "gone"}]
    BY <1>1 DEF TypeOK
  <1>4. \A d \in Channels : (Alive(d)' => Alive(d)) /\ (Dormant(d)' => Dormant(d))
    BY <1>1, <1>2, <1>3 DEF Alive, Dormant
  <1>5. /\ net' \in Nets /\ Flies(net', mStream, transport)
        /\ \A d : \A l \in Peers \X Streams : OpenFirst(d, net[l]) => OpenFirst(d, net'[l])
    <2>1. CASE mIsOpen[c] /\ transport[c]
      <3>1. /\ net' = PostReset(net, PeerOf[c], mStream[c])
            /\ PeerOf[c] \in Peers /\ mStream[c] \in Streams /\ net \in Nets
        BY <1>1, <2>1, Types DEF Closing, Bound
      <3> QED
        BY <3>1, ResetPosted DEF InFlight
    <2>2. CASE ~(mIsOpen[c] /\ transport[c])
      <3>1. net' = net /\ net \in Nets
        BY <1>1, <2>2, Types DEF Closing
      <3> QED
        BY <3>1 DEF InFlight
    <2> QED
      BY <2>1, <2>2
  <1>6. TypeOK'
    <2>1. net' \in [Peers \X Streams -> Seq(Message)]
      BY <1>5 DEF Nets
    <2> QED
      BY <1>1, <1>2, <1>3, <2>1 DEF TypeOK
  <1>7. Lives'
    <2>1. \A d \in Outgoing : life'[d] # "gone" \/ mIsClosed'[d] => life[d] # "gone" \/ mIsClosed[d]
      BY <1>1, <1>2, <1>3, Types
    <2>2. \A d \in Outgoing : life'[d] = "gone" /\ mIsClosed'[d] => d \in Droppable
      BY <1>2, <1>3, Types DEF Lives
    <2>3. \A d \in Incoming : life'[d] \in {"new", "held", "gone"}
      BY <1>3, Types DEF Lives
    <2>4. \A d \in Outgoing : life'[d] = "assigned" => mStream'[d] # Unassigned
      BY <1>1, <1>3, Types DEF Lives
    <2>5. \E created \in Scenarios :
              \A d \in Outgoing : life'[d] # "gone" \/ mIsClosed'[d] => d \in created
      BY <2>1 DEF Lives
    <2> QED
      BY <2>2, <2>3, <2>4, <2>5 DEF Lives
  <1>8. Parities' /\ Bound'
    BY <1>1, <1>4 DEF Parities, Bound
  <1>9. Mapped'
    BY <1>1, <1>4, Types DEF Mapped
  <1>10. Waiting'
    <2>1. ASSUME NEW q \in Peers, NEW i \in 1..Len(mUnassigned[q])
          PROVE  WaitsAt(q, i, mUnassigned[q][i])'
      <3>1. mUnassigned[q] \in Seq(Outgoing)
        BY DEF TypeOK
      <3>2. mUnassigned[q][i] \in Channels
        BY <3>1, ElementOfSeq, Types
      <3>3. WaitsAt(q, i, mUnassigned[q][i])
        BY DEF Waiting
      <3> QED
        BY <1>1, <1>3, <1>4, <3>2, <3>3 DEF WaitsAt
    <2>2. \A d \in Outgoing : life'[d] = "created" => life[d] = "created"
      BY <1>3, Types
    <2> QED
      BY <1>1, <2>1, <2>2 DEF Waiting
  <1>11. InFlight' /\ Origins' /\ NoCrossTalk'
    BY <1>1, <1>5 DEF InFlight, Origins, NoCrossTalk
  <1>12. Opens'
    <2> SUFFICES ASSUME NEW d \in Outgoing, Counterparts(d) = {}
                 PROVE  /\ ~mIsOpen'[d]
                        /\ transport[d] => OpenFirst(d, net'[<<PeerOf[d], mStream[d]>>])
      BY <1>1 DEF Opens, Counterparts
    <2>1. ~mIsOpen[d] /\ (transport[d] => OpenFirst(d, net[<<PeerOf[d], mStream[d]>>]))
      BY DEF Opens
    <2>2. transport[d] => <<PeerOf[d], mStream[d]>> \in Peers \X Streams
      BY Types DEF Bound
    <2> QED
      BY <1>2, <1>5, <2>1, <2>2, Types
  <1> QED
    BY <1>6, <1>7, <1>8, <1>9, <1>10, <1>11, <1>12

-----------------------------------------------------------------------------
\* The sender of a message and the channel that receives it belong together.
LEMMA Meant ==
    ASSUME DropsAlone, Inv, NEW q \in Peers, NEW s \in Streams, NEW m,
           SentFrom(m, Other(q), s, mStream, transport), m.type # "reset",
           NEW c \in Found(q, s)
    PROVE  \/ c \in Incoming /\ m.from \in Outgoing /\ m.from \in origin[c]
           \/ m.from \in Incoming /\ c \in Outgoing /\ c \in origin[m.from]
  <1> USE DEF Inv
  <1>1. /\ c \in Channels /\ PeerOf[c] = q /\ mStream[c] = s /\ s # Unassigned
    <2>1. s # Unassigned
      BY DEF Streams, Unassigned
    <2> QED
      BY <2>1, FoundBelongs
  <1>2. m.from \in Channels /\ PeerOf[m.from] = Other(q) /\ mStream[m.from] = s
    BY DEF SentFrom
  <1>3. /\ Other(q) \in Peers /\ Other(Other(q)) = q
        /\ FirstStream(Other(q)) # FirstStream(q)
    BY TwoPeers
  <1>4. CASE c \in Incoming
    <2>1. PICK x \in Outgoing : origin[c] = {x} /\ PeerOf[x] = Other(q) /\ mStream[x] = s
      BY <1>1, <1>4 DEF Origins
    <2>2. s % 2 = FirstStream(Other(q))
      BY <1>1, <1>4 DEF Parities
    <2>3. m.from \in Outgoing
      BY <1>1, <1>2, <1>3, <2>2, Types DEF Parities
    <2>4. m.from = x
      BY <1>1, <1>2, <2>1, <2>3, Unique
    <2> QED
      BY <1>4, <2>1, <2>3, <2>4
  <1>5. CASE c \in Outgoing
    <2>1. s % 2 = FirstStream(q)
      BY <1>1, <1>5 DEF Parities
    <2>2. m.from \in Incoming
      BY <1>1, <1>2, <1>3, <2>1, Types DEF Parities
    <2>3. PICK x \in Outgoing : origin[m.from] = {x} /\ PeerOf[x] = q /\ mStream[x] = s
      BY <1>1, <1>2, <1>3, <2>2 DEF Origins
    <2>4. c = x
      BY <1>1, <1>5, <2>3, Unique
    <2> QED
      BY <1>5, <2>2, <2>3, <2>4
  <1> QED
    BY <1>1, <1>4, <1>5, Types

\* What is left in flight when a message that is not an OPEN was received.
LEMMA InvReceiveUnexpected ==
    ASSUME Inv, NEW q \in Peers, NEW s \in Streams,
           NEW m, m.type # "open", NEW rest \in Nets, Flies(rest, mStream, transport),
           \A c : \A l \in Peers \X Streams : OpenFirst(c, net[l]) => OpenFirst(c, rest[l]),
           ReceiveUnexpected(q, s, m, rest), UNCHANGED <<sctp, opening, mUnassigned>>
    PROVE  Inv'
  <1> USE DEF Inv
  <1>1. /\ net' = rest \/ net' = PostReset(rest, q, s)
        /\ UNCHANGED <<mDataChannels, life, mStream, mIsOpen, mIsClosed, mReliable, transport,
                       origin, received, sent>>
    BY DEF ReceiveUnexpected, chan
  <1>2. /\ net' \in Nets /\ Flies(net', mStream, transport)
        /\ \A c : \A l \in Peers \X Streams : OpenFirst(c, net[l]) => OpenFirst(c, net'[l])
    BY <1>1, ResetPosted
  <1>3. TypeOK'
    <2>1. net' \in [Peers \X Streams -> Seq(Message)]
      BY <1>2 DEF Nets
    <2> QED
      BY <1>1, <2>1 DEF TypeOK
  <1>4. Lives' /\ Parities' /\ Bound' /\ Mapped' /\ Waiting' /\ Origins'
    BY <1>1, Unmoved DEF Bound
  <1>5. InFlight' /\ NoCrossTalk'
    BY <1>1, <1>2 DEF InFlight, NoCrossTalk
  <1>6. Opens'
    <2> SUFFICES ASSUME NEW c \in Outgoing, Counterparts(c) = {}
                 PROVE  /\ ~mIsOpen[c]
                        /\ transport[c] => OpenFirst(c, net'[<<PeerOf[c], mStream[c]>>])
      BY <1>1 DEF Opens, Counterparts
    <2>1. transport[c] => <<PeerOf[c], mStream[c]>> \in Peers \X Streams
      BY Types DEF Bound
    <2> QED
      BY <1>2, <2>1 DEF Opens
  <1> QED
    BY <1>3, <1>4, <1>5, <1>6

\* A channel receives a message that is not an OPEN.
LEMMA InvReceiveOther ==
    ASSUME DropsAlone, Inv, NEW q \in Peers, NEW s \in Streams,
           NEW m, SentFrom(m, Other(q), s, mStream, transport), m.type # "open",
           NEW rest \in Nets, Flies(rest, mStream, transport),
           \A c : \A l \in Peers \X Streams : OpenFirst(c, net[l]) => OpenFirst(c, rest[l]),
           ReceiveOther(q, s, m, rest), UNCHANGED <<sctp, opening, mUnassigned>>
    PROVE  Inv'
  <1> USE DEF Inv
  <1>1. PICK c \in Found(q, s) :
            \/ mIsClosed[c] /\ UNCHANGED <<mIsOpen, mIsClosed, received>>
            \/ ~mIsClosed[c] /\ m.type = "ack" /\ ReceiveAck(c)
            \/ ~mIsClosed[c] /\ m.type = "reset" /\ ReceiveReset(c)
            \/ ~mIsClosed[c] /\ m.type = "data" /\ ReceiveData(c, m)
    BY DEF ReceiveOther
  <1>2. /\ net' = rest
        /\ UNCHANGED <<mDataChannels, life, mStream, mReliable, transport, origin, sent>>
    BY DEF ReceiveOther
  <1>3. c \in Channels /\ Alive(c) /\ PeerOf[c] = q /\ mStream[c] = s
    BY FoundBelongs
  <1>4. /\ mIsOpen' \in [Channels -> BOOLEAN] /\ mIsClosed' \in [Channels -> BOOLEAN]
        /\ \A d \in Channels : mIsClosed[d] => mIsClosed'[d]
        /\ \A d \in Channels : mIsClosed'[d] => mIsClosed[d] \/ Alive(d)
        /\ \A d \in Channels : mIsOpen'[d] => mIsOpen[d] \/ (d = c /\ m.type = "ack")
    BY <1>1, <1>3, Types DEF ReceiveAck, ReceiveReset, ReceiveData
  <1>5. received' = received \/ (m.type = "data" /\ received' = [received EXCEPT ![c] = Append(@, m.from)])
    BY <1>1 DEF ReceiveAck, ReceiveReset, ReceiveData
  <1>6. TypeOK'
    <2>1. net' \in [Peers \X Streams -> Seq(Message)]
      BY <1>2 DEF Nets
    <2>2. received' \in [Channels -> Seq(Channels)]
      <3>1. received \in [Channels -> Seq(Channels)]
        BY DEF TypeOK
      <3>2. ASSUME m.type = "data", received' = [received EXCEPT ![c] = Append(@, m.from)]
            PROVE  received' \in [Channels -> Seq(Channels)]
        <4>1. m.from \in Channels /\ received[c] \in Seq(Channels)
          BY <1>3, <3>1, <3>2 DEF SentFrom
        <4>2. Append(received[c], m.from) \in Seq(Channels)
          BY <4>1, AppendProperties
        <4> QED
          BY <3>1, <3>2, <4>2
      <3> QED
        BY <1>5, <3>1, <3>2
    <2> QED
      BY <1>2, <1>4, <2>1, <2>2 DEF TypeOK
  <1>7. Lives' /\ Parities' /\ Bound' /\ Mapped' /\ Waiting' /\ Origins'
    <2>1. \A d \in Channels : transport'[d] => mStream[d] # Unassigned
      BY <1>2 DEF Bound
    <2> QED
      BY <1>2, <1>4, <2>1, Unmoved
  <1>8. InFlight'
    BY <1>2 DEF InFlight
  <1>9. Opens'
    <2> SUFFICES ASSUME NEW d \in Outgoing, Counterparts(d) = {}
                 PROVE  /\ ~mIsOpen'[d]
                        /\ transport[d] => OpenFirst(d, net'[<<PeerOf[d], mStream[d]>>])
      BY <1>2 DEF Opens, Counterparts
    <2>1. transport[d] => <<PeerOf[d], mStream[d]>> \in Peers \X Streams
      BY Types DEF Bound
    <2>2. ~mIsOpen[d]
      BY DEF Opens
    <2>3. ~(d = c /\ m.type = "ack")
      <3> SUFFICES ASSUME d = c, m.type = "ack"
                   PROVE  FALSE
        OBVIOUS
      <3>1. m.from \in Incoming /\ c \in origin[m.from]
        BY Meant, Types
      <3> QED
        BY <3>1 DEF Counterparts
    <2> QED
      BY <1>2, <1>4, <2>1, <2>2, <2>3, Types DEF Opens
  <1>10. NoCrossTalk'
    <2>1. CASE received' = received
      BY <1>2, <2>1 DEF NoCrossTalk
    <2>2. CASE m.type = "data" /\ received' = [received EXCEPT ![c] = Append(@, m.from)]
      <3> SUFFICES ASSUME NEW d \in Channels, NEW i \in 1..Len(received'[d])
                   PROVE  LET x == received'[d][i] IN
                          \/ d \in Incoming /\ x \in origin[d]
                          \/ x \in Incoming /\ d \in origin[x]
        BY <1>2 DEF NoCrossTalk
      <3>1. received \in [Channels -> Seq(Channels)] /\ m.from \in Channels
        BY <2>2 DEF TypeOK, SentFrom
      <3>2. CASE d # c
        <4>1. received'[d] = received[d]
          BY <2>2, <3>1, <3>2
        <4> QED
          BY <4>1 DEF NoCrossTalk
      <3>3. CASE d = c
        <4> DEFINE t == received[c]
        <4>1. received'[c] = Append(t, m.from) /\ t \in Seq(Channels)
          BY <1>3, <2>2, <3>1
        <4> HIDE DEF t
        <4>2. /\ Len(t) \in Nat /\ Len(received'[c]) = Len(t) + 1
              /\ \A j \in 1..Len(t) : received'[c][j] = t[j]
              /\ received'[c][Len(t) + 1] = m.from
          BY <3>1, <4>1, AppendProperties, LenProperties
        <4>3. CASE i \in 1..Len(t)
          BY <1>3, <3>3, <4>2, <4>3 DEF NoCrossTalk, t
        <4>4. CASE i = Len(t) + 1
          BY <2>2, <3>3, <4>2, <4>4, Meant
        <4> QED
          BY <3>3, <4>2, <4>3, <4>4
      <3> QED
        BY <3>2, <3>3
    <2> QED
      BY <1>5, <2>1, <2>2
  <1> QED
    BY <1>6, <1>7, <1>8, <1>9, <1>10

\* The OPEN of a channel creates its counterpart, which answers with the ACK.
LEMMA InvReceiveOpen ==
    ASSUME DropsAlone, Inv, NEW q \in Peers, NEW s \in Streams,
           NEW m, SentFrom(m, Other(q), s, mStream, transport), m.type = "open",
           NEW rest \in Nets, Flies(rest, mStream, transport),
           \A c : \A l \in Peers \X Streams :
               OpenFirst(c, net[l]) /\ m.from # c => OpenFirst(c, rest[l]),
           ReceiveOpen(q, s, m, rest), UNCHANGED <<sctp, opening, mUnassigned>>
    PROVE  Inv'
  <1> USE DEF Inv
  <1> DEFINE o == m.from
             old == {c \in Found(q, s) : mIsOpen[c]}
             closed == IF old = {} THEN rest ELSE PostReset(rest, q, s)
  <1>1. /\ o \in Outgoing /\ o \in Channels /\ PeerOf[o] = Other(q) /\ mStream[o] = s /\ transport[o]
        /\ s \in Streams /\ s # Unassigned /\ s % 2 = FirstStream(Other(q))
        /\ Other(q) \in Peers /\ Other(q) # q
    <2>1. o \in Outgoing /\ o \in Channels /\ PeerOf[o] = Other(q) /\ mStream[o] = s /\ transport[o]
      BY DEF SentFrom
    <2>2. s # Unassigned
      BY DEF Streams, Unassigned
    <2>3. s % 2 = FirstStream(Other(q))
      BY <2>1, <2>2 DEF Parities
    <2> QED
      BY <2>1, <2>2, <2>3, TwoPeers
  <1>2. ~WrongParity(q, s)
    BY <1>1 DEF WrongParity
  <1>3. PICK new \in Incoming :
            /\ PeerOf[new] = q
            /\ life[new] = "new"
            /\ life' = [life EXCEPT ![new] = "held"]
            /\ mStream' = [mStream EXCEPT ![new] = s]
            /\ mReliable' = [mReliable EXCEPT ![new] = mReliable[o]]
            /\ transport' = [transport EXCEPT ![new] = TRUE]
            /\ origin' = [origin EXCEPT ![new] = {o}]
            /\ mIsOpen' = [c \in Channels |-> c = new \/ (mIsOpen[c] /\ c \notin old)]
            /\ mIsClosed' = [c \in Channels |-> mIsClosed[c] \/ c \in old]
            /\ mDataChannels' = IF ChannelsAt(q, s) # {} THEN mDataChannels
                                ELSE [mDataChannels EXCEPT ![q] = @ \cup {<<s, new>>}]
            /\ net' = Post(closed, q, s, Msg("ack", new, TRUE))
            /\ UNCHANGED <<received, sent>>
    BY <1>2 DEF ReceiveOpen
  <1>4. \A c \in old : c \in Channels /\ Alive(c) /\ PeerOf[c] = q /\ mStream[c] = s
    <2>1. \A c \in Found(q, s) : c \in Channels /\ Alive(c) /\ PeerOf[c] = q /\ mStream[c] = s
      BY FoundBelongs
    <2> QED
      BY <2>1
  <1>5. /\ closed \in Nets /\ Flies(closed, mStream, transport)
        /\ \A c : \A l \in Peers \X Streams :
              OpenFirst(c, net[l]) /\ o # c => OpenFirst(c, closed[l])
    <2>1. CASE old = {}
      BY <2>1
    <2>2. CASE old # {}
      <3>1. closed = PostReset(rest, q, s)
        BY <2>2
      <3> QED
        BY <3>1, ResetPosted
    <2> QED
      BY <2>1, <2>2
  <1> HIDE DEF o, closed, old
  <1>6. /\ new \in Channels /\ new \notin Outgoing
        /\ mStream[new] = Unassigned /\ ~transport[new] /\ origin[new] = {}
    <2>1. new \in Channels /\ new \notin Outgoing
      BY Types
    <2>2. mStream[new] = Unassigned
      BY <1>3, <2>1 DEF Bound, Dormant
    <2> QED
      BY <2>1, <2>2 DEF Bound, Origins
  <1>7. /\ life'[new] = "held" /\ \A c \in Channels : c # new => life'[c] = life[c]
        /\ mStream'[new] = s /\ \A c \in Channels : c # new => mStream'[c] = mStream[c]
        /\ transport'[new] /\ \A c \in Channels : c # new => transport'[c] = transport[c]
        /\ origin'[new] = {o} /\ \A c \in Incoming : c # new => origin'[c] = origin[c]
        /\ \A c \in Channels : mIsClosed'[c] <=> mIsClosed[c] \/ c \in old
        /\ \A c \in Channels : mIsOpen'[c] <=> c = new \/ (mIsOpen[c] /\ c \notin old)
    BY <1>3, <1>6, Types DEF TypeOK
  <1>8. /\ \A c \in Channels : c # new => (Alive(c)' <=> Alive(c))
        /\ \A c \in Channels : c # new => (Dormant(c)' => Dormant(c))
        /\ Alive(new)' /\ ~Dormant(new)'
    BY <1>7 DEF Alive, Dormant
  <1> DEFINE ack == Msg("ack", new, TRUE)
  <1>9. ack \in Message /\ ack.type = "ack" /\ ack.from = new /\ ack.ordered
    BY <1>6 DEF Msg, Message
  <1>10. net' = Post(closed, q, s, ack)
    BY <1>3
  <1> HIDE DEF ack
  <1>11. /\ net' \in Nets /\ Flies(net', mStream', transport')
         /\ \A c : \A l \in Peers \X Streams :
               OpenFirst(c, net[l]) /\ o # c => OpenFirst(c, net'[l])
    <2>1. \A c \in Channels : transport[c] => transport'[c] /\ mStream'[c] = mStream[c]
      BY <1>6, <1>7
    <2>2. Flies(closed, mStream', transport')
      BY <1>5, <2>1, FliesLater
    <2>3. SentFrom(ack, q, s, mStream', transport')
      BY <1>3, <1>6, <1>7, <1>9 DEF SentFrom
    <2> QED
      BY <1>5, <1>9, <1>10, <2>2, <2>3, Posted
  <1>12. TypeOK'
    <2>1. /\ life' \in [Channels -> {"new", "created", "assigned", "held", "gone"}]
          /\ mStream' \in [Channels -> Streams \cup {Unassigned}]
          /\ received' \in [Channels -> Seq(Channels)] /\ sent' \in [Channels -> Nat]
          /\ UNCHANGED <<sctp, opening, mUnassigned>>
      BY <1>3 DEF TypeOK
    <2>2. origin' \in [Incoming -> SUBSET Outgoing]
      BY <1>1, <1>3 DEF TypeOK
    <2>3. /\ mIsOpen' \in [Channels -> BOOLEAN] /\ mIsClosed' \in [Channels -> BOOLEAN]
          /\ mReliable' \in [Channels -> BOOLEAN] /\ transport' \in [Channels -> BOOLEAN]
      <3>1. mReliable[o] \in BOOLEAN /\ TRUE \in BOOLEAN
        BY <1>1, Types
      <3>2. mReliable' \in [Channels -> BOOLEAN] /\ transport' \in [Channels -> BOOLEAN]
        BY <1>3, <3>1, Types
      <3>3. mIsOpen' \in [Channels -> BOOLEAN]
        BY <1>3, Zenon
      <3>4. mIsClosed' \in [Channels -> BOOLEAN]
        BY <1>3, Zenon
      <3> QED
        BY <3>2, <3>3, <3>4
    <2>4. /\ mDataChannels' \in [Peers -> SUBSET (Streams \X Channels)]
          /\ \A p \in Peers : \A e, f \in mDataChannels'[p] : e[1] = f[1] => e = f
      <3>0. /\ mDataChannels \in [Peers -> SUBSET (Streams \X Channels)]
            /\ \A p \in Peers : \A e, f \in mDataChannels[p] : e[1] = f[1] => e = f
        BY DEF TypeOK
      <3>1. CASE ChannelsAt(q, s) # {}
        BY <1>3, <3>0, <3>1
      <3>2. CASE ChannelsAt(q, s) = {}
        <4>1. \A e \in mDataChannels[q] : e[1] # s
          BY <3>0, <3>2 DEF ChannelsAt
        <4>2. mDataChannels' = [mDataChannels EXCEPT ![q] = @ \cup {<<s, new>>}]
          BY <1>3, <3>2
        <4>3. <<s, new>> \in Streams \X Channels
          BY <1>6
        <4>4. mDataChannels' \in [Peers -> SUBSET (Streams \X Channels)]
          BY <3>0, <4>2, <4>3
        <4>5. ASSUME NEW p \in Peers, NEW e \in mDataChannels'[p], NEW f \in mDataChannels'[p],
                     e[1] = f[1]
              PROVE  e = f
          BY <3>0, <4>1, <4>2, <4>5
        <4> QED
          BY <4>4, <4>5
      <3> QED
        BY <3>1, <3>2
    <2>5. net' \in [Peers \X Streams -> Seq(Message)]
      BY <1>11 DEF Nets
    <2> QED
      BY <2>1, <2>2, <2>3, <2>4, <2>5 DEF TypeOK
  <1>13. Lives'
    <2>1. \A c \in Outgoing : /\ c \in Channels /\ c # new /\ life'[c] = life[c]
                              /\ mStream'[c] = mStream[c]
                              /\ mIsClosed'[c] => mIsClosed[c] \/ life[c] # "gone"
      BY <1>4, <1>6, <1>7, Types DEF Alive
    <2>2. \A c \in Outgoing : life'[c] = "gone" /\ mIsClosed'[c] => c \in Droppable
      BY <2>1 DEF Lives
    <2>3. \A d \in Incoming : life'[d] \in {"new", "held", "gone"}
      BY <1>7, Types DEF Lives
    <2>4. \A c \in Outgoing : life'[c] = "assigned" => mStream'[c] # Unassigned
      BY <2>1 DEF Lives
    <2>5. \E created \in Scenarios :
              \A c \in Outgoing : life'[c] # "gone" \/ mIsClosed'[c] => c \in created
      BY <2>1 DEF Lives
    <2> QED
      BY <2>2, <2>3, <2>4, <2>5 DEF Lives
  <1>14. Parities'
    BY <1>1, <1>3, <1>6, <1>7, Types DEF Parities
  <1>15. Bound'
    BY <1>1, <1>7, <1>8 DEF Bound
  <1>16. Mapped'
    <2>1. ASSUME NEW p \in Peers, NEW e \in mDataChannels'[p]
          PROVE  PeerOf[e[2]] = p /\ mStream'[e[2]] = e[1]
      <3>1. CASE e \in mDataChannels[p]
        <4>1. /\ PeerOf[e[2]] = p /\ mStream[e[2]] = e[1]
              /\ e[2] \in Channels /\ e[1] \in Streams
          BY <3>1 DEF Mapped, TypeOK
        <4>2. e[2] # new
          BY <1>6, <4>1 DEF Unassigned, Streams
        <4> QED
          BY <1>7, <4>1, <4>2
      <3>2. CASE e \notin mDataChannels[p]
        <4>1. p = q /\ e = <<s, new>>
          BY <1>3, <3>2, <2>1 DEF TypeOK
        <4> QED
          BY <1>3, <1>7, <4>1
      <3> QED
        BY <3>1, <3>2
    <2>2. \A p \in Peers : mDataChannels[p] \subseteq mDataChannels'[p]
      BY <1>3 DEF TypeOK
    <2>3. ASSUME NEW c \in Outgoing, Alive(c)', mStream'[c] # Unassigned
          PROVE  <<mStream'[c], c>> \in mDataChannels'[PeerOf[c]]
      <3>1. c \in Channels /\ c # new /\ PeerOf[c] \in Peers
        BY <1>6, Types
      <3>2. Alive(c) /\ mStream'[c] = mStream[c]
        BY <1>7, <1>8, <2>3, <3>1
      <3> QED
        BY <2>2, <2>3, <3>1, <3>2 DEF Mapped
    <2> QED
      BY <2>1, <2>3 DEF Mapped
  <1>17. Waiting'
    <2>1. ASSUME NEW p \in Peers, NEW i \in 1..Len(mUnassigned[p])
          PROVE  WaitsAt(p, i, mUnassigned[p][i])'
      <3>1. mUnassigned[p] \in Seq(Outgoing)
        BY DEF TypeOK
      <3>2. mUnassigned[p][i] \in Outgoing
        BY <3>1, ElementOfSeq
      <3>3. mUnassigned[p][i] \in Channels /\ mUnassigned[p][i] # new
        BY <1>6, <3>2, Types
      <3>4. WaitsAt(p, i, mUnassigned[p][i])
        BY DEF Waiting
      <3> QED
        BY <1>7, <1>8, <3>3, <3>4 DEF WaitsAt
    <2>2. \A c \in Outgoing : life'[c] = life[c] /\ mStream'[c] = mStream[c]
      BY <1>6, <1>7, Types
    <2> QED
      BY <2>1, <2>2 DEF Waiting
  <1>18. InFlight'
    BY <1>11 DEF InFlight
  <1>19. Origins'
    <2> SUFFICES ASSUME NEW d \in Incoming
                 PROVE  IF mStream'[d] = Unassigned THEN origin'[d] = {}
                        ELSE \E c \in Outgoing : /\ origin'[d] = {c}
                                                 /\ PeerOf[c] = Other(PeerOf[d])
                                                 /\ mStream'[c] = mStream'[d]
      BY DEF Origins
    <2>1. \A c \in Outgoing : mStream'[c] = mStream[c]
      BY <1>6, <1>7, Types
    <2>2. CASE d = new
      <3>1. /\ origin'[d] = {o} /\ PeerOf[o] = Other(PeerOf[d]) /\ mStream'[o] = mStream'[d]
            /\ mStream'[d] # Unassigned
        BY <1>1, <1>3, <1>7, <2>1, <2>2
      <3> QED
        BY <1>1, <3>1
    <2>3. CASE d # new
      BY <1>7, <2>1, <2>3, Types DEF Origins
    <2> QED
      BY <2>2, <2>3
  <1>20. Opens'
    <2> SUFFICES ASSUME NEW c \in Outgoing, Counterparts(c)' = {}
                 PROVE  /\ ~mIsOpen'[c]
                        /\ transport'[c] => OpenFirst(c, net'[<<PeerOf[c], mStream'[c]>>])
      BY DEF Opens
    <2>1. c \in Channels /\ c # new
      BY <1>6, Types
    <2>2. c # o
      BY <1>7 DEF Counterparts
    <2>3. Counterparts(c) = {}
      BY <1>6, <1>7 DEF Counterparts
    <2>4. transport[c] => <<PeerOf[c], mStream[c]>> \in Peers \X Streams
      BY <2>1, Types DEF Bound
    <2> QED
      BY <1>7, <1>11, <2>1, <2>2, <2>3, <2>4 DEF Opens
  <1>21. NoCrossTalk'
    <2>1. \A d \in Incoming : origin[d] \subseteq origin'[d]
      BY <1>6, <1>7
    <2> QED
      BY <1>3, <2>1 DEF NoCrossTalk
  <1> QED
    BY <1>12, <1>13, <1>14, <1>15, <1>16, <1>17, <1>18, <1>19, <1>20, <1>21

\* A peer receives a message.
LEMMA InvReceive ==
    ASSUME DropsAlone, Inv, NEW q \in Peers, NEW s \in Streams, Receive(q, s)
    PROVE  Inv'
  <1> USE DEF Inv
  <1> DEFINE l == <<Other(q), s>>
  <1>1. Other(q) \in Peers /\ net \in Nets
    BY TwoPeers, Types
  <1>2. PICK i \in Deliverable(l) :
            LET m == net[l][i]
                rest == [net EXCEPT ![l] = RemoveAt(@, i)]
            IN \/ m.type = "open" /\ ReceiveOpen(q, s, m, rest)
               \/ m.type # "open" /\ ReceiveUnexpected(q, s, m, rest)
               \/ m.type # "open" /\ ReceiveOther(q, s, m, rest)
    BY DEF Receive
  <1>3. i \in 1..Len(net[l]) /\ UNCHANGED <<sctp, opening, mUnassigned>>
    BY DEF Receive, Deliverable
  <1> DEFINE m == net[l][i]
             rest == [net EXCEPT ![l] = RemoveAt(@, i)]
  <1>4. SentFrom(m, Other(q), s, mStream, transport)
    BY <1>1, <1>3 DEF InFlight, Flies
  <1>5. /\ rest \in Nets /\ Flies(rest, mStream, transport)
        /\ \A c : \A k \in Peers \X Streams :
              OpenFirst(c, net[k]) /\ (m.type = "open" => m.from # c) => OpenFirst(c, rest[k])
    <2>1. rest = Taken(net, Other(q), s, i)
      BY DEF Taken
    <2>2. Flies(net, mStream, transport) /\ i \in 1..Len(net[<<Other(q), s>>])
      BY <1>3 DEF InFlight
    <2>3. m = net[<<Other(q), s>>][i]
      OBVIOUS
    <2> HIDE DEF rest, m, Inv
    <2>4. /\ rest \in Nets
          /\ \A stream, associated : Flies(net, stream, associated) => Flies(rest, stream, associated)
          /\ \A c : \A k \in Peers \X Streams :
                /\ OpenFirst(c, net[k])
                /\ net[<<Other(q), s>>][i].type = "open" => net[<<Other(q), s>>][i].from # c
                => OpenFirst(c, rest[k])
      BY <1>1, <2>1, <2>2, Received
    <2> QED
      BY <2>2, <2>3, <2>4
  <1>6. \/ m.type = "open" /\ ReceiveOpen(q, s, m, rest)
        \/ m.type # "open" /\ ReceiveUnexpected(q, s, m, rest)
        \/ m.type # "open" /\ ReceiveOther(q, s, m, rest)
    BY <1>2
  <1> HIDE DEF m, rest, Inv
  <1>7. CASE m.type = "open" /\ ReceiveOpen(q, s, m, rest)
    BY <1>3, <1>4, <1>5, <1>7, InvReceiveOpen
  <1>8. CASE m.type # "open" /\ ReceiveUnexpected(q, s, m, rest)
    BY <1>3, <1>5, <1>8, InvReceiveUnexpected
  <1>9. CASE m.type # "open" /\ ReceiveOther(q, s, m, rest)
    BY <1>3, <1>4, <1>5, <1>9, InvReceiveOther
  <1> QED
    BY <1>6, <1>7, <1>8, <1>9

-----------------------------------------------------------------------------
\* Every step leaves the invariant.
LEMMA InvNext ==
    ASSUME DropsAlone, EnoughStreams, Inv, [Next]_vars
    PROVE  Inv'
  <1>1. ASSUME NEW c \in Channels, CreateChannel(c) \/ SendData(c) \/ Close(c)
        PROVE  Inv'
    BY <1>1, InvCreateChannel, InvSendData, InvClose
  <1>2. ASSUME NEW p \in Peers, Library(p)
        PROVE  Inv'
    <2>1. CASE \E c \in Outgoing : PeerOf[c] = p /\ (CreateAssign(c) \/ CreateOpen(c))
      BY <2>1, InvCreateAssign, InvCreateOpen
    <2>2. CASE SctpUp(p)
      BY <2>2, InvSctpUp
    <2>3. CASE SctpConnected(p)
      BY <2>3, InvSctpConnected
    <2>4. CASE OpenDataChannels(p)
      BY <2>4, InvOpenDataChannels
    <2>5. CASE \E s \in Streams : Receive(p, s)
      BY <2>5, InvReceive
    <2> QED
      BY <1>2, <2>1, <2>2, <2>3, <2>4, <2>5 DEF Library
  <1>3. CASE UNCHANGED vars
    <2> USE DEF Inv
    <2>1. /\ UNCHANGED <<sctp, opening, mDataChannels, mUnassigned, life, net>>
          /\ UNCHANGED <<mStream, mIsOpen, mIsClosed, mReliable, transport, origin, received, sent>>
      BY <1>3 DEF vars, chan
    <2>2. TypeOK'
      BY <2>1 DEF TypeOK
    <2>3. Lives' /\ Parities' /\ Bound' /\ Mapped' /\ Waiting' /\ Origins'
      BY <2>1, Unmoved DEF Bound
    <2>4. InFlight' /\ Opens' /\ NoCrossTalk'
      BY <2>1 DEF InFlight, Opens, Counterparts, NoCrossTalk
    <2> QED
      BY <2>2, <2>3, <2>4
  <1> QED
    BY <1>1, <1>2, <1>3 DEF Next, Application

\* The inductive invariant holds in every state, for any channels, streams and
\* scenarios in which streams suffice and channels are dropped alone.
THEOREM Invariance ==
    ASSUME DropsAlone, EnoughStreams
    PROVE  Spec => []Inv
  <1>1. Inv /\ [Next]_vars => Inv'
    BY InvNext
  <1> QED
    BY <1>1, InvInit, PTL DEF Spec

\* Data that may be received next was sent on a channel whose OPEN was received.
LEMMA OpenedBefore ==
    ASSUME Inv
    PROVE  NoDataBeforeOpen
  <1> USE DEF Inv
  <1> SUFFICES ASSUME NEW q \in Peers, NEW s \in Streams, NEW i \in Deliverable(<<Other(q), s>>),
                      net[<<Other(q), s>>][i].type = "data",
                      net[<<Other(q), s>>][i].from \in Outgoing,
                      Counterparts(net[<<Other(q), s>>][i].from) = {}
               PROVE  FALSE
    BY DEF NoDataBeforeOpen
  <1> DEFINE t == net[<<Other(q), s>>]
             c == t[i].from
  <1>1. /\ i \in 1..Len(t)
        /\ i = 1 \/ ~t[i].ordered
    BY DEF Deliverable
  <1>2. Other(q) \in Peers
    BY TwoPeers
  <1>3. SentFrom(t[i], Other(q), s, mStream, transport)
    BY <1>1, <1>2 DEF InFlight, Flies
  <1>4. PeerOf[c] = Other(q) /\ mStream[c] = s /\ transport[c]
    BY <1>3 DEF SentFrom
  <1>5. OpenFirst(c, t)
    BY <1>4 DEF Opens
  <1>6. PICK k \in 1..Len(t) : k < i /\ t[i].ordered
    BY <1>1, <1>5 DEF OpenFirst
  <1> QED
    BY <1>1, <1>6

\* What is sent on a channel is received by its counterpart alone, and no data
\* overtakes the OPEN of its channel: for any channels, streams and scenarios.
THEOREM ChannelsKeepApart ==
    ASSUME DropsAlone, EnoughStreams
    PROVE  Spec => []ChannelInv
  <1>1. Inv => ChannelInv
    BY OpenedBefore DEF Inv, ChannelInv
  <1> QED
    BY <1>1, Invariance, PTL
=============================================================================
