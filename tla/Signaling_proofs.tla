-------------------------- MODULE Signaling_proofs ---------------------------
(***************************************************************************)
(* Proofs about Signaling, for any tracks, number of channels and use of   *)
(* threads, and two peers of which at most one is polite: whatever offers  *)
(* cross, an answer finds the offer it replies to, roles differ, and the   *)
(* peers agree on their descriptions.                                      *)
(***************************************************************************)
EXTENDS Signaling, SequenceTheorems, FiniteSetTheorems, TLAPS

\* What is under way on a path, besides the candidate: descriptions of some types
\* only; a description x behind such ones, and nothing after it; or y after it.
Only(s, types) == \A i \in 1..Len(s) : s[i].type \in types

Single(s, types, x) ==
    \E k \in 1..Len(s) :
        /\ s[k] = x
        /\ \A i \in 1..k - 1 : s[i].type \in types
        /\ \A i \in k + 1..Len(s) : s[i].type = "candidate"

Pair(s, types, x, y) ==
    \E k, j \in 1..Len(s) :
        /\ k < j /\ s[k] = x /\ s[j] = y
        /\ \A i \in 1..k - 1 : s[i].type \in types
        /\ \A i \in (k + 1..Len(s)) \ {j} : s[i].type = "candidate"

Quiet == {"candidate"}
Skippable == {"candidate", "offer"}

\* p is between negotiations and agrees with q on its local description, or would
\* after a rollback of its offer.
Agrees(p, q) == mRemote[q] = NoDescription \/ mRemote[q] = mLocal[p]
Fallback(p, q) == mRemote[q] = NoDescription \/ mRemote[q] = mCurrent[p]

\* p has the offer of q, and a settled role; its answer x.
Accepted(p, q) ==
    /\ signalingState[q] = "HaveLocalOffer" /\ mLocal[q].type = "offer"
    /\ mRemote[p] = mLocal[q]
    /\ mRole[p] # "ActPass" /\ (mRole[q] = "ActPass" => mRole[p] = "Active")

Replies(x, p, q) ==
    x.type = "answer" /\ x.role = mRole[p] /\ x.reply = mLocal[q].number

RolesTogether == \A p, q \in Peers : mRole[p] = "ActPass" <=> mRole[q] = "ActPass"

Stands(p, state) == signalingState[p] = state
Offers(p) ==
    /\ signalingState[p] = "HaveLocalOffer"
    /\ mLocal[p].type = "offer" /\ mLocal[p].role = "ActPass"

-----------------------------------------------------------------------------
\* Where two peers are that exchange offers, when a is not polite.

\* Nothing is under way.
Idle(a, b) ==
    /\ RolesTogether /\ Stands(a, "Stable") /\ Stands(b, "Stable")
    /\ Agrees(a, b) /\ Agrees(b, a)
    /\ Only(path[a], Quiet) /\ Only(path[b], Quiet)

\* b has offered, and a has not.
OfferToA(a, b) ==
    /\ RolesTogether /\ Stands(a, "Stable") /\ Offers(b)
    /\ Agrees(a, b) /\ Fallback(b, a)
    /\ Only(path[a], Quiet) /\ Single(path[b], Quiet, mLocal[b])

\* a has accepted the offer of b.
AcceptedByA(a, b) ==
    /\ Accepted(a, b) /\ Stands(a, "HaveRemoteOffer")
    /\ Agrees(a, b)
    /\ Only(path[a], Quiet) /\ Only(path[b], Quiet)

\* a has answered, and may have offered since.
AnsweredByA(a, b) ==
    /\ Accepted(a, b) /\ Only(path[b], Quiet)
    /\ \/ /\ Stands(a, "Stable")
          /\ Replies(mLocal[a], a, b)
          /\ Single(path[a], Quiet, mLocal[a])
       \/ /\ Offers(a)
          /\ Replies(mCurrent[a], a, b)
          /\ Pair(path[a], Quiet, mCurrent[a], mLocal[a])

\* a has offered; the offers of b, which a ignores, may be pending or rolled back.
OfferToB(a, b) ==
    /\ RolesTogether /\ Offers(a)
    /\ \/ Stands(b, "Stable") /\ Agrees(b, a)
       \/ Offers(b) /\ Fallback(b, a)
    /\ Single(path[a], Quiet, mLocal[a]) /\ Only(path[b], Skippable)

\* b has accepted the offer of a.
AcceptedByB(a, b) ==
    /\ Accepted(b, a) /\ Stands(b, "HaveRemoteOffer")
    /\ Agrees(b, a)
    /\ Only(path[a], Quiet) /\ Only(path[b], Skippable)

\* b has answered, behind offers that a ignores, and may have offered since.
AnsweredByB(a, b) ==
    /\ Accepted(b, a) /\ Only(path[a], Quiet)
    /\ \/ /\ Stands(b, "Stable")
          /\ Replies(mLocal[b], b, a)
          /\ Single(path[b], Skippable, mLocal[b])
       \/ /\ Offers(b)
          /\ Replies(mCurrent[b], b, a)
          /\ Pair(path[b], Skippable, mCurrent[b], mLocal[b])

\* Both ignore the offer of the other.
Stuck(a, b) ==
    /\ RolesTogether /\ Offers(a) /\ Offers(b) /\ b \notin Polite
    /\ Only(path[a], Quiet) /\ Only(path[b], Skippable)

Exchange(a, b) ==
    \/ Idle(a, b)
    \/ OfferToA(a, b) \/ AcceptedByA(a, b) \/ AnsweredByA(a, b)
    \/ OfferToB(a, b) \/ AcceptedByB(a, b) \/ AnsweredByB(a, b)
    \/ Stuck(a, b)

\* The peer that is not polite.
Impolite == CHOOSE p \in Peers : p \notin Polite

\* A peer that gathers has issued a description, and the other has received it
\* or will before any candidate.
CandidatesBehind ==
    \A p \in Peers :
        IF gathering[p] = "new" THEN path[p] = <<>>
        ELSE \/ path[p] # <<>> /\ Head(path[p]).type # "candidate"
             \/ mRemote[Other(p)] # NoDescription \/ ignored[Other(p)]

\* The inductive invariant.
Inv ==
    /\ TypeOK /\ RolesComplementary /\ CandidatesBehind
    /\ Exchange(Impolite, Other(Impolite))

-----------------------------------------------------------------------------
\* What a path is after its first message was taken ...
LEMMA HeadTail ==
    ASSUME NEW S, NEW s \in Seq(S), s # <<>>
    PROVE  /\ Len(s) \in Nat \ {0}
           /\ Head(s) = s[1] /\ Head(s) \in S
           /\ Tail(s) \in Seq(S)
           /\ Len(Tail(s)) = Len(s) - 1
           /\ \A i \in 1..Len(Tail(s)) : Tail(s)[i] = s[i + 1]
  BY EmptySeq, HeadTailProperties

\* The first message is taken from a path of messages of some types,
LEMMA TakeOnly ==
    ASSUME NEW S, NEW s \in Seq(S), s # <<>>, NEW types, Only(s, types)
    PROVE  Head(s).type \in types /\ Only(Tail(s), types)
  <1>1. /\ Len(s) \in Nat \ {0} /\ Head(s) = s[1] /\ Len(Tail(s)) = Len(s) - 1
        /\ \A i \in 1..Len(Tail(s)) : Tail(s)[i] = s[i + 1]
    BY HeadTail
  <1>2. \A i \in 1..Len(Tail(s)) : i + 1 \in 1..Len(s)
    BY <1>1
  <1> QED
    BY <1>1, <1>2 DEF Only

\* from one with a description behind such messages,
LEMMA TakeSingle ==
    ASSUME NEW S, NEW s \in Seq(S), NEW types, NEW x, Single(s, types, x)
    PROVE  /\ s # <<>>
           /\ \/ Head(s) = x /\ Only(Tail(s), Quiet)
              \/ Head(s).type \in types /\ Single(Tail(s), types, x)
  <1>1. PICK k \in 1..Len(s) :
            /\ s[k] = x
            /\ \A i \in 1..k - 1 : s[i].type \in types
            /\ \A i \in k + 1..Len(s) : s[i].type = "candidate"
    BY DEF Single
  <1>2. s # <<>> /\ Len(s) \in Nat
    BY <1>1, EmptySeq, LenProperties
  <1>3. /\ Len(s) \in Nat \ {0} /\ Head(s) = s[1] /\ Len(Tail(s)) = Len(s) - 1
        /\ \A i \in 1..Len(Tail(s)) : Tail(s)[i] = s[i + 1]
    BY <1>2, HeadTail
  <1>4. CASE k = 1
    <2>1. \A i \in 1..Len(Tail(s)) : i + 1 \in k + 1..Len(s)
      BY <1>3, <1>4
    <2> QED
      BY <1>1, <1>2, <1>3, <1>4, <2>1 DEF Only, Quiet
  <1>5. CASE k # 1
    <2>1. k - 1 \in 1..Len(Tail(s)) /\ 1 \in 1..k - 1
      BY <1>1, <1>3, <1>5
    <2>2. Tail(s)[k - 1] = x
      BY <1>1, <1>3, <2>1
    <2>3. \A i \in 1..k - 1 - 1 : i \in 1..Len(Tail(s)) /\ i + 1 \in 1..k - 1
      BY <1>1, <1>3, <1>5
    <2>4. \A i \in 1..k - 1 - 1 : Tail(s)[i].type \in types
      BY <1>1, <1>3, <2>3
    <2>5. \A i \in k - 1 + 1..Len(Tail(s)) : i \in 1..Len(Tail(s)) /\ i + 1 \in k + 1..Len(s)
      BY <1>1, <1>3, <1>5
    <2>6. \A i \in k - 1 + 1..Len(Tail(s)) : Tail(s)[i].type = "candidate"
      BY <1>1, <1>3, <2>5
    <2>7. Single(Tail(s), types, x)
      BY <2>1, <2>2, <2>4, <2>6 DEF Single
    <2> QED
      BY <1>1, <1>2, <1>3, <2>1, <2>7
  <1> QED
    BY <1>4, <1>5

\* and from one with two.
LEMMA TakePair ==
    ASSUME NEW S, NEW s \in Seq(S), NEW types, NEW x, NEW y, Pair(s, types, x, y)
    PROVE  /\ s # <<>>
           /\ \/ Head(s) = x /\ Single(Tail(s), Quiet, y)
              \/ Head(s).type \in types /\ Pair(Tail(s), types, x, y)
  <1>1. PICK k \in 1..Len(s), j \in 1..Len(s) :
            /\ k < j /\ s[k] = x /\ s[j] = y
            /\ \A i \in 1..k - 1 : s[i].type \in types
            /\ \A i \in (k + 1..Len(s)) \ {j} : s[i].type = "candidate"
    BY DEF Pair
  <1>2. s # <<>> /\ Len(s) \in Nat
    BY <1>1, EmptySeq, LenProperties
  <1>3. /\ Len(s) \in Nat \ {0} /\ Head(s) = s[1] /\ Len(Tail(s)) = Len(s) - 1
        /\ \A i \in 1..Len(Tail(s)) : Tail(s)[i] = s[i + 1]
    BY <1>2, HeadTail
  <1>4. j - 1 \in 1..Len(Tail(s)) /\ Tail(s)[j - 1] = y
    <2>1. j - 1 \in 1..Len(Tail(s)) /\ (j - 1) + 1 = j
      BY <1>1, <1>3
    <2> QED
      BY <1>1, <1>3, <2>1
  <1>5. \A i \in (k..Len(Tail(s))) \ {j - 1} : Tail(s)[i].type = "candidate"
    <2>1. \A i \in (k..Len(Tail(s))) \ {j - 1} :
              i \in 1..Len(Tail(s)) /\ i + 1 \in (k + 1..Len(s)) \ {j}
      BY <1>1, <1>3
    <2> QED
      BY <1>1, <1>3, <2>1
  <1>6. CASE k = 1
    <2>1. /\ \A i \in 1..j - 1 - 1 : i \in (k..Len(Tail(s))) \ {j - 1}
          /\ \A i \in j - 1 + 1..Len(Tail(s)) : i \in (k..Len(Tail(s))) \ {j - 1}
      BY <1>1, <1>3, <1>6
    <2>2. Single(Tail(s), Quiet, y)
      BY <1>4, <1>5, <2>1 DEF Single, Quiet
    <2> QED
      BY <1>1, <1>2, <1>3, <1>6, <2>2
  <1>7. CASE k # 1
    <2>1. k - 1 \in 1..Len(Tail(s)) /\ 1 \in 1..k - 1 /\ k - 1 < j - 1
      BY <1>1, <1>3, <1>7
    <2>2. Tail(s)[k - 1] = x
      BY <1>1, <1>3, <2>1
    <2>3. \A i \in 1..k - 1 - 1 : i \in 1..Len(Tail(s)) /\ i + 1 \in 1..k - 1
      BY <1>1, <1>3, <1>7
    <2>4. \A i \in 1..k - 1 - 1 : Tail(s)[i].type \in types
      BY <1>1, <1>3, <2>3
    <2>5. \A i \in (k - 1 + 1..Len(Tail(s))) \ {j - 1} : i \in (k..Len(Tail(s))) \ {j - 1}
      BY <1>1, <1>3
    <2>6. \A i \in (k - 1 + 1..Len(Tail(s))) \ {j - 1} : Tail(s)[i].type = "candidate"
      BY <1>5, <2>5
    <2>7. Pair(Tail(s), types, x, y)
      BY <1>4, <2>1, <2>2, <2>4, <2>6 DEF Pair
    <2> QED
      BY <1>1, <1>2, <1>3, <2>1, <2>7
  <1> QED
    BY <1>6, <1>7

\* ... or after one was added.
LEMMA AddLast ==
    ASSUME NEW S, NEW s \in Seq(S), NEW e \in S
    PROVE  /\ Append(s, e) \in Seq(S) /\ Append(s, e) # <<>>
           /\ Len(s) \in Nat /\ Len(Append(s, e)) = Len(s) + 1
           /\ Append(s, e)[Len(s) + 1] = e
           /\ \A i \in 1..Len(s) : Append(s, e)[i] = s[i]
           /\ s # <<>> => Head(Append(s, e)) = Head(s)
           /\ s = <<>> => Head(Append(s, e)) = e
  <1>1. /\ Append(s, e) \in Seq(S) /\ Len(s) \in Nat /\ Len(Append(s, e)) = Len(s) + 1
        /\ Append(s, e)[Len(s) + 1] = e
        /\ \A i \in 1..Len(s) : Append(s, e)[i] = s[i]
    BY AppendProperties, LenProperties
  <1>2. Append(s, e) # <<>>
    BY <1>1, EmptySeq
  <1>3. Head(Append(s, e)) = Append(s, e)[1]
    BY <1>1, <1>2, HeadTail
  <1>4. s # <<>> => Head(s) = s[1] /\ 1 \in 1..Len(s)
    BY HeadTail
  <1>5. s = <<>> => Len(s) + 1 = 1
    BY EmptySeq
  <1> QED
    BY <1>1, <1>2, <1>3, <1>4, <1>5

\* A message is added to a path of messages of some types,
LEMMA AddToOnly ==
    ASSUME NEW S, NEW s \in Seq(S), NEW e \in S, NEW types, Only(s, types)
    PROVE  /\ Single(Append(s, e), types, e)
           /\ e.type \in types => Only(Append(s, e), types)
  <1> DEFINE r == Append(s, e)
             n == Len(s)
  <1>1. /\ n \in Nat /\ Len(r) = n + 1 /\ r[n + 1] = e
        /\ \A i \in 1..n : r[i] = s[i] /\ s[i].type \in types
    BY AddLast DEF Only
  <1> HIDE DEF r, n
  <1>2. /\ n + 1 \in 1..Len(r)
        /\ \A i \in 1..n + 1 - 1 : i \in 1..n
        /\ \A i \in n + 1 + 1..Len(r) : FALSE
        /\ \A i \in 1..Len(r) : i = n + 1 \/ i \in 1..n
    BY <1>1
  <1>3. Single(r, types, e)
    BY <1>1, <1>2 DEF Single
  <1>4. e.type \in types => Only(r, types)
    BY <1>1, <1>2 DEF Only
  <1> QED
    BY <1>3, <1>4 DEF r

\* to one with a description behind such messages,
LEMMA AddToSingle ==
    ASSUME NEW S, NEW s \in Seq(S), NEW e \in S, NEW types, NEW x, Single(s, types, x)
    PROVE  /\ Pair(Append(s, e), types, x, e)
           /\ e.type = "candidate" => Single(Append(s, e), types, x)
  <1> DEFINE r == Append(s, e)
             n == Len(s)
  <1>1. /\ n \in Nat /\ Len(r) = n + 1 /\ r[n + 1] = e
        /\ \A i \in 1..n : r[i] = s[i]
    BY AddLast
  <1>2. PICK k \in 1..n :
            /\ s[k] = x
            /\ \A i \in 1..k - 1 : s[i].type \in types
            /\ \A i \in k + 1..n : s[i].type = "candidate"
    BY DEF Single
  <1> HIDE DEF r, n
  <1>3. /\ k \in 1..Len(r) /\ n + 1 \in 1..Len(r) /\ k < n + 1
        /\ \A i \in 1..k - 1 : i \in 1..n
        /\ \A i \in k + 1..n : i \in 1..n
        /\ \A i \in (k + 1..Len(r)) \ {n + 1} : i \in k + 1..n
        /\ \A i \in k + 1..Len(r) : i = n + 1 \/ i \in k + 1..n
    BY <1>1, <1>2
  <1>4. /\ r[k] = x
        /\ \A i \in 1..k - 1 : r[i].type \in types
        /\ \A i \in k + 1..n : r[i].type = "candidate"
    BY <1>1, <1>2, <1>3
  <1>5. Pair(r, types, x, e)
    BY <1>1, <1>3, <1>4 DEF Pair
  <1>6. e.type = "candidate" => Single(r, types, x)
    BY <1>1, <1>3, <1>4 DEF Single
  <1> QED
    BY <1>5, <1>6 DEF r

\* and to one with two.
LEMMA AddToPair ==
    ASSUME NEW S, NEW s \in Seq(S), NEW e \in S, NEW types, NEW x, NEW y,
           Pair(s, types, x, y), e.type = "candidate"
    PROVE  Pair(Append(s, e), types, x, y)
  <1> DEFINE r == Append(s, e)
             n == Len(s)
  <1>1. /\ n \in Nat /\ Len(r) = n + 1 /\ r[n + 1] = e
        /\ \A i \in 1..n : r[i] = s[i]
    BY AddLast
  <1>2. PICK k \in 1..n, j \in 1..n :
            /\ k < j /\ s[k] = x /\ s[j] = y
            /\ \A i \in 1..k - 1 : s[i].type \in types
            /\ \A i \in (k + 1..n) \ {j} : s[i].type = "candidate"
    BY DEF Pair
  <1> HIDE DEF r, n
  <1>3. /\ k \in 1..Len(r) /\ j \in 1..Len(r)
        /\ \A i \in 1..k - 1 : i \in 1..n
        /\ \A i \in (k + 1..n) \ {j} : i \in 1..n
        /\ \A i \in (k + 1..Len(r)) \ {j} : i = n + 1 \/ i \in (k + 1..n) \ {j}
    BY <1>1, <1>2
  <1>4. /\ r[k] = x /\ r[j] = y
        /\ \A i \in 1..k - 1 : r[i].type \in types
        /\ \A i \in (k + 1..Len(r)) \ {j} : r[i].type = "candidate"
    BY <1>1, <1>2, <1>3
  <1>5. Pair(r, types, x, y)
    BY <1>2, <1>3, <1>4 DEF Pair
  <1> QED
    BY <1>5 DEF r

\* A pending offer is one that may be ignored, and a message under way is on
\* the path.
LEMMA Weaken ==
    ASSUME NEW S, NEW s \in Seq(S)
    PROVE  /\ Only(s, Quiet) => Only(s, Skippable)
           /\ \A x : Single(s, Quiet, x) /\ x.type = "offer" => Only(s, Skippable)
           /\ \A x, types : Single(s, types, x) => x \in ToSet(s)
  <1>1. Len(s) \in Nat
    BY LenProperties
  <1>2. Only(s, Quiet) => Only(s, Skippable)
    BY DEF Only, Quiet, Skippable
  <1>3. ASSUME NEW x, Single(s, Quiet, x), x.type = "offer" PROVE Only(s, Skippable)
    <2>1. PICK k \in 1..Len(s) :
            /\ s[k] = x
            /\ \A i \in 1..k - 1 : s[i].type \in Quiet
            /\ \A i \in k + 1..Len(s) : s[i].type = "candidate"
      BY <1>3 DEF Single
    <2>2. \A i \in 1..Len(s) : i = k \/ i \in 1..k - 1 \/ i \in k + 1..Len(s)
      BY <1>1, <2>1
    <2> QED
      BY <1>3, <2>1, <2>2 DEF Only, Quiet, Skippable
  <1>4. ASSUME NEW x, NEW types, Single(s, types, x) PROVE x \in ToSet(s)
    BY <1>4 DEF Single, ToSet
  <1> QED
    BY <1>2, <1>3, <1>4

-----------------------------------------------------------------------------
\* The two peers, the first of which is not polite.
Two(a, b) ==
    /\ a \in Peers /\ b \in Peers /\ a # b /\ Peers = {a, b}
    /\ Other(a) = b /\ Other(b) = a
    /\ a \notin Polite

\* There are two peers, of which the first is not polite.
LEMMA TwoPeers ==
    ASSUME \E p \in Peers : p \notin Polite
    PROVE  Two(Impolite, Other(Impolite))
  <1> DEFINE a == Impolite
             b == Other(a)
  <1>1. a \in Peers /\ a \notin Polite
    BY DEF Impolite
  <1>2. IsFiniteSet(Peers \ {a}) /\ Cardinality(Peers \ {a}) = 1
    BY <1>1, SignalingAssumption, FS_RemoveElement
  <1>3. PICK c : Peers \ {a} = {c}
    BY <1>2, FS_Singleton
  <1>4. Peers = {a, c} /\ a # c
    BY <1>1, <1>3
  <1> HIDE DEF a
  <1>5. b = c
    BY <1>4 DEF Other
  <1>6. Other(c) = a
    BY <1>4 DEF Other
  <1> QED
    BY <1>1, <1>4, <1>5, <1>6 DEF Two, a

\* A step that takes, or adds, but the candidate keeps what is under way.
Keeps(s, t) ==
    \A types \in {Quiet, Skippable} :
        /\ Only(s, types) => Only(t, types)
        /\ \A x : x.type # "candidate" => 
               /\ Single(s, types, x) => Single(t, types, x)
               /\ \A y : y.type # "candidate" /\ Pair(s, types, x, y) => Pair(t, types, x, y)

\* A candidate that is taken leaves the shape of a path,
LEMMA KeepsTaken ==
    ASSUME NEW S, NEW s \in Seq(S), s # <<>>, Head(s).type = "candidate"
    PROVE  Keeps(s, Tail(s))
  BY TakeOnly, TakeSingle, TakePair DEF Keeps

\* and so does one that is added.
LEMMA KeepsAdded ==
    ASSUME NEW S, NEW s \in Seq(S), NEW e \in S, e.type = "candidate"
    PROVE  Keeps(s, Append(s, e))
  BY AddToOnly, AddToSingle, AddToPair DEF Keeps, Quiet, Skippable

\* The exchange is where it was.
LEMMA Unmoved ==
    ASSUME NEW a, NEW b, Two(a, b), Exchange(a, b),
           UNCHANGED <<signalingState, mLocal, mCurrent, mRemote, mRole>>,
           Keeps(path[a], path'[a]), Keeps(path[b], path'[b])
    PROVE  Exchange(a, b)'
  <1>1. /\ Only(path[a], Quiet) => Only(path'[a], Quiet)
        /\ Only(path[b], Quiet) => Only(path'[b], Quiet)
        /\ Only(path[b], Skippable) => Only(path'[b], Skippable)
    BY DEF Keeps
  <1>2. \A x : x.type # "candidate" =>
            /\ Single(path[a], Quiet, x) => Single(path'[a], Quiet, x)
            /\ Single(path[b], Quiet, x) => Single(path'[b], Quiet, x)
            /\ Single(path[b], Skippable, x) => Single(path'[b], Skippable, x)
    BY DEF Keeps
  <1>3. \A x, y : x.type # "candidate" /\ y.type # "candidate" =>
            /\ Pair(path[a], Quiet, x, y) => Pair(path'[a], Quiet, x, y)
            /\ Pair(path[b], Skippable, x, y) => Pair(path'[b], Skippable, x, y)
    BY DEF Keeps
  <1> USE DEF RolesTogether, Stands, Offers, Agrees, Fallback, Accepted, Replies
  <1>4. CASE Idle(a, b)
    BY <1>1, <1>4 DEF Idle, Exchange
  <1>5. CASE OfferToA(a, b)
    BY <1>1, <1>2, <1>5 DEF OfferToA, Exchange
  <1>6. CASE AcceptedByA(a, b)
    BY <1>1, <1>6 DEF AcceptedByA, Exchange
  <1>7. CASE AnsweredByA(a, b)
    BY <1>1, <1>2, <1>3, <1>7 DEF AnsweredByA, Exchange
  <1>8. CASE OfferToB(a, b)
    BY <1>1, <1>2, <1>8 DEF OfferToB, Exchange
  <1>9. CASE AcceptedByB(a, b)
    BY <1>1, <1>9 DEF AcceptedByB, Exchange
  <1>10. CASE AnsweredByB(a, b)
    BY <1>1, <1>2, <1>3, <1>10 DEF AnsweredByB, Exchange
  <1>11. CASE Stuck(a, b)
    BY <1>1, <1>11 DEF Stuck, Exchange
  <1> QED
    BY <1>4, <1>5, <1>6, <1>7, <1>8, <1>9, <1>10, <1>11 DEF Exchange

-----------------------------------------------------------------------------
\* Issuing a description.
LEMMA DescriptionType ==
    ASSUME TypeOK, NEW p \in Peers, NEW type \in {"offer", "answer"},
           type = "answer" => mRemote[p].type = "offer"
    PROVE  NewDescription(p, type) \in Description
  <1>1. mRemote[p] \in Description \cup {NoDescription} /\ issued[p] \in Nat /\ mRole[p] \in Roles
    BY DEF TypeOK
  <1>2. MediaOf(mRemote[p]) \in SUBSET Media
    BY <1>1 DEF MediaOf, Description
  <1>3. mTracks[p] \in SUBSET Media /\ App \in Media
    BY DEF TypeOK, Media
  <1>4. LocalMedia(p, type) \in SUBSET Media
    BY <1>2, <1>3 DEF LocalMedia
  <1>5. type = "answer" => mRemote[p].number \in Nat
    BY <1>1 DEF Description, NoDescription
  <1>6. (IF type = "offer" THEN 0 ELSE mRemote[p].number) \in Nat /\ issued[p] + 1 \in Nat
    BY <1>1, <1>5
  <1>7. (IF type = "offer" THEN "ActPass" ELSE mRole[p]) \in Roles
    BY <1>1 DEF Roles
  <1> QED
    BY <1>4, <1>6, <1>7 DEF NewDescription, Description

\* What a peer has when it has described itself.
LEMMA Issued ==
    ASSUME TypeOK, NEW p \in Peers, NEW type \in {"offer", "answer"},
           type = "answer" => mRemote[p].type = "offer",
           Issue(p, type)
    PROVE  LET d == NewDescription(p, type) IN
           /\ d \in Description /\ d # NoDescription
           /\ mLocal' = [mLocal EXCEPT ![p] = d] /\ mLocal'[p] = d
           /\ \A q \in Peers \ {p} : mLocal'[q] = mLocal[q]
           /\ mCurrent'[p] = IF mLocal[p] = NoDescription THEN mCurrent[p] ELSE mLocal[p]
           /\ \A q \in Peers \ {p} : mCurrent'[q] = mCurrent[q]
           /\ path'[p] = Append(path[p], d)
           /\ \A q \in Peers \ {p} : path'[q] = path[q]
           /\ signalingState'[p] = (IF type = "offer" THEN "HaveLocalOffer" ELSE "Stable")
           /\ \A q \in Peers \ {p} : signalingState'[q] = signalingState[q]
  <1>1. NewDescription(p, type) \in Description
    BY DescriptionType
  <1>2. NewDescription(p, type) # NoDescription
    BY DEF NewDescription, NoDescription
  <1>3. /\ mLocal \in [Peers -> Description \cup {NoDescription}]
        /\ mCurrent \in [Peers -> Description \cup {NoDescription}]
        /\ path \in [Peers -> Seq(Description \cup {Candidate})]
        /\ signalingState \in [Peers -> States]
    BY DEF TypeOK
  <1> QED
    BY <1>1, <1>2, <1>3 DEF Issue

\* An offer is made.
LEMMA OfferMoves ==
    ASSUME NEW a, NEW b, Two(a, b), Exchange(a, b), TypeOK,
           NEW p \in {a, b}, signalingState[p] = "Stable", Issue(p, "offer"),
           UNCHANGED <<mRemote, mRole>>
    PROVE  Exchange(a, b)'
  <1> DEFINE d == NewDescription(p, "offer")
             S == Description \cup {Candidate}
  <1>1. a \in Peers /\ b \in Peers /\ a # b /\ p \in Peers
    BY DEF Two
  <1>2. d.type = "offer" /\ d.role = "ActPass" /\ d \in Description /\ d # NoDescription
    BY <1>1, Issued DEF NewDescription
  <1>3. /\ mLocal'[p] = d /\ \A q \in Peers \ {p} : mLocal'[q] = mLocal[q]
        /\ mCurrent'[p] = IF mLocal[p] = NoDescription THEN mCurrent[p] ELSE mLocal[p]
        /\ \A q \in Peers \ {p} : mCurrent'[q] = mCurrent[q]
        /\ path'[p] = Append(path[p], d)
        /\ \A q \in Peers \ {p} : path'[q] = path[q]
        /\ signalingState'[p] = "HaveLocalOffer"
        /\ \A q \in Peers \ {p} : signalingState'[q] = signalingState[q]
    BY <1>1, Issued
  <1>4. path[a] \in Seq(S) /\ path[b] \in Seq(S) /\ d \in S
    BY <1>1, <1>2 DEF TypeOK
  <1> HIDE DEF d, S
  <1>5. /\ \A types : Only(path[p], types) => Single(path'[p], types, d)
        /\ \A types, x : Single(path[p], types, x) => Pair(path'[p], types, x, d)
        /\ Only(path[p], Skippable) => Only(path'[p], Skippable)
    BY <1>1, <1>2, <1>3, <1>4, AddToOnly, AddToSingle DEF Skippable
  <1>6. /\ Only(path[b], Quiet) => Only(path[b], Skippable)
        /\ \A x : Single(path[b], Quiet, x) /\ x.type = "offer" => Only(path[b], Skippable)
    BY <1>4, Weaken
  <1>7. NoDescription.type = "none"
    BY DEF NoDescription
  <1> USE DEF RolesTogether, Stands, Offers, Agrees, Fallback, Accepted, Replies
  <1>8. CASE p = a
    <2>1. /\ mLocal'[a] = d /\ mLocal'[b] = mLocal[b] /\ mCurrent'[b] = mCurrent[b]
          /\ mCurrent'[a] = IF mLocal[a] = NoDescription THEN mCurrent[a] ELSE mLocal[a]
          /\ signalingState'[a] = "HaveLocalOffer" /\ signalingState'[b] = signalingState[b]
          /\ path'[b] = path[b]
      BY <1>1, <1>3, <1>8
    <2>2. Idle(a, b) \/ OfferToA(a, b) \/ AnsweredByA(a, b)
      BY <1>8 DEF Exchange, Idle, AcceptedByA, OfferToB, AcceptedByB, AnsweredByB, Stuck
    <2>3. CASE Idle(a, b)
      BY <1>2, <1>5, <1>6, <1>8, <2>1, <2>3 DEF Idle, OfferToB, Exchange
    <2>4. CASE OfferToA(a, b)
      BY <1>2, <1>5, <1>6, <1>8, <2>1, <2>4 DEF OfferToA, OfferToB, Exchange
    <2>5. CASE AnsweredByA(a, b)
      <3>1. Replies(mLocal[a], a, b) /\ Single(path[a], Quiet, mLocal[a])
        BY <1>8, <2>5 DEF AnsweredByA
      <3>2. mCurrent'[a] = mLocal[a]
        BY <1>7, <2>1, <3>1
      <3>3. Pair(path'[a], Quiet, mCurrent'[a], mLocal'[a])
        BY <1>5, <1>8, <2>1, <3>1, <3>2
      <3> QED
        BY <1>2, <2>1, <2>5, <3>1, <3>2, <3>3 DEF AnsweredByA, Exchange
    <2> QED
      BY <2>2, <2>3, <2>4, <2>5
  <1>9. CASE p = b
    <2>1. /\ mLocal'[b] = d /\ mLocal'[a] = mLocal[a] /\ mCurrent'[a] = mCurrent[a]
          /\ mCurrent'[b] = IF mLocal[b] = NoDescription THEN mCurrent[b] ELSE mLocal[b]
          /\ signalingState'[b] = "HaveLocalOffer" /\ signalingState'[a] = signalingState[a]
          /\ path'[a] = path[a]
      BY <1>1, <1>3, <1>9
    <2>2. Idle(a, b) \/ OfferToB(a, b) \/ AnsweredByB(a, b)
      BY <1>9 DEF Exchange, Idle, AcceptedByB, OfferToA, AcceptedByA, AnsweredByA, Stuck
    <2>3. Agrees(b, a) => Fallback(b, a)'
      BY <2>1
    <2>4. CASE Idle(a, b)
      BY <1>2, <1>5, <1>9, <2>1, <2>3, <2>4 DEF Idle, OfferToA, Exchange
    <2>5. CASE OfferToB(a, b)
      BY <1>2, <1>5, <1>9, <2>1, <2>3, <2>5 DEF OfferToB, Exchange
    <2>6. CASE AnsweredByB(a, b)
      <3>1. Replies(mLocal[b], b, a) /\ Single(path[b], Skippable, mLocal[b])
        BY <1>9, <2>6 DEF AnsweredByB
      <3>2. mCurrent'[b] = mLocal[b]
        BY <1>7, <2>1, <3>1
      <3>3. Pair(path'[b], Skippable, mCurrent'[b], mLocal'[b])
        BY <1>5, <1>9, <2>1, <3>1, <3>2
      <3> QED
        BY <1>2, <2>1, <2>6, <3>1, <3>2, <3>3 DEF AnsweredByB, Exchange
    <2> QED
      BY <2>2, <2>4, <2>5, <2>6
  <1> QED
    BY <1>8, <1>9

\* An offer is answered.
LEMMA AnswerMoves ==
    ASSUME NEW a, NEW b, Two(a, b), Exchange(a, b), TypeOK,
           NEW p \in {a, b}, signalingState[p] = "HaveRemoteOffer", Issue(p, "answer"),
           UNCHANGED <<mRemote, mRole>>
    PROVE  Exchange(a, b)'
  <1> DEFINE d == NewDescription(p, "answer")
             S == Description \cup {Candidate}
  <1>1. a \in Peers /\ b \in Peers /\ a # b /\ p \in Peers
    BY DEF Two
  <1>2. mRemote[p].type = "offer"
    BY <1>1 DEF TypeOK
  <1>3. /\ d \in Description
        /\ d.type = "answer" /\ d.role = mRole[p] /\ d.reply = mRemote[p].number
    BY <1>1, <1>2, Issued DEF NewDescription
  <1>4. /\ mLocal'[p] = d /\ \A q \in Peers \ {p} : mLocal'[q] = mLocal[q]
        /\ path'[p] = Append(path[p], d)
        /\ \A q \in Peers \ {p} : path'[q] = path[q]
        /\ signalingState'[p] = "Stable"
        /\ \A q \in Peers \ {p} : signalingState'[q] = signalingState[q]
    BY <1>1, <1>2, Issued
  <1>5. path[p] \in Seq(S) /\ d \in S
    BY <1>1, <1>3 DEF TypeOK
  <1> HIDE DEF d, S
  <1>6. \A types : Only(path[p], types) => Single(path'[p], types, d)
    BY <1>4, <1>5, AddToOnly
  <1> USE DEF Stands, Offers, Accepted, Replies
  <1>7. CASE p = a
    <2>1. AcceptedByA(a, b)
      BY <1>7 DEF Exchange, Idle, OfferToA, AnsweredByA, OfferToB, AcceptedByB, AnsweredByB, Stuck
    <2>2. /\ mLocal'[a] = d /\ mLocal'[b] = mLocal[b]
          /\ signalingState'[a] = "Stable" /\ signalingState'[b] = signalingState[b]
          /\ path'[b] = path[b]
      BY <1>1, <1>4, <1>7
    <2>3. Accepted(a, b)' /\ Only(path'[b], Quiet) /\ Single(path'[a], Quiet, d)
      BY <1>6, <1>7, <2>1, <2>2 DEF AcceptedByA
    <2>4. Replies(mLocal[a], a, b)'
      BY <1>3, <1>7, <2>1, <2>2 DEF AcceptedByA
    <2> QED
      BY <2>2, <2>3, <2>4 DEF AnsweredByA, Exchange
  <1>8. CASE p = b
    <2>1. AcceptedByB(a, b)
      BY <1>8 DEF Exchange, Idle, OfferToA, AcceptedByA, AnsweredByA, OfferToB, AnsweredByB, Stuck
    <2>2. /\ mLocal'[b] = d /\ mLocal'[a] = mLocal[a]
          /\ signalingState'[b] = "Stable" /\ signalingState'[a] = signalingState[a]
          /\ path'[a] = path[a]
      BY <1>1, <1>4, <1>8
    <2>3. Accepted(b, a)' /\ Only(path'[a], Quiet) /\ Single(path'[b], Skippable, d)
      BY <1>6, <1>8, <2>1, <2>2 DEF AcceptedByB
    <2>4. Replies(mLocal[b], b, a)'
      BY <1>3, <1>8, <2>1, <2>2 DEF AcceptedByB
    <2> QED
      BY <2>2, <2>3, <2>4 DEF AnsweredByB, Exchange
  <1> QED
    BY <1>7, <1>8

\* The head of the path of a, when it is a description.
LEMMA HeadOfA ==
    ASSUME NEW a, NEW b, Two(a, b), Exchange(a, b), TypeOK,
           path[a] # <<>>, Head(path[a]).type # "candidate"
    PROVE  \/ /\ OfferToB(a, b) /\ Head(path[a]) = mLocal[a]
              /\ Only(Tail(path[a]), Quiet)
           \/ /\ AnsweredByA(a, b) /\ Stands(a, "Stable")
              /\ Head(path[a]) = mLocal[a] /\ Only(Tail(path[a]), Quiet)
           \/ /\ AnsweredByA(a, b) /\ Offers(a)
              /\ Head(path[a]) = mCurrent[a] /\ Single(Tail(path[a]), Quiet, mLocal[a])
  <1>1. path[a] \in Seq(Description \cup {Candidate})
    BY DEF Two, TypeOK
  <1>2. ~Only(path[a], Quiet)
    BY <1>1, TakeOnly DEF Quiet
  <1>3. \A x : Single(path[a], Quiet, x) => Head(path[a]) = x /\ Only(Tail(path[a]), Quiet)
    BY <1>1, TakeSingle DEF Quiet
  <1>4. \A x, y : Pair(path[a], Quiet, x, y) =>
            Head(path[a]) = x /\ Single(Tail(path[a]), Quiet, y)
    BY <1>1, TakePair DEF Quiet
  <1>5. OfferToB(a, b) \/ AnsweredByA(a, b)
    BY <1>2 DEF Exchange, Idle, OfferToA, AcceptedByA, AcceptedByB, AnsweredByB, Stuck
  <1>6. CASE OfferToB(a, b)
    BY <1>3, <1>6 DEF OfferToB
  <1>7. CASE AnsweredByA(a, b)
    BY <1>3, <1>4, <1>7 DEF AnsweredByA
  <1> QED
    BY <1>5, <1>6, <1>7

\* And of that of b: an offer that a ignores, or one it may accept, or an answer.
LEMMA HeadOfB ==
    ASSUME NEW a, NEW b, Two(a, b), Exchange(a, b), TypeOK,
           path[b] # <<>>, Head(path[b]).type # "candidate"
    PROVE  \/ /\ OfferToA(a, b) /\ Head(path[b]) = mLocal[b]
              /\ Only(Tail(path[b]), Quiet)
           \/ /\ Stands(a, "HaveLocalOffer") /\ Head(path[b]).type = "offer"
              /\ OfferToB(a, b) \/ AcceptedByB(a, b) \/ Stuck(a, b)
              /\ Only(Tail(path[b]), Skippable)
           \/ /\ AnsweredByB(a, b) /\ Stands(b, "Stable") /\ Head(path[b]).type = "offer"
              /\ Single(Tail(path[b]), Skippable, mLocal[b])
           \/ /\ AnsweredByB(a, b) /\ Offers(b) /\ Head(path[b]).type = "offer"
              /\ Pair(Tail(path[b]), Skippable, mCurrent[b], mLocal[b])
           \/ /\ AnsweredByB(a, b) /\ Stands(b, "Stable")
              /\ Head(path[b]) = mLocal[b] /\ Only(Tail(path[b]), Quiet)
           \/ /\ AnsweredByB(a, b) /\ Offers(b)
              /\ Head(path[b]) = mCurrent[b] /\ Single(Tail(path[b]), Quiet, mLocal[b])
  <1>1. path[b] \in Seq(Description \cup {Candidate})
    BY DEF Two, TypeOK
  <1>2. ~Only(path[b], Quiet)
    BY <1>1, TakeOnly DEF Quiet
  <1>3. Only(path[b], Skippable) =>
            Head(path[b]).type = "offer" /\ Only(Tail(path[b]), Skippable)
    BY <1>1, TakeOnly DEF Skippable
  <1>4. \A x : Single(path[b], Quiet, x) => Head(path[b]) = x /\ Only(Tail(path[b]), Quiet)
    BY <1>1, TakeSingle DEF Quiet
  <1>5. \A x : Single(path[b], Skippable, x) =>
            \/ Head(path[b]) = x /\ Only(Tail(path[b]), Quiet)
            \/ Head(path[b]).type = "offer" /\ Single(Tail(path[b]), Skippable, x)
    BY <1>1, TakeSingle DEF Skippable
  <1>6. \A x, y : Pair(path[b], Skippable, x, y) =>
            \/ Head(path[b]) = x /\ Single(Tail(path[b]), Quiet, y)
            \/ Head(path[b]).type = "offer" /\ Pair(Tail(path[b]), Skippable, x, y)
    BY <1>1, TakePair DEF Skippable
  <1>7. CASE OfferToA(a, b)
    BY <1>4, <1>7 DEF OfferToA
  <1>8. CASE OfferToB(a, b)
    BY <1>3, <1>8 DEF OfferToB, Stands, Offers
  <1>9. CASE AcceptedByB(a, b)
    BY <1>3, <1>9 DEF AcceptedByB, Accepted, Stands
  <1>10. CASE AnsweredByB(a, b)
    BY <1>5, <1>6, <1>10 DEF AnsweredByB
  <1>11. CASE Stuck(a, b)
    BY <1>3, <1>11 DEF Stuck, Stands, Offers
  <1> QED
    BY <1>2, <1>7, <1>8, <1>9, <1>10, <1>11
       DEF Exchange, Idle, AcceptedByA, AnsweredByA

-----------------------------------------------------------------------------
\* The application of the polite peer rolls its offer back.
LEMMA RollbackMoves ==
    ASSUME NEW a, NEW b, Two(a, b), Exchange(a, b), TypeOK, NEW p \in {a, b}, Rollback(p)
    PROVE  Exchange(a, b)'
  <1>1. a \in Peers /\ b \in Peers /\ a # b /\ Other(b) = a /\ a \notin Polite
    BY DEF Two
  <1>2. p = b /\ b \in Polite /\ path[a] # <<>> /\ Head(path[a]).type = "offer"
        /\ signalingState[b] = "HaveLocalOffer"
    BY <1>1 DEF Rollback
  <1>3. /\ UNCHANGED <<mRemote, mRole, path>>
        /\ mLocal' = RolledBack(b) /\ mCurrent' = Unpend(b)
        /\ signalingState' = [signalingState EXCEPT ![b] = "Stable"]
    BY <1>2 DEF Rollback
  <1>4. OfferToB(a, b) /\ Offers(b) /\ Fallback(b, a)
    <2>1. ~(AnsweredByA(a, b) /\ Stands(a, "Stable") /\ Head(path[a]) = mLocal[a])
      BY <1>2 DEF AnsweredByA, Stands, Offers, Replies
    <2>2. ~(AnsweredByA(a, b) /\ Offers(a) /\ Head(path[a]) = mCurrent[a])
      BY <1>2 DEF AnsweredByA, Stands, Offers, Replies
    <2>3. OfferToB(a, b)
      BY <1>2, <2>1, <2>2, HeadOfA
    <2> QED
      BY <1>2, <2>3 DEF OfferToB, Stands
  <1>5. /\ mLocal'[a] = mLocal[a]
        /\ mLocal'[b] = IF mCurrent[b] = NoDescription THEN mLocal[b] ELSE mCurrent[b]
        /\ signalingState'[a] = signalingState[a] /\ signalingState'[b] = "Stable"
    BY <1>1, <1>3 DEF TypeOK, RolledBack
  <1>6. Agrees(b, a)'
    BY <1>3, <1>4, <1>5 DEF Agrees, Fallback
  <1>7. OfferToB(a, b)'
    BY <1>3, <1>4, <1>5, <1>6 DEF OfferToB, RolesTogether, Offers, Stands
  <1> QED
    BY <1>7 DEF Exchange

\* An offer with an open role is accepted, and settles the role of who accepts it.
LEMMA AcceptOffer ==
    ASSUME TypeOK, NEW p \in Peers, NEW d \in Description, d.type = "offer",
           d.role = "ActPass", Accept(p, d, "HaveRemoteOffer", "Stable")
    PROVE  /\ mRole'[p] = IF mRole[p] = "ActPass" THEN "Active" ELSE mRole[p]
           /\ \A q \in Peers \ {p} : mRole'[q] = mRole[q]
           /\ mRemote'[p] = d /\ \A q \in Peers \ {p} : mRemote'[q] = mRemote[q]
           /\ signalingState'[p] = "HaveRemoteOffer"
           /\ \A q \in Peers \ {p} : signalingState'[q] = signalingState[q]
  <1>1. /\ mRole \in [Peers -> Roles] /\ signalingState \in [Peers -> States]
        /\ mRemote \in [Peers -> Description \cup {NoDescription}]
    BY DEF TypeOK
  <1>2. Settled(p, d) = IF mRole[p] = "ActPass" THEN "Active" ELSE mRole[p]
    BY DEF Settled
  <1>3. Compatible(p, d)
    BY <1>2 DEF Compatible
  <1>4. Settled(p, d) \in Roles /\ "HaveRemoteOffer" \in States
    BY <1>1, <1>2 DEF Roles, States
  <1>5. /\ mRole' = [mRole EXCEPT ![p] = Settled(p, d)]
        /\ mRemote' = [mRemote EXCEPT ![p] = d]
        /\ signalingState' = [signalingState EXCEPT ![p] = "HaveRemoteOffer"]
    BY <1>3 DEF Accept
  <1> QED
    BY <1>1, <1>2, <1>4, <1>5

\* An answer whose role leaves one to the other peer is accepted.
LEMMA AcceptAnswer ==
    ASSUME TypeOK, NEW p \in Peers, NEW d \in Description, d.type = "answer",
           d.role # "ActPass", mRole[p] # d.role,
           Accept(p, d, "Stable", "HaveLocalOffer")
    PROVE  /\ mRole[p] # "ActPass" => mRole'[p] = mRole[p]
           /\ mRole'[p] # d.role /\ mRole'[p] # "ActPass"
           /\ \A q \in Peers \ {p} : mRole'[q] = mRole[q]
           /\ mRemote'[p] = d /\ \A q \in Peers \ {p} : mRemote'[q] = mRemote[q]
           /\ signalingState'[p] = "Stable"
           /\ \A q \in Peers \ {p} : signalingState'[q] = signalingState[q]
  <1>1. /\ mRole \in [Peers -> Roles] /\ signalingState \in [Peers -> States]
        /\ mRemote \in [Peers -> Description \cup {NoDescription}]
    BY DEF TypeOK
  <1>2. d.role \in Roles
    BY DEF Description
  <1>3. /\ mRole[p] # "ActPass" => Settled(p, d) = mRole[p]
        /\ Settled(p, d) # d.role /\ Settled(p, d) # "ActPass" /\ Settled(p, d) \in Roles
    BY <1>1, <1>2 DEF Settled, Roles
  <1>4. Compatible(p, d) /\ "Stable" \in States
    BY <1>3 DEF Compatible, States
  <1>5. /\ mRole' = [mRole EXCEPT ![p] = Settled(p, d)]
        /\ mRemote' = [mRemote EXCEPT ![p] = d]
        /\ signalingState' = [signalingState EXCEPT ![p] = "Stable"]
    BY <1>4 DEF Accept
  <1> QED
    BY <1>1, <1>3, <1>4, <1>5

\* What p takes from the path of q.
LEMMA Taken ==
    ASSUME TypeOK, NEW p \in Peers, NEW q \in Peers, p # q, Other(p) = q, Receive(p)
    PROVE  /\ path[q] # <<>> /\ Head(path[q]) \in Description \cup {Candidate}
           /\ path'[q] = Tail(path[q]) /\ path'[p] = path[p]
           /\ UNCHANGED <<negotiationNeeded, mTracks, channels, gathering, calling, issued>>
  <1>1. path \in [Peers -> Seq(Description \cup {Candidate})]
    BY DEF TypeOK
  <1>2. path[q] # <<>> /\ path' = [path EXCEPT ![q] = Tail(@)]
    BY DEF Receive
  <1>3. Head(path[q]) \in Description \cup {Candidate}
    BY <1>1, <1>2, HeadTail
  <1> QED
    BY <1>1, <1>2, <1>3 DEF Receive, media

\* An offer that is not ignored.
LEMMA OfferTaken ==
    ASSUME TypeOK, RolesComplementary, RolesTogether,
           NEW p \in Peers, NEW q \in Peers, p # q, Other(p) = q, Peers = {p, q},
           Receive(p), Offers(q), Head(path[q]) = mLocal[q],
           \/ Stands(p, "Stable") /\ Agrees(p, q)
           \/ p \in Polite /\ Offers(p) /\ Fallback(p, q)
    PROVE  /\ RolesComplementary' /\ Accepted(p, q)' /\ Stands(p, "HaveRemoteOffer")'
           /\ Agrees(p, q)' /\ mRemote'[p] # NoDescription
  <1> DEFINE d == Head(path[q])
  <1>1. /\ d.type = "offer" /\ d.role = "ActPass" /\ d \in Description /\ d # NoDescription
    <2>1. d \in Description \cup {Candidate} /\ d.type = "offer" /\ d.role = "ActPass"
      BY Taken DEF Offers
    <2> QED
      BY <2>1 DEF Candidate, NoDescription
  <1> HIDE DEF d
  <1>2. ~Ignores(p, d)
    BY DEF Ignores, Stands, Offers
  <1>3. SetRemoteOffer(p, d)
    BY <1>1, <1>2 DEF Receive, d
  <1>4. /\ Accept(p, d, "HaveRemoteOffer", "Stable")
        /\ \/ Stands(p, "Stable") /\ UNCHANGED <<mLocal, mCurrent>>
           \/ Stands(p, "HaveLocalOffer") /\ mLocal' = RolledBack(p)
    BY <1>3 DEF SetRemoteOffer, Stands, Offers
  <1>5. /\ mRole'[p] = IF mRole[p] = "ActPass" THEN "Active" ELSE mRole[p]
        /\ mRole'[q] = mRole[q]
        /\ mRemote'[p] = d /\ mRemote'[q] = mRemote[q]
        /\ signalingState'[p] = "HaveRemoteOffer" /\ signalingState'[q] = signalingState[q]
    BY <1>1, <1>4, AcceptOffer
  <1>6. mLocal'[q] = mLocal[q]
    BY <1>4 DEF RolledBack, TypeOK
  <1>7. Agrees(p, q)'
    <2>1. CASE Stands(p, "Stable")
      BY <1>4, <1>5, <2>1 DEF Agrees, Stands, Offers
    <2>2. CASE Stands(p, "HaveLocalOffer")
      <3>1. mLocal'[p] = IF mCurrent[p] = NoDescription THEN mLocal[p] ELSE mCurrent[p]
        BY <1>4, <2>2 DEF RolledBack, TypeOK, Stands
      <3> QED
        BY <1>5, <2>2, <3>1 DEF Agrees, Fallback, Stands
    <2> QED
      BY <1>4, <2>1, <2>2
  <1>8. RolesComplementary'
    BY <1>5 DEF RolesComplementary, RolesTogether
  <1>9. Accepted(p, q)'
    BY <1>5, <1>6 DEF Accepted, RolesTogether, Offers, d
  <1> QED
    BY <1>1, <1>5, <1>7, <1>8, <1>9 DEF Stands

\* The answer to the pending offer.
LEMMA AnswerTaken ==
    ASSUME TypeOK, RolesComplementary,
           NEW p \in Peers, NEW q \in Peers, p # q, Other(p) = q, Peers = {p, q},
           Receive(p), Accepted(q, p), Replies(Head(path[q]), q, p)
    PROVE  /\ RolesComplementary' /\ RolesTogether' /\ Stands(p, "Stable")'
           /\ signalingState'[q] = signalingState[q]
           /\ Agrees(p, q)' /\ mRemote'[p] = Head(path[q]) /\ mRemote'[p] # NoDescription
           /\ UNCHANGED <<mLocal, mCurrent>>
  <1> DEFINE d == Head(path[q])
  <1>1. d.type = "answer" /\ d.role = mRole[q] /\ d \in Description /\ d # NoDescription
    <2>1. d \in Description \cup {Candidate} /\ d.type = "answer" /\ d.role = mRole[q]
      BY Taken DEF Replies
    <2> QED
      BY <2>1 DEF Candidate, NoDescription
  <1> HIDE DEF d
  <1>3. SetRemoteAnswer(p, d)
    BY <1>1 DEF Receive, Ignores, d
  <1>4. Accept(p, d, "Stable", "HaveLocalOffer") /\ UNCHANGED <<mLocal, mCurrent>>
    BY <1>3 DEF SetRemoteAnswer, Accepted
  <1>5. d.role # "ActPass" /\ mRole[p] # d.role
    BY <1>1 DEF Accepted, RolesComplementary
  <1>6. /\ mRole'[p] # d.role /\ mRole'[p] # "ActPass" /\ mRole'[q] = mRole[q]
        /\ mRemote'[p] = d /\ mRemote'[q] = mRemote[q]
        /\ signalingState'[p] = "Stable" /\ signalingState'[q] = signalingState[q]
    BY <1>1, <1>4, <1>5, AcceptAnswer
  <1>7. RolesComplementary' /\ RolesTogether'
    BY <1>1, <1>5, <1>6 DEF RolesComplementary, RolesTogether
  <1>8. Agrees(p, q)'
    BY <1>4, <1>6 DEF Agrees, Accepted
  <1> QED
    BY <1>1, <1>4, <1>6, <1>7, <1>8 DEF Stands, d

\* An offer that is ignored, or a candidate.
LEMMA NothingTaken ==
    ASSUME TypeOK, NEW p \in Peers, NEW q \in Peers, p # q, Other(p) = q, Receive(p),
           \/ Head(path[q]).type = "candidate"
           \/ Ignores(p, Head(path[q]))
    PROVE  /\ UNCHANGED <<signalingState, mRole, mLocal, mCurrent, mRemote>>
           /\ Ignores(p, Head(path[q])) => ignored'[p]
  <1>1. ignored \in [Peers -> BOOLEAN]
    BY DEF TypeOK
  <1>2. CASE Head(path[q]).type = "candidate"
    BY <1>2 DEF Receive, Refuse, Ignores
  <1>3. CASE Ignores(p, Head(path[q]))
    <2>1. Refuse /\ ignored' = [ignored EXCEPT ![p] = TRUE]
      BY <1>3 DEF Receive, Ignores
    <2> QED
      BY <1>1, <2>1 DEF Refuse
  <1> QED
    BY <1>2, <1>3

\* b receives a description.
LEMMA ReceivedByB ==
    ASSUME NEW a, NEW b, Two(a, b), Exchange(a, b), TypeOK, RolesComplementary,
           Receive(b), Head(path[a]).type # "candidate"
    PROVE  /\ Exchange(a, b)' /\ RolesComplementary'
           /\ mRemote'[b] # NoDescription \/ ignored'[b]
  <1>1. /\ a \in Peers /\ b \in Peers /\ a # b /\ Peers = {a, b} /\ Peers = {b, a}
        /\ Other(a) = b /\ Other(b) = a /\ a \notin Polite
    BY DEF Two
  <1>2. path[a] # <<>> /\ path'[a] = Tail(path[a]) /\ path'[b] = path[b]
    BY <1>1, Taken
  <1>3. CASE /\ OfferToB(a, b) /\ Head(path[a]) = mLocal[a]
             /\ Only(Tail(path[a]), Quiet)
    <2>1. RolesTogether /\ Offers(a) /\ Only(path[b], Skippable)
      BY <1>3 DEF OfferToB
    <2>2. CASE b \notin Polite /\ Offers(b)
      <3>1. Ignores(b, Head(path[a]))
        BY <1>3, <2>1, <2>2 DEF Ignores, Offers
      <3>2. /\ UNCHANGED <<signalingState, mRole, mLocal, mCurrent, mRemote>>
            /\ ignored'[b]
        BY <1>1, <3>1, NothingTaken
      <3>3. Stuck(a, b)'
        BY <1>2, <1>3, <2>1, <2>2, <3>2 DEF Stuck, RolesTogether, Offers
      <3> QED
        BY <3>2, <3>3 DEF RolesComplementary, Exchange
    <2>3. CASE ~(b \notin Polite /\ Offers(b))
      <3>1. \/ Stands(b, "Stable") /\ Agrees(b, a)
            \/ b \in Polite /\ Offers(b) /\ Fallback(b, a)
        BY <1>3, <2>3 DEF OfferToB
      <3>2. /\ RolesComplementary' /\ Accepted(b, a)' /\ Stands(b, "HaveRemoteOffer")'
            /\ Agrees(b, a)' /\ mRemote'[b] # NoDescription
        BY <1>1, <1>3, <2>1, <3>1, OfferTaken
      <3>3. AcceptedByB(a, b)'
        BY <1>2, <1>3, <2>1, <3>2 DEF AcceptedByB
      <3> QED
        BY <3>2, <3>3 DEF Exchange
    <2> QED
      BY <2>2, <2>3
  <1>4. CASE /\ AnsweredByA(a, b) /\ Stands(a, "Stable")
             /\ Head(path[a]) = mLocal[a] /\ Only(Tail(path[a]), Quiet)
    <2>1. Accepted(a, b) /\ Only(path[b], Quiet) /\ Replies(Head(path[a]), a, b)
      BY <1>4 DEF AnsweredByA, Stands, Offers
    <2>2. /\ RolesComplementary' /\ RolesTogether' /\ Stands(b, "Stable")'
          /\ signalingState'[a] = signalingState[a]
          /\ Agrees(b, a)' /\ mRemote'[b] = mLocal[a] /\ mRemote'[b] # NoDescription
          /\ UNCHANGED <<mLocal, mCurrent>>
      BY <1>1, <1>4, <2>1, AnswerTaken
    <2>3. Idle(a, b)'
      BY <1>2, <1>4, <2>1, <2>2 DEF Idle, Agrees, Stands
    <2> QED
      BY <2>2, <2>3 DEF Exchange
  <1>5. CASE /\ AnsweredByA(a, b) /\ Offers(a)
             /\ Head(path[a]) = mCurrent[a] /\ Single(Tail(path[a]), Quiet, mLocal[a])
    <2>1. Accepted(a, b) /\ Only(path[b], Quiet) /\ Replies(Head(path[a]), a, b)
      BY <1>5 DEF AnsweredByA, Stands, Offers
    <2>2. /\ RolesComplementary' /\ RolesTogether' /\ Stands(b, "Stable")'
          /\ signalingState'[a] = signalingState[a]
          /\ Agrees(b, a)' /\ mRemote'[b] # NoDescription
          /\ UNCHANGED <<mLocal, mCurrent>>
      BY <1>1, <2>1, AnswerTaken
    <2>3. Only(path'[b], Skippable)
      BY <1>1, <1>2, <2>1, path[b] \in Seq(Description \cup {Candidate}), Weaken DEF TypeOK
    <2>4. OfferToB(a, b)'
      BY <1>2, <1>5, <2>2, <2>3 DEF OfferToB, Offers
    <2> QED
      BY <2>2, <2>4 DEF Exchange
  <1> QED
    BY <1>2, <1>3, <1>4, <1>5, HeadOfA

\* a receives a description: it ignores the offers that cross its own.
LEMMA ReceivedByA ==
    ASSUME NEW a, NEW b, Two(a, b), Exchange(a, b), TypeOK, RolesComplementary,
           Receive(a), Head(path[b]).type # "candidate"
    PROVE  /\ Exchange(a, b)' /\ RolesComplementary'
           /\ mRemote'[a] # NoDescription \/ ignored'[a]
  <1>1. /\ a \in Peers /\ b \in Peers /\ a # b /\ Peers = {a, b} /\ Peers = {b, a}
        /\ Other(a) = b /\ Other(b) = a /\ a \notin Polite
    BY DEF Two
  <1>2. path[b] # <<>> /\ path'[b] = Tail(path[b]) /\ path'[a] = path[a]
    BY <1>1, Taken
  <1>3. CASE /\ OfferToA(a, b) /\ Head(path[b]) = mLocal[b]
             /\ Only(Tail(path[b]), Quiet)
    <2>1. /\ RolesTogether /\ Offers(b) /\ Stands(a, "Stable") /\ Agrees(a, b)
          /\ Only(path[a], Quiet)
      BY <1>3 DEF OfferToA
    <2>2. /\ RolesComplementary' /\ Accepted(a, b)' /\ Stands(a, "HaveRemoteOffer")'
          /\ Agrees(a, b)' /\ mRemote'[a] # NoDescription
      BY <1>1, <1>3, <2>1, OfferTaken
    <2>3. AcceptedByA(a, b)'
      BY <1>2, <1>3, <2>1, <2>2 DEF AcceptedByA
    <2> QED
      BY <2>2, <2>3 DEF Exchange
  <1>4. ASSUME Head(path[b]).type = "offer", Stands(a, "HaveLocalOffer")
        PROVE  /\ UNCHANGED <<signalingState, mRole, mLocal, mCurrent, mRemote>>
               /\ ignored'[a] /\ RolesComplementary'
    <2>1. Ignores(a, Head(path[b]))
      BY <1>1, <1>4 DEF Ignores, Stands
    <2>2. /\ UNCHANGED <<signalingState, mRole, mLocal, mCurrent, mRemote>>
          /\ ignored'[a]
      BY <1>1, <2>1, NothingTaken
    <2> QED
      BY <2>2 DEF RolesComplementary
  <1> USE DEF RolesTogether, Stands, Offers, Agrees, Fallback, Accepted
  <1>5. CASE /\ Stands(a, "HaveLocalOffer") /\ Head(path[b]).type = "offer"
             /\ OfferToB(a, b) \/ AcceptedByB(a, b) \/ Stuck(a, b)
             /\ Only(Tail(path[b]), Skippable)
    <2>1. /\ UNCHANGED <<signalingState, mRole, mLocal, mCurrent, mRemote>>
          /\ ignored'[a] /\ RolesComplementary'
      BY <1>4, <1>5
    <2>2. OfferToB(a, b) => OfferToB(a, b)'
      BY <1>2, <1>5, <2>1 DEF OfferToB
    <2>3. AcceptedByB(a, b) => AcceptedByB(a, b)'
      BY <1>2, <1>5, <2>1 DEF AcceptedByB
    <2>4. Stuck(a, b) => Stuck(a, b)'
      BY <1>2, <1>5, <2>1 DEF Stuck
    <2> QED
      BY <1>5, <2>1, <2>2, <2>3, <2>4 DEF Exchange
  <1>6. CASE /\ AnsweredByB(a, b) /\ Stands(b, "Stable") /\ Head(path[b]).type = "offer"
             /\ Single(Tail(path[b]), Skippable, mLocal[b])
    <2>1. Stands(a, "HaveLocalOffer") /\ Replies(mLocal[b], b, a)
      BY <1>6 DEF AnsweredByB
    <2>2. /\ UNCHANGED <<signalingState, mRole, mLocal, mCurrent, mRemote>>
          /\ ignored'[a] /\ RolesComplementary'
      BY <1>4, <1>6, <2>1
    <2>3. AnsweredByB(a, b)'
      BY <1>2, <1>6, <2>1, <2>2 DEF AnsweredByB, Replies
    <2> QED
      BY <2>2, <2>3 DEF Exchange
  <1>7. CASE /\ AnsweredByB(a, b) /\ Offers(b) /\ Head(path[b]).type = "offer"
             /\ Pair(Tail(path[b]), Skippable, mCurrent[b], mLocal[b])
    <2>1. Stands(a, "HaveLocalOffer") /\ Replies(mCurrent[b], b, a)
      BY <1>7 DEF AnsweredByB
    <2>2. /\ UNCHANGED <<signalingState, mRole, mLocal, mCurrent, mRemote>>
          /\ ignored'[a] /\ RolesComplementary'
      BY <1>4, <1>7, <2>1
    <2>3. AnsweredByB(a, b)'
      BY <1>2, <1>7, <2>1, <2>2 DEF AnsweredByB, Replies
    <2> QED
      BY <2>2, <2>3 DEF Exchange
  <1>8. CASE /\ AnsweredByB(a, b) /\ Stands(b, "Stable")
             /\ Head(path[b]) = mLocal[b] /\ Only(Tail(path[b]), Quiet)
    <2>1. Accepted(b, a) /\ Only(path[a], Quiet) /\ Replies(Head(path[b]), b, a)
      BY <1>8 DEF AnsweredByB
    <2>2. /\ RolesComplementary' /\ RolesTogether' /\ Stands(a, "Stable")'
          /\ signalingState'[b] = signalingState[b]
          /\ Agrees(a, b)' /\ mRemote'[a] = mLocal[b] /\ mRemote'[a] # NoDescription
          /\ UNCHANGED <<mLocal, mCurrent>>
      <3> HIDE DEF RolesTogether, Stands, Offers, Agrees, Fallback, Accepted
      <3> QED
        BY <1>1, <1>8, <2>1, AnswerTaken
    <2>3. Idle(a, b)'
      BY <1>2, <1>8, <2>1, <2>2 DEF Idle
    <2> QED
      BY <2>2, <2>3 DEF Exchange
  <1>9. CASE /\ AnsweredByB(a, b) /\ Offers(b)
             /\ Head(path[b]) = mCurrent[b] /\ Single(Tail(path[b]), Quiet, mLocal[b])
    <2>1. Accepted(b, a) /\ Only(path[a], Quiet) /\ Replies(Head(path[b]), b, a)
      BY <1>9 DEF AnsweredByB
    <2>2. /\ RolesComplementary' /\ RolesTogether' /\ Stands(a, "Stable")'
          /\ signalingState'[b] = signalingState[b]
          /\ Agrees(a, b)' /\ mRemote'[a] = mCurrent[b] /\ mRemote'[a] # NoDescription
          /\ UNCHANGED <<mLocal, mCurrent>>
      <3> HIDE DEF RolesTogether, Stands, Offers, Agrees, Fallback, Accepted
      <3> QED
        BY <1>1, <1>9, <2>1, AnswerTaken
    <2>3. OfferToA(a, b)'
      <3>1. RolesTogether' /\ Stands(a, "Stable")' /\ Agrees(a, b)' /\ Fallback(b, a)'
        BY <2>2
      <3>2. Offers(b)'
        BY <1>9, <2>2
      <3> QED
        BY <1>2, <1>9, <2>1, <2>2, <3>1, <3>2 DEF OfferToA
    <2> QED
      BY <2>2, <2>3 DEF Exchange
  <1> HIDE DEF RolesTogether, Stands, Offers, Agrees, Fallback, Accepted
  <1> QED
    BY <1>2, <1>3, <1>5, <1>6, <1>7, <1>8, <1>9, HeadOfB

-----------------------------------------------------------------------------
\* What setLocalDescription() may do.
LEMMA Locals ==
    ASSUME TypeOK, NEW p \in Peers, SetLocal(p) \/ SetLocalAnswer(p)
    PROVE  /\ \/ signalingState[p] = "Stable" /\ Issue(p, "offer")
              \/ signalingState[p] = "HaveRemoteOffer" /\ Issue(p, "answer")
              \/ NothingIssued
           /\ negotiationNeeded' \in [Peers -> BOOLEAN]
  <1>1. negotiationNeeded \in [Peers -> BOOLEAN]
    BY DEF TypeOK
  <1>2. SetLocalOffer(p) \/ SetLocalAnswer(p)
    BY DEF SetLocal
  <1>3. CASE SetLocalOffer(p)
    BY <1>1, <1>3 DEF SetLocalOffer
  <1>4. CASE SetLocalAnswer(p)
    BY <1>1, <1>4 DEF SetLocalAnswer
  <1> QED
    BY <1>2, <1>3, <1>4

\* Issuing keeps the types.
LEMMA IssueTypes ==
    ASSUME TypeOK, NEW p \in Peers, NEW type \in {"offer", "answer"},
           type = "answer" => mRemote[p].type = "offer",
           Issue(p, type), UNCHANGED mRemote
    PROVE  /\ signalingState' \in [Peers -> States]
           /\ mLocal' \in [Peers -> Description \cup {NoDescription}]
           /\ mCurrent' \in [Peers -> Description \cup {NoDescription}]
           /\ mTracks' \in [Peers -> SUBSET (Media \ {App})]
           /\ gathering' \in [Peers -> {"new", "inProgress", "done"}]
           /\ issued' \in [Peers -> Nat]
           /\ path' \in [Peers -> Seq(Description \cup {Candidate})]
           /\ \A q \in Peers : signalingState'[q] = "HaveRemoteOffer" => mRemote'[q].type = "offer"
  <1> DEFINE d == NewDescription(p, type)
  <1>1. d \in Description
    BY DescriptionType
  <1> HIDE DEF d
  <1>2. /\ mLocal' = [mLocal EXCEPT ![p] = d]
        /\ mCurrent' = [mCurrent EXCEPT ![p] = IF mLocal[p] = NoDescription THEN @ ELSE mLocal[p]]
        /\ mTracks' = [mTracks EXCEPT ![p] = @ \cup (MediaOf(mRemote[p]) \ {App})]
        /\ issued' = [issued EXCEPT ![p] = @ + 1]
        /\ path' = [path EXCEPT ![p] = Append(@, d)]
        /\ signalingState' = [signalingState EXCEPT ![p] = IF type = "offer" THEN "HaveLocalOffer"
                                                           ELSE "Stable"]
        /\ gathering' = [gathering EXCEPT ![p] = IF @ = "new" THEN "inProgress" ELSE @]
    BY DEF Issue, d
  <1>3. MediaOf(mRemote[p]) \in SUBSET Media
    <2>1. mRemote[p] \in Description \cup {NoDescription}
      BY DEF TypeOK
    <2> QED
      BY <2>1 DEF MediaOf, Description
  <1>4. /\ mLocal \in [Peers -> Description \cup {NoDescription}]
        /\ mCurrent \in [Peers -> Description \cup {NoDescription}]
    BY DEF TypeOK
  <1>5. /\ mLocal' \in [Peers -> Description \cup {NoDescription}]
        /\ mCurrent' \in [Peers -> Description \cup {NoDescription}]
    BY <1>1, <1>2, <1>4
  <1>6. mTracks' \in [Peers -> SUBSET (Media \ {App})]
    BY <1>2, <1>3 DEF TypeOK
  <1>7. /\ gathering' \in [Peers -> {"new", "inProgress", "done"}]
        /\ issued' \in [Peers -> Nat]
    BY <1>2 DEF TypeOK
  <1>8. path' \in [Peers -> Seq(Description \cup {Candidate})]
    <2>1. path \in [Peers -> Seq(Description \cup {Candidate})]
      BY DEF TypeOK
    <2>2. Append(path[p], d) \in Seq(Description \cup {Candidate})
      BY <1>1, <2>1, AddLast
    <2> QED
      BY <1>2, <2>1, <2>2
  <1>9. /\ signalingState' \in [Peers -> States]
        /\ \A q \in Peers : signalingState'[q] = "HaveRemoteOffer" =>
                                signalingState[q] = "HaveRemoteOffer"
    BY <1>2 DEF TypeOK, States
  <1> QED
    BY <1>5, <1>6, <1>7, <1>8, <1>9 DEF TypeOK

\* So does accepting a description.
LEMMA AcceptTypes ==
    ASSUME TypeOK, NEW p \in Peers, NEW d \in Description,
           NEW newState \in States, NEW oldState \in {"Stable", "HaveLocalOffer"},
           newState = "HaveRemoteOffer" => d.type = "offer",
           Accept(p, d, newState, oldState)
    PROVE  /\ mRole' \in [Peers -> Roles] /\ signalingState' \in [Peers -> States]
           /\ mRemote' \in [Peers -> Description \cup {NoDescription}]
           /\ answering' \in [Peers -> BOOLEAN]
           /\ \A q \in Peers : signalingState'[q] = "HaveRemoteOffer" => mRemote'[q].type = "offer"
  <1>1. /\ mRole \in [Peers -> Roles] /\ signalingState \in [Peers -> States]
        /\ mRemote \in [Peers -> Description \cup {NoDescription}]
        /\ answering \in [Peers -> BOOLEAN]
        /\ \A q \in Peers : signalingState[q] = "HaveRemoteOffer" => mRemote[q].type = "offer"
    BY DEF TypeOK
  <1>2. Settled(p, d) \in Roles
    BY <1>1 DEF Settled, Roles
  <1>3. mRole' \in [Peers -> Roles]
    BY <1>1, <1>2 DEF Accept
  <1>4. CASE Compatible(p, d)
    <2>1. /\ mRemote' = [mRemote EXCEPT ![p] = d]
          /\ signalingState' = [signalingState EXCEPT ![p] = newState]
      BY <1>4 DEF Accept
    <2>2. answering' \in [Peers -> BOOLEAN]
      <3>1. answering' = [answering EXCEPT ![p] = d.type = "offer" /\ AutoNegotiation]
        BY <1>4 DEF Accept
      <3>2. (d.type = "offer" /\ AutoNegotiation) \in BOOLEAN
        OBVIOUS
      <3> QED
        BY <1>1, <3>1, <3>2, Zenon
    <2> QED
      BY <1>1, <1>3, <2>1, <2>2
  <1>5. CASE ~Compatible(p, d)
    <2>1. /\ UNCHANGED <<mRemote, answering>>
          /\ signalingState' = [signalingState EXCEPT ![p] = oldState]
      BY <1>5 DEF Accept
    <2> QED
      BY <1>1, <1>3, <2>1 DEF States
  <1> QED
    BY <1>4, <1>5

\* setLocalDescription() keeps the types.
LEMMA LocalTypes ==
    ASSUME TypeOK, NEW p \in Peers, SetLocal(p) \/ SetLocalAnswer(p),
           UNCHANGED <<mRemote, mRole, channels, ignored>>,
           {answering, calling}' \subseteq [Peers -> BOOLEAN]
    PROVE  TypeOK'
  <1>1. negotiationNeeded' \in [Peers -> BOOLEAN]
    BY Locals
  <1>2. signalingState[p] = "HaveRemoteOffer" => mRemote[p].type = "offer"
    BY DEF TypeOK
  <1>3. CASE \E type \in {"offer", "answer"} :
                (type = "answer" => mRemote[p].type = "offer") /\ Issue(p, type)
    <2>1. PICK type \in {"offer", "answer"} :
                (type = "answer" => mRemote[p].type = "offer") /\ Issue(p, type)
      BY <1>3
    <2>2. /\ signalingState' \in [Peers -> States]
          /\ mLocal' \in [Peers -> Description \cup {NoDescription}]
          /\ mCurrent' \in [Peers -> Description \cup {NoDescription}]
          /\ mTracks' \in [Peers -> SUBSET (Media \ {App})]
          /\ gathering' \in [Peers -> {"new", "inProgress", "done"}]
          /\ issued' \in [Peers -> Nat]
          /\ path' \in [Peers -> Seq(Description \cup {Candidate})]
          /\ \A q \in Peers : signalingState'[q] = "HaveRemoteOffer" => mRemote'[q].type = "offer"
      BY <2>1, IssueTypes
    <2> QED
      BY <1>1, <2>2 DEF TypeOK
  <1>4. CASE NothingIssued
    BY <1>1, <1>4 DEF TypeOK, NothingIssued
  <1> QED
    BY <1>2, <1>3, <1>4, Locals

\* So does what is received.
LEMMA ReceivedTypes ==
    ASSUME TypeOK, NEW p \in Peers, NEW q \in Peers, p # q, Other(p) = q, Receive(p)
    PROVE  TypeOK' /\ \A r \in Peers \ {p} : mRemote'[r] = mRemote[r] /\ ignored'[r] = ignored[r]
  <1> DEFINE d == Head(path[q])
  <1>1. /\ path[q] # <<>> /\ d \in Description \cup {Candidate}
        /\ UNCHANGED <<negotiationNeeded, mTracks, channels, gathering, calling, issued>>
    BY Taken
  <1>2. path' \in [Peers -> Seq(Description \cup {Candidate})]
    <2>1. path \in [Peers -> Seq(Description \cup {Candidate})]
      BY DEF TypeOK
    <2>2. path' = [path EXCEPT ![q] = Tail(@)]
      BY DEF Receive
    <2>3. Tail(path[q]) \in Seq(Description \cup {Candidate})
      BY <1>1, <2>1, HeadTail
    <2> QED
      BY <2>1, <2>2, <2>3
  <1>3. \/ d.type = "candidate" /\ Refuse /\ UNCHANGED ignored
        \/ Ignores(p, d) /\ Refuse /\ ignored' = [ignored EXCEPT ![p] = TRUE]
        \/ d.type = "offer" /\ ~Ignores(p, d) /\ SetRemoteOffer(p, d) /\ UNCHANGED ignored
        \/ d.type = "answer" /\ SetRemoteAnswer(p, d) /\ UNCHANGED ignored
    BY DEF Receive
  <1> HIDE DEF d
  <1>4. ignored' \in [Peers -> BOOLEAN] /\ \A r \in Peers \ {p} : ignored'[r] = ignored[r]
    BY <1>3 DEF TypeOK
  <1>5. RolledBack(p) \in [Peers -> Description \cup {NoDescription}]
        /\ Unpend(p) \in [Peers -> Description \cup {NoDescription}]
    BY DEF RolledBack, Unpend, TypeOK
  <1>6. mLocal' \in [Peers -> Description \cup {NoDescription}]
        /\ mCurrent' \in [Peers -> Description \cup {NoDescription}]
    BY <1>3, <1>5 DEF SetRemoteOffer, SetRemoteAnswer, Refuse, TypeOK
  <1>7. /\ mRole' \in [Peers -> Roles] /\ signalingState' \in [Peers -> States]
        /\ mRemote' \in [Peers -> Description \cup {NoDescription}]
        /\ answering' \in [Peers -> BOOLEAN]
        /\ \A r \in Peers : signalingState'[r] = "HaveRemoteOffer" => mRemote'[r].type = "offer"
        /\ \A r \in Peers \ {p} : mRemote'[r] = mRemote[r]
    <2>1. CASE Refuse
      BY <2>1 DEF Refuse, TypeOK
    <2>2. ASSUME NEW newState, NEW oldState, d.type \in {"offer", "answer"},
                 Accept(p, d, newState, oldState)
          PROVE  d \in Description /\ \A r \in Peers \ {p} : mRemote'[r] = mRemote[r]
      <3>1. d \in Description
        BY <1>1, <2>2 DEF Candidate, d
      <3>2. mRemote' = mRemote \/ mRemote' = [mRemote EXCEPT ![p] = d]
        BY <2>2 DEF Accept
      <3> QED
        BY <3>1, <3>2 DEF TypeOK
    <2>3. CASE d.type = "offer" /\ Accept(p, d, "HaveRemoteOffer", "Stable")
      BY <2>2, <2>3, AcceptTypes DEF States
    <2>4. CASE d.type = "answer" /\ Accept(p, d, "Stable", "HaveLocalOffer")
      BY <2>2, <2>4, AcceptTypes DEF States
    <2> QED
      BY <1>3, <2>1, <2>3, <2>4 DEF SetRemoteOffer, SetRemoteAnswer
  <1>8. /\ negotiationNeeded' \in [Peers -> BOOLEAN] /\ calling' \in [Peers -> BOOLEAN]
        /\ mTracks' \in [Peers -> SUBSET (Media \ {App})]
        /\ channels' \in [Peers -> 0..MaxChannels]
        /\ gathering' \in [Peers -> {"new", "inProgress", "done"}]
        /\ issued' \in [Peers -> Nat]
    BY <1>1 DEF TypeOK
  <1> QED
    BY <1>2, <1>4, <1>6, <1>7, <1>8 DEF TypeOK

\* And every step.
LEMMA StepTypes ==
    ASSUME NEW a, NEW b, Two(a, b), TypeOK, Next
    PROVE  TypeOK'
  <1>1. /\ answering \in [Peers -> BOOLEAN] /\ calling \in [Peers -> BOOLEAN]
        /\ negotiationNeeded \in [Peers -> BOOLEAN]
    BY DEF TypeOK
  <1>2. ASSUME NEW p \in Peers, CreateChannel(p) PROVE TypeOK'
    <2>1. negotiationNeeded' \in [Peers -> BOOLEAN]
      <3>1. /\ negotiationNeeded' = [negotiationNeeded EXCEPT
                                        ![p] = @ \/ App \notin MediaOf(mLocal[p])]
            /\ (negotiationNeeded[p] \/ App \notin MediaOf(mLocal[p])) \in BOOLEAN
        BY <1>2 DEF CreateChannel
      <3> QED
        BY <1>1, <3>1, Zenon
    <2>2. calling' \in [Peers -> BOOLEAN]
      BY <1>1, <1>2, SignalingAssumption DEF CreateChannel
    <2>3. channels' \in [Peers -> 0..MaxChannels]
      <3>1. channels \in [Peers -> 0..MaxChannels] /\ MaxChannels \in Nat
        BY SignalingAssumption DEF TypeOK
      <3>2. channels[p] + 1 \in 0..MaxChannels /\ channels' = [channels EXCEPT ![p] = @ + 1]
        BY <1>2, <3>1 DEF CreateChannel
      <3> QED
        BY <3>1, <3>2
    <2> QED
      BY <1>2, <2>1, <2>2, <2>3 DEF CreateChannel, TypeOK, descriptions
  <1>3. ASSUME NEW p \in Peers, AddTrack(p) PROVE TypeOK'
    <2>1. mTracks' \in [Peers -> SUBSET (Media \ {App})]
      <3>1. PICK t \in Tracks[p] : mTracks' = [mTracks EXCEPT ![p] = @ \cup {t}]
        BY <1>3 DEF AddTrack
      <3>2. t \in Media \ {App}
        BY SignalingAssumption DEF Media
      <3> QED
        BY <3>1, <3>2 DEF TypeOK
    <2>2. negotiationNeeded' \in [Peers -> BOOLEAN]
      BY <1>1, <1>3 DEF AddTrack
    <2> QED
      BY <1>3, <2>1, <2>2 DEF AddTrack, TypeOK, descriptions
  <1>4. ASSUME NEW p \in Peers, Rollback(p) PROVE TypeOK'
    <2>1. /\ RolledBack(p) \in [Peers -> Description \cup {NoDescription}]
          /\ Unpend(p) \in [Peers -> Description \cup {NoDescription}]
      BY DEF RolledBack, Unpend, TypeOK
    <2>2. [signalingState EXCEPT ![p] = "Stable"] \in [Peers -> States]
      BY DEF TypeOK, States
    <2>3. \A q \in Peers : [signalingState EXCEPT ![p] = "Stable"][q] = "HaveRemoteOffer" =>
                              mRemote[q].type = "offer"
      BY DEF TypeOK
    <2> QED
      BY <1>4, <2>1, <2>2, <2>3 DEF Rollback, TypeOK, media
  <1>5. ASSUME NEW p \in Peers, LocalCandidate(p) PROVE TypeOK'
    <2>1. path' \in [Peers -> Seq(Description \cup {Candidate})]
      <3>1. path \in [Peers -> Seq(Description \cup {Candidate})]
        BY DEF TypeOK
      <3>2. Append(path[p], Candidate) \in Seq(Description \cup {Candidate})
        BY <3>1, AddLast
      <3> QED
        BY <1>5, <3>1, <3>2 DEF LocalCandidate
    <2>2. gathering' \in [Peers -> {"new", "inProgress", "done"}]
      BY <1>5 DEF LocalCandidate, TypeOK
    <2> QED
      BY <1>5, <2>1, <2>2 DEF LocalCandidate, TypeOK, descriptions, media
  <1>6. ASSUME NEW p \in Peers, Negotiate(p) PROVE TypeOK'
    BY <1>1, <1>6, LocalTypes DEF Negotiate
  <1>7. ASSUME NEW p \in Peers, CreateNegotiate(p) PROVE TypeOK'
    BY <1>1, <1>7, LocalTypes DEF CreateNegotiate
  <1>8. ASSUME NEW p \in Peers, Answer(p) PROVE TypeOK'
    BY <1>1, <1>8, LocalTypes DEF Answer
  <1>9. ASSUME NEW p \in Peers, Receive(p) PROVE TypeOK'
    BY <1>9, ReceivedTypes DEF Two
  <1> QED
    BY <1>2, <1>3, <1>4, <1>5, <1>6, <1>7, <1>8, <1>9 DEF Next, Library

\* Every step moves the exchange to where it may be, and roles differ.
LEMMA StepExchange ==
    ASSUME NEW a, NEW b, Two(a, b), TypeOK, RolesComplementary, Exchange(a, b), Next
    PROVE  Exchange(a, b)' /\ RolesComplementary'
  <1>1. /\ Peers = {a, b} /\ a # b /\ Other(a) = b /\ Other(b) = a
        /\ path \in [Peers -> Seq(Description \cup {Candidate})]
    BY DEF Two, TypeOK
  <1>2. ASSUME UNCHANGED <<signalingState, mLocal, mCurrent, mRemote, mRole, path>>
        PROVE  Exchange(a, b)'
    BY <1>2, Unmoved DEF Keeps
  <1>3. ASSUME NEW p \in Peers, SetLocal(p) \/ SetLocalAnswer(p), UNCHANGED <<mRemote, mRole>>
        PROVE  Exchange(a, b)' /\ RolesComplementary'
    <2>1. RolesComplementary'
      BY <1>3 DEF RolesComplementary
    <2>2. CASE signalingState[p] = "Stable" /\ Issue(p, "offer")
      BY <1>1, <1>3, <2>1, <2>2, OfferMoves
    <2>3. CASE signalingState[p] = "HaveRemoteOffer" /\ Issue(p, "answer")
      BY <1>1, <1>3, <2>1, <2>3, AnswerMoves
    <2>4. CASE NothingIssued
      BY <1>2, <1>3, <2>1, <2>4 DEF NothingIssued
    <2> QED
      BY <1>3, <2>2, <2>3, <2>4, Locals
  <1>4. ASSUME NEW p \in Peers, LocalCandidate(p) PROVE Exchange(a, b)'
    <2>1. path' = [path EXCEPT ![p] = Append(@, Candidate)]
          /\ UNCHANGED <<signalingState, mLocal, mCurrent, mRemote, mRole>>
      BY <1>4 DEF LocalCandidate, descriptions
    <2>2. Keeps(path[p], Append(path[p], Candidate))
      BY <1>1, KeepsAdded DEF Candidate
    <2>3. \A q \in Peers : path'[q] = path[q] \/ (q = p /\ path'[q] = Append(path[p], Candidate))
      BY <1>1, <2>1
    <2>4. \A q \in Peers : Keeps(path[q], path'[q])
      BY <2>2, <2>3 DEF Keeps
    <2> QED
      BY <1>1, <2>1, <2>4, Unmoved
  <1>5. ASSUME NEW p \in Peers, NEW q \in Peers, p # q, Other(p) = q, Receive(p),
               Head(path[q]).type = "candidate"
        PROVE  Exchange(a, b)' /\ RolesComplementary'
    <2>1. path[q] # <<>> /\ path'[q] = Tail(path[q]) /\ path'[p] = path[p]
      BY <1>5, Taken
    <2>2. UNCHANGED <<signalingState, mRole, mLocal, mCurrent, mRemote>>
      BY <1>5, NothingTaken
    <2>3. Keeps(path[q], path'[q]) /\ Keeps(path[p], path'[p])
      BY <1>1, <1>5, <2>1, KeepsTaken DEF Keeps
    <2>4. Exchange(a, b)'
      BY <1>1, <1>5, <2>2, <2>3, Unmoved
    <2> QED
      BY <2>2, <2>4 DEF RolesComplementary
  <1>6. ASSUME Receive(a) PROVE Exchange(a, b)' /\ RolesComplementary'
    BY <1>1, <1>5, <1>6, ReceivedByA
  <1>7. ASSUME Receive(b) PROVE Exchange(a, b)' /\ RolesComplementary'
    BY <1>1, <1>5, <1>7, ReceivedByB
  <1>8. ASSUME NEW p \in Peers, CreateChannel(p) \/ AddTrack(p)
        PROVE  Exchange(a, b)' /\ RolesComplementary'
    <2>1. UNCHANGED <<signalingState, mLocal, mCurrent, mRemote, mRole, path>>
      BY <1>8 DEF CreateChannel, AddTrack, descriptions
    <2> QED
      BY <1>2, <2>1 DEF RolesComplementary
  <1>9. ASSUME NEW p \in Peers, Rollback(p) PROVE Exchange(a, b)' /\ RolesComplementary'
    <2>1. UNCHANGED mRole
      BY <1>9 DEF Rollback
    <2> QED
      BY <1>1, <1>9, <2>1, RollbackMoves DEF RolesComplementary
  <1>10. ASSUME NEW p \in Peers, LocalCandidate(p) PROVE RolesComplementary'
    BY <1>10 DEF LocalCandidate, RolesComplementary
  <1>11. ASSUME NEW p \in Peers, Negotiate(p) \/ CreateNegotiate(p) \/ Answer(p)
         PROVE  (SetLocal(p) \/ SetLocalAnswer(p)) /\ UNCHANGED <<mRemote, mRole>>
    BY <1>11 DEF Negotiate, CreateNegotiate, Answer
  <1> QED
    BY <1>1, <1>3, <1>4, <1>6, <1>7, <1>8, <1>9, <1>10, <1>11 DEF Next, Library

\* No step puts a candidate before its description.
LEMMA StepCandidates ==
    ASSUME NEW a, NEW b, Two(a, b), TypeOK, RolesComplementary, Exchange(a, b),
           CandidatesBehind, Next
    PROVE  CandidatesBehind'
  <1>1. /\ Peers = {a, b} /\ a # b /\ Other(a) = b /\ Other(b) = a
        /\ path \in [Peers -> Seq(Description \cup {Candidate})]
        /\ gathering \in [Peers -> {"new", "inProgress", "done"}]
    BY DEF Two, TypeOK
  <1>2. ASSUME UNCHANGED <<gathering, path, mRemote, ignored>> PROVE CandidatesBehind'
    BY <1>2 DEF CandidatesBehind
  <1>3. ASSUME NEW p \in Peers, NEW type \in {"offer", "answer"},
               type = "answer" => mRemote[p].type = "offer",
               Issue(p, type), UNCHANGED <<mRemote, ignored>>
        PROVE  CandidatesBehind'
    <2>1. gathering' = [gathering EXCEPT ![p] = IF @ = "new" THEN "inProgress" ELSE @]
      BY <1>3 DEF Issue
    <2>2. /\ path'[p] = Append(path[p], NewDescription(p, type))
          /\ NewDescription(p, type) \in Description
          /\ \A q \in Peers \ {p} : path'[q] = path[q]
      BY <1>3, Issued
    <2>3. NewDescription(p, type).type # "candidate"
      BY DEF NewDescription
    <2>4. path'[p] # <<>> /\ (path[p] = <<>> \/ Head(path'[p]) = Head(path[p]))
          /\ (path[p] = <<>> => Head(path'[p]).type # "candidate")
      BY <1>1, <2>2, <2>3, AddLast
    <2>5. gathering'[p] # "new" /\ \A q \in Peers \ {p} : gathering'[q] = gathering[q]
      BY <1>1, <2>1
    <2> QED
      BY <1>3, <2>2, <2>4, <2>5 DEF CandidatesBehind
  <1>4. ASSUME NEW p \in Peers, SetLocal(p) \/ SetLocalAnswer(p), UNCHANGED <<mRemote, ignored>>
        PROVE  CandidatesBehind'
    <2>1. signalingState[p] = "HaveRemoteOffer" => mRemote[p].type = "offer"
      BY DEF TypeOK
    <2>2. CASE NothingIssued
      BY <1>2, <1>4, <2>2 DEF NothingIssued
    <2> QED
      BY <1>3, <1>4, <2>1, <2>2, Locals
  <1>5. ASSUME NEW p \in Peers, LocalCandidate(p) PROVE CandidatesBehind'
    <2>1. /\ gathering[p] = "inProgress" /\ gathering' = [gathering EXCEPT ![p] = "done"]
          /\ path' = [path EXCEPT ![p] = Append(@, Candidate)]
          /\ UNCHANGED <<mRemote, ignored>>
      BY <1>5 DEF LocalCandidate, descriptions
    <2>2. /\ Append(path[p], Candidate) # <<>>
          /\ path[p] # <<>> => Head(Append(path[p], Candidate)) = Head(path[p])
      BY <1>1, AddLast
    <2>3. /\ path'[p] = Append(path[p], Candidate) /\ gathering'[p] = "done"
          /\ \A q \in Peers \ {p} : path'[q] = path[q] /\ gathering'[q] = gathering[q]
      BY <1>1, <2>1
    <2> QED
      BY <2>1, <2>2, <2>3 DEF CandidatesBehind
  <1>6. ASSUME NEW p \in Peers, Receive(p) PROVE CandidatesBehind'
    <2> DEFINE q == Other(p)
    <2>1. q \in Peers /\ q # p /\ Other(q) = p /\ Peers = {p, q}
      BY <1>1
    <2> HIDE DEF q
    <2>2. /\ path[q] # <<>> /\ path'[q] = Tail(path[q]) /\ path'[p] = path[p]
          /\ UNCHANGED gathering
      BY <1>6, <2>1, Taken DEF q
    <2>3. mRemote'[q] = mRemote[q] /\ ignored'[q] = ignored[q]
      BY <1>6, <2>1, ReceivedTypes DEF q
    <2>4. mRemote'[p] # NoDescription \/ ignored'[p]
      <3>1. CASE Head(path[q]).type = "candidate"
        <4>1. UNCHANGED <<mRemote, ignored>>
          BY <1>6, <3>1 DEF Receive, Refuse, Ignores, q
        <4> QED
          BY <2>1, <2>2, <3>1, <4>1 DEF CandidatesBehind
      <3>2. CASE Head(path[q]).type # "candidate"
        BY <1>1, <1>6, <3>2, ReceivedByA, ReceivedByB DEF q
      <3> QED
        BY <3>1, <3>2
    <2> QED
      BY <2>1, <2>2, <2>3, <2>4 DEF CandidatesBehind, q
  <1>7. ASSUME NEW p \in Peers, CreateChannel(p) \/ AddTrack(p) \/ Rollback(p)
        PROVE  CandidatesBehind'
    <2>1. UNCHANGED <<gathering, path, mRemote, ignored>>
      BY <1>7 DEF CreateChannel, AddTrack, Rollback, descriptions
    <2> QED
      BY <1>2, <2>1
  <1>8. ASSUME NEW p \in Peers, Negotiate(p) \/ CreateNegotiate(p) \/ Answer(p)
        PROVE  (SetLocal(p) \/ SetLocalAnswer(p)) /\ UNCHANGED <<mRemote, ignored>>
    BY <1>8 DEF Negotiate, CreateNegotiate, Answer
  <1> QED
    BY <1>4, <1>5, <1>6, <1>7, <1>8 DEF Next, Library

-----------------------------------------------------------------------------
\* The exchange begins in Idle.
LEMMA Initially ==
    ASSUME \E p \in Peers : p \notin Polite, Init
    PROVE  Inv
  <1> DEFINE a == Impolite
             b == Other(a)
  <1>1. Two(a, b)
    BY TwoPeers
  <1>2. \A p \in Peers :
            /\ path[p] = <<>> /\ Len(path[p]) = 0
            /\ signalingState[p] = "Stable" /\ mRole[p] = "ActPass"
            /\ mRemote[p] = NoDescription /\ gathering[p] = "new"
    BY EmptySeq DEF Init
  <1>3. Only(path[a], Quiet) /\ Only(path[b], Quiet)
    BY <1>1, <1>2 DEF Only, Two
  <1>4. Idle(a, b)
    BY <1>1, <1>2, <1>3 DEF Idle, RolesTogether, Stands, Agrees, Two
  <1>5. TypeOK
    <2>1. path \in [Peers -> Seq(Description \cup {Candidate})]
      BY EmptySeq DEF Init
    <2>2. channels \in [Peers -> 0..MaxChannels]
      BY SignalingAssumption DEF Init
    <2> QED
      BY <2>1, <2>2 DEF Init, TypeOK, States, Roles
  <1>6. RolesComplementary /\ CandidatesBehind
    BY <1>2 DEF RolesComplementary, CandidatesBehind
  <1> QED
    BY <1>4, <1>5, <1>6 DEF Inv, Exchange

\* Every step leaves the invariant.
LEMMA Inductive ==
    ASSUME \E p \in Peers : p \notin Polite, Inv, [Next]_vars
    PROVE  Inv'
  <1> DEFINE a == Impolite
             b == Other(a)
  <1>1. Two(a, b) /\ TypeOK /\ RolesComplementary /\ CandidatesBehind /\ Exchange(a, b)
    BY TwoPeers DEF Inv
  <1>2. CASE Next
    <2> HIDE DEF a, b
    <2>1. TypeOK' /\ RolesComplementary' /\ CandidatesBehind' /\ Exchange(a, b)'
      BY <1>1, <1>2, StepTypes, StepExchange, StepCandidates
    <2> QED
      BY <2>1 DEF Inv, a, b
  <1>3. CASE UNCHANGED vars
    <2>1. UNCHANGED <<signalingState, negotiationNeeded, mLocal, mCurrent, mRemote, mRole, mTracks,
                      channels, gathering, answering, calling, issued, ignored, path>>
      BY <1>3 DEF vars, descriptions, media
    <2>2. TypeOK' /\ RolesComplementary' /\ CandidatesBehind'
      BY <1>1, <2>1 DEF TypeOK, RolesComplementary, CandidatesBehind
    <2>3. Exchange(a, b)'
      BY <1>1, <2>1, Unmoved DEF Keeps
    <2> QED
      BY <2>2, <2>3 DEF Inv
  <1> QED
    BY <1>2, <1>3

\* The two peers are at the same place of one exchange, that at most one of them
\* is polite keeps well-defined.
THEOREM Invariance ==
    ASSUME \E p \in Peers : p \notin Polite
    PROVE  Spec => []Inv
  <1>1. Init => Inv
    BY Initially
  <1>2. Inv /\ [Next]_vars => Inv'
    BY Inductive
  <1> QED
    BY <1>1, <1>2, PTL DEF Spec

\* An answer to the pending offer is accepted.
LEMMA AnswerCompatible ==
    ASSUME TypeOK, RolesComplementary, NEW p \in Peers, NEW q \in Peers, p # q,
           Accepted(q, p), NEW d, Replies(d, q, p)
    PROVE  /\ signalingState[p] = "HaveLocalOffer" /\ mLocal[p].number = d.reply
           /\ Compatible(p, d)
  <1>1. mRole[p] \in Roles /\ mRole[q] \in Roles
    BY DEF TypeOK
  <1>2. d.role = mRole[q] /\ mRole[q] # "ActPass" /\ mRole[p] # mRole[q]
    BY DEF Accepted, Replies, RolesComplementary
  <1>3. mRole[p] = "ActPass" => d.role = "Active"
    BY DEF Accepted, Replies
  <1>4. Compatible(p, d)
    BY <1>1, <1>2, <1>3 DEF Compatible, Settled
  <1> QED
    BY <1>4 DEF Accepted, Replies

\* The invariant implies that an answer finds its offer,
LEMMA InvAnswerFits ==
    ASSUME \E p \in Peers : p \notin Polite, Inv
    PROVE  AnswerFits
  <1> DEFINE a == Impolite
             b == Other(a)
  <1>1. Two(a, b) /\ TypeOK /\ RolesComplementary /\ Exchange(a, b)
    BY TwoPeers DEF Inv
  <1> HIDE DEF a, b
  <1>2. /\ Peers = {a, b} /\ a # b /\ Other(a) = b /\ Other(b) = a
    BY <1>1 DEF Two
  <1>3. ASSUME path[a] # <<>>, Head(path[a]).type = "answer"
        PROVE  Accepted(a, b) /\ Replies(Head(path[a]), a, b)
    BY <1>1, <1>3, HeadOfA DEF OfferToB, AnsweredByA, Stands, Offers
  <1>4. ASSUME path[b] # <<>>, Head(path[b]).type = "answer"
        PROVE  Accepted(b, a) /\ Replies(Head(path[b]), b, a)
    BY <1>1, <1>4, HeadOfB DEF OfferToA, AnsweredByB, Stands, Offers
  <1> QED
    BY <1>1, <1>2, <1>3, <1>4, AnswerCompatible DEF AnswerFits

\* and that peers without a pending offer agree.
LEMMA InvAgreed ==
    ASSUME \E p \in Peers : p \notin Polite, Inv
    PROVE  Agreed
  <1> DEFINE a == Impolite
             b == Other(a)
  <1>1. Two(a, b) /\ TypeOK /\ Exchange(a, b)
    BY TwoPeers DEF Inv
  <1> HIDE DEF a, b
  <1>2. /\ Peers = {a, b} /\ a # b /\ Other(a) = b /\ Other(b) = a
        /\ path[a] \in Seq(Description \cup {Candidate})
        /\ path[b] \in Seq(Description \cup {Candidate})
    BY <1>1 DEF Two, TypeOK
  <1>3. \/ signalingState[a] = "HaveLocalOffer" \/ Agrees(a, b)
        \/ Single(path[a], Quiet, mLocal[a])
    BY <1>1 DEF Exchange, Idle, OfferToA, AcceptedByA, AnsweredByA, OfferToB, AcceptedByB,
                AnsweredByB, Stuck, Stands, Offers, Accepted
  <1>4. \/ signalingState[b] = "HaveLocalOffer" \/ Agrees(b, a)
        \/ Single(path[b], Skippable, mLocal[b])
    BY <1>1 DEF Exchange, Idle, OfferToA, AcceptedByA, AnsweredByA, OfferToB, AcceptedByB,
                AnsweredByB, Stuck, Stands, Offers, Accepted
  <1>5. /\ Single(path[a], Quiet, mLocal[a]) => mLocal[a] \in ToSet(path[a])
        /\ Single(path[b], Skippable, mLocal[b]) => mLocal[b] \in ToSet(path[b])
    BY <1>2, Weaken
  <1> QED
    BY <1>2, <1>3, <1>4, <1>5 DEF Agreed, Agrees

\* An answer finds the offer it replies to pending and is accepted, a candidate
\* finds a description, and the roles differ: setRemoteDescription() refuses
\* nothing, whatever offers cross (SignalingInv).
THEOREM Fits ==
    ASSUME \E p \in Peers : p \notin Polite
    PROVE  Spec => []SignalingInv
  <1>1. ASSUME Inv PROVE CandidateFits
    <2>1. \A p \in Peers : Other(p) \in Peers /\ Other(Other(p)) = p
      BY TwoPeers DEF Two
    <2> QED
      BY <1>1, <2>1 DEF Inv, CandidatesBehind, CandidateFits
  <1>2. Inv => SignalingInv
    BY <1>1, InvAnswerFits DEF Inv, SignalingInv
  <1> QED
    BY <1>2, Invariance, PTL

\* A peer without a pending offer has the local description that the other has,
\* or its answer is on its way; after a rollback, the former one (Agreed).
THEOREM PeersAgree ==
    ASSUME \E p \in Peers : p \notin Polite
    PROVE  Spec => []Agreed
  <1>1. Inv => Agreed
    BY InvAgreed
  <1> QED
    BY <1>1, Invariance, PTL
=============================================================================
