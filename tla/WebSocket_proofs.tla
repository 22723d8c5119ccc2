------------------------- MODULE WebSocket_proofs -------------------------
(***************************************************************************)
(* What a WebSocket writes, for every plan of the application and of the   *)
(* peer: the socket takes a prefix of what the calls handed to it, in      *)
(* their order and each message whole (src/src/impl/tcptransport.cpp), and *)
(* a WebSocket that closes does not open any more but in one race          *)
(* (src/src/impl/websocket.cpp).                                           *)
(*                                                                         *)
(* The frames of the stacks carry whatever the code carries, so nothing is *)
(* said of their type but what the properties need: what is a sequence.    *)
(* First come lemmas about such sequences, about the frames that actions   *)
(* push, and about a queue that holds what is left of a sequence, slice by *)
(* slice; then the inductive invariant, and for each action that the step  *)
(* keeps it.                                                               *)
(***************************************************************************)
EXTENDS WebSocket, SequenceTheorems, WellFoundedInduction, TLAPS

\* A sequence of anything.
IsSeq(s) == s \in Seq({s[i] : i \in DOMAIN s})

\* A sequence over any set is one over its elements.
LEMMA SeqIs ==
    ASSUME NEW S, NEW s \in Seq(S)
    PROVE  IsSeq(s) /\ Len(s) \in Nat /\ DOMAIN s = 1..Len(s)
  <1>1. Len(s) \in Nat /\ DOMAIN s = 1..Len(s)
    BY LenProperties
  <1>2. s = [i \in 1..Len(s) |-> s[i]]
    BY <1>1, LenProperties
  <1>3. \A i \in 1..Len(s) : s[i] \in {s[j] : j \in DOMAIN s}
    BY <1>1
  <1> DEFINE R == {s[j] : j \in DOMAIN s}
  <1>4. s \in Seq(R)
    <2> HIDE DEF R
    <2> QED
      BY <1>1, <1>2, <1>3, IsASeq DEF R
  <1> QED
    BY <1>1, <1>4 DEF IsSeq

LEMMA IsLen == ASSUME NEW s, IsSeq(s) PROVE Len(s) \in Nat /\ DOMAIN s = 1..Len(s)
  <1> DEFINE S == {s[i] : i \in DOMAIN s}
  <1>1. s \in Seq(S)
    BY DEF IsSeq
  <1> HIDE DEF S
  <1> QED
    BY <1>1, SeqIs

LEMMA EmptyIs == IsSeq(<<>>) /\ Len(<<>>) = 0
  BY SeqIs, EmptySeq

LEMMA NonEmptyIs == ASSUME NEW s, IsSeq(s) PROVE s # <<>> <=> Len(s) > 0
  <1> DEFINE S == {s[i] : i \in DOMAIN s}
  <1>1. s \in Seq(S)
    BY DEF IsSeq
  <1> HIDE DEF S
  <1> QED
    BY <1>1, EmptySeq, SeqIs

\* A function on the first numbers is a sequence.
LEMMA MadeIs ==
    ASSUME NEW n \in Nat, NEW f, f = [i \in 1..n |-> f[i]]
    PROVE  IsSeq(f) /\ Len(f) = n
  <1> DEFINE S == {f[i] : i \in 1..n}
  <1>1. \A i \in 1..n : f[i] \in S
    OBVIOUS
  <1> HIDE DEF S
  <1>2. f \in [1..n -> S]
    BY <1>1
  <1>3. f \in Seq(S)
    BY <1>2, SeqDef
  <1>4. IsSeq(f) /\ Len(f) \in Nat /\ DOMAIN f = 1..Len(f)
    BY <1>3, SeqIs
  <1>5. DOMAIN f = 1..n
    BY <1>2
  <1>6. \A i \in Int : i \in 1..n <=> i \in 1..Len(f)
    BY <1>4, <1>5
  <1>7. Len(f) = n
    BY <1>4, <1>6
  <1> QED
    BY <1>4, <1>7

\* The length and the elements of a concatenation.
LEMMA ConcatIs ==
    ASSUME NEW s, NEW r, IsSeq(s), IsSeq(r)
    PROVE  /\ IsSeq(s \o r)
           /\ Len(s) \in Nat /\ Len(r) \in Nat
           /\ Len(s \o r) = Len(s) + Len(r)
           /\ \A i \in 1..Len(s) : (s \o r)[i] = s[i]
           /\ \A i \in 1..Len(r) : (s \o r)[Len(s) + i] = r[i]
           /\ \A i \in 1..Len(s \o r) :
                 \/ i \in 1..Len(s) /\ (s \o r)[i] = s[i]
                 \/ i > Len(s) /\ i - Len(s) \in 1..Len(r) /\ (s \o r)[i] = r[i - Len(s)]
  <1> DEFINE S == {s[i] : i \in DOMAIN s} \cup {r[i] : i \in DOMAIN r}
  <1>1. s \in Seq(S) /\ r \in Seq(S)
    <2>1. s \in Seq({s[i] : i \in DOMAIN s}) /\ r \in Seq({r[i] : i \in DOMAIN r})
      BY DEF IsSeq
    <2> QED
      BY <2>1, SeqMonotonic
  <1> HIDE DEF S
  <1>2. s \o r \in Seq(S) /\ Len(s \o r) = Len(s) + Len(r)
    BY <1>1, ConcatProperties
  <1>3. IsSeq(s \o r)
    BY <1>2, SeqIs
  <1>4. Len(s) \in Nat /\ Len(r) \in Nat
    BY <1>1, SeqIs
  <1>5. \A i \in 1..Len(s) + Len(r) : (s \o r)[i] = IF i <= Len(s) THEN s[i] ELSE r[i - Len(s)]
    BY <1>1, ConcatProperties
  <1>6. \A i \in 1..Len(s) : (s \o r)[i] = s[i]
    BY <1>4, <1>5
  <1>7. \A i \in 1..Len(r) : (s \o r)[Len(s) + i] = r[i]
    <2> TAKE i \in 1..Len(r)
    <2>1. Len(s) + i \in 1..Len(s) + Len(r) /\ ~(Len(s) + i <= Len(s)) /\ (Len(s) + i) - Len(s) = i
      BY <1>4
    <2> QED
      BY <1>5, <2>1
  <1>8. ASSUME NEW i \in 1..Len(s \o r)
        PROVE  \/ i \in 1..Len(s) /\ (s \o r)[i] = s[i]
               \/ i > Len(s) /\ i - Len(s) \in 1..Len(r) /\ (s \o r)[i] = r[i - Len(s)]
    BY <1>2, <1>4, <1>5
  <1> QED
    BY <1>2, <1>3, <1>4, <1>6, <1>7, <1>8

LEMMA ConcatSeq == ASSUME NEW s, NEW r, IsSeq(s), IsSeq(r) PROVE IsSeq(s \o r)
  BY ConcatIs

LEMMA ConcatAt ==
    ASSUME NEW s, NEW r, IsSeq(s), IsSeq(r)
    PROVE  /\ Len(s \o r) = Len(s) + Len(r)
           /\ \A i \in 1..Len(s) : (s \o r)[i] = s[i]
           /\ \A i \in 1..Len(r) : (s \o r)[Len(s) + i] = r[i]
  BY ConcatIs

\* Tails, and other parts of a sequence.
LEMMA TailIs ==
    ASSUME NEW s, IsSeq(s), s # <<>>
    PROVE  /\ IsSeq(Tail(s))
           /\ Len(s) \in Nat \ {0}
           /\ Len(Tail(s)) = Len(s) - 1
           /\ Head(s) = s[1]
           /\ \A i \in 1..Len(s) - 1 : Tail(s)[i] = s[i + 1]
  <1> DEFINE S == {s[i] : i \in DOMAIN s}
  <1>1. s \in Seq(S)
    BY DEF IsSeq
  <1> HIDE DEF S
  <1>2. Tail(s) \in Seq(S) /\ Len(Tail(s)) = Len(s) - 1 /\ Head(s) = s[1]
        /\ \A i \in 1..Len(Tail(s)) : Tail(s)[i] = s[i + 1]
    BY <1>1, HeadTailProperties
  <1>3. IsSeq(Tail(s))
    BY <1>2, SeqIs
  <1>4. Len(s) \in Nat \ {0}
    BY <1>1, SeqIs, EmptySeq
  <1> QED
    BY <1>2, <1>3, <1>4

LEMMA SubSeqIs ==
    ASSUME NEW s, IsSeq(s), NEW m \in 1..Len(s) + 1, NEW n \in m - 1..Len(s)
    PROVE  /\ IsSeq(SubSeq(s, m, n))
           /\ Len(SubSeq(s, m, n)) = n - m + 1
           /\ \A i \in 1..n - m + 1 : SubSeq(s, m, n)[i] = s[m + i - 1]
  <1>0. Len(s) \in Nat
    BY IsLen
  <1> DEFINE S == {s[i] : i \in DOMAIN s}
  <1>1. s \in Seq(S)
    BY DEF IsSeq
  <1> HIDE DEF S
  <1>2. /\ SubSeq(s, m, n) \in Seq(S)
        /\ Len(SubSeq(s, m, n)) = IF m <= n THEN n - m + 1 ELSE 0
        /\ \A i \in 1..n - m + 1 : SubSeq(s, m, n)[i] = s[m + i - 1]
    BY <1>0, <1>1, SubSeqProperties
  <1>3. IsSeq(SubSeq(s, m, n))
    BY <1>2, SeqIs
  <1> QED
    BY <1>0, <1>2, <1>3

\* Sequences with the same elements are equal.
LEMMA EqualIs ==
    ASSUME NEW s, NEW r, IsSeq(s), IsSeq(r), Len(s) = Len(r), \A i \in 1..Len(s) : s[i] = r[i]
    PROVE  s = r
  <1>1. s \in Seq({s[i] : i \in DOMAIN s} \cup {r[i] : i \in DOMAIN r})
    BY SeqMonotonic DEF IsSeq
  <1>2. r \in Seq({s[i] : i \in DOMAIN s} \cup {r[i] : i \in DOMAIN r})
    BY SeqMonotonic DEF IsSeq
  <1> DEFINE S == {s[i] : i \in DOMAIN s} \cup {r[i] : i \in DOMAIN r}
  <1>3. s \in Seq(S) /\ r \in Seq(S)
    BY <1>1, <1>2
  <1> HIDE DEF S
  <1> QED
    BY <1>3, SeqEqual

LEMMA OneIs == ASSUME NEW a PROVE IsSeq(<<a>>) /\ Len(<<a>>) = 1 /\ <<a>>[1] = a
  <1>1. <<a>> \in Seq({a})
    OBVIOUS
  <1> QED
    BY <1>1, SeqIs

LEMMA TwoIs ==
    ASSUME NEW a, NEW b
    PROVE  IsSeq(<<a, b>>) /\ Len(<<a, b>>) = 2 /\ <<a, b>>[1] = a /\ <<a, b>>[2] = b
  <1>1. <<a, b>> \in Seq({a, b})
    OBVIOUS
  <1> QED
    BY <1>1, SeqIs

LEMMA ThreeIs ==
    ASSUME NEW a, NEW b, NEW c
    PROVE  /\ IsSeq(<<a, b, c>>) /\ Len(<<a, b, c>>) = 3
           /\ <<a, b, c>>[1] = a /\ <<a, b, c>>[2] = b /\ <<a, b, c>>[3] = c
  <1>1. <<a, b, c>> \in Seq({a, b, c})
    OBVIOUS
  <1> QED
    BY <1>1, SeqIs

LEMMA FourIs ==
    ASSUME NEW a, NEW b, NEW c, NEW d
    PROVE  IsSeq(<<a, b, c, d>>)
  <1>1. <<a, b, c, d>> \in Seq({a, b, c, d})
    OBVIOUS
  <1> QED
    BY <1>1, SeqIs

\* A nonempty set of numbers has a least one.
LEMMA Least ==
    ASSUME NEW S \in SUBSET Nat, S # {}
    PROVE  \E x \in S : \A y \in S : x <= y
  <1> DEFINE R == {ss \in Nat \X Nat : ss[1] < ss[2]}
  <1>1. IsWellFoundedOn(R, Nat)
    BY NatLessThanWellFounded DEF OpToRel
  <1>2. \E x \in S : \A y \in S : <<y, x>> \notin R
    <2> HIDE DEF R
    <2> QED
      BY <1>1, WFMin
  <1>3. \A x, y \in S : <<y, x>> \notin R => x <= y
    OBVIOUS
  <1> QED
    BY <1>2, <1>3

-----------------------------------------------------------------------------
\* Frames and stacks.

\* The frames of a send in progress.
Sends == {"trySendQueue", "trySendFront", "trySend"}
\* What a frame carries when a send can reach it: cells, a message, or names of
\* transports.
FrameOK(f) ==
    /\ f.op \in Sends \cup {"write", "enqueue"} => IsSeq(f.x)
    /\ f.op \in {"send", "use"} => IsSeq(f.x.payload)
\* Frames that are neither part of trySendQueue() nor the exchange of the state; a
\* stack of them, one that keeps mSendMutex locked, and one that does not.
Ordinary(f) == FrameOK(f) /\ f.op \notin Sends \cup {"openNow"}
Mutexed(s) == \E i \in 1..Len(s) : s[i].op = "unlock" /\ s[i].k = "tcp"
Good(s) == IsSeq(s) /\ \A i \in 1..Len(s) : Ordinary(s[i])
Calm(s) == Good(s) /\ ~Mutexed(s)

LEMMA NoneCalm == Calm(<<>>)
  BY EmptyIs DEF Calm, Good, Mutexed

LEMMA OneGood == ASSUME NEW a, Ordinary(a) PROVE Good(<<a>>)
  <1>1. IsSeq(<<a>>) /\ Len(<<a>>) = 1 /\ <<a>>[1] = a
    BY OneIs
  <1> QED
    BY <1>1 DEF Good

LEMMA OneCalm == ASSUME NEW a, Ordinary(a), a.op # "unlock" PROVE Calm(<<a>>)
  <1>1. IsSeq(<<a>>) /\ Len(<<a>>) = 1 /\ <<a>>[1] = a
    BY OneIs
  <1> QED
    BY <1>1 DEF Good, Calm, Mutexed

LEMMA TwoGood == ASSUME NEW a, NEW b, Ordinary(a), Ordinary(b) PROVE Good(<<a, b>>)
  <1>1. IsSeq(<<a, b>>) /\ Len(<<a, b>>) = 2 /\ <<a, b>>[1] = a /\ <<a, b>>[2] = b
    BY TwoIs
  <1>2. 1..2 = {1, 2}
    OBVIOUS
  <1> QED
    BY <1>1, <1>2 DEF Good

LEMMA TwoCalm ==
    ASSUME NEW a, NEW b, Ordinary(a), Ordinary(b), a.op # "unlock", b.op # "unlock"
    PROVE  Calm(<<a, b>>)
  <1>1. IsSeq(<<a, b>>) /\ Len(<<a, b>>) = 2 /\ <<a, b>>[1] = a /\ <<a, b>>[2] = b
    BY TwoIs
  <1>2. 1..2 = {1, 2}
    OBVIOUS
  <1> QED
    BY <1>1, <1>2 DEF Good, Calm, Mutexed

LEMMA ThreeGood ==
    ASSUME NEW a, NEW b, NEW c, Ordinary(a), Ordinary(b), Ordinary(c)
    PROVE  Good(<<a, b, c>>)
  <1>1. /\ IsSeq(<<a, b, c>>) /\ Len(<<a, b, c>>) = 3
        /\ <<a, b, c>>[1] = a /\ <<a, b, c>>[2] = b /\ <<a, b, c>>[3] = c
    BY ThreeIs
  <1>2. 1..3 = {1, 2, 3}
    OBVIOUS
  <1> QED
    BY <1>1, <1>2 DEF Good

LEMMA ThreeCalm ==
    ASSUME NEW a, NEW b, NEW c, Ordinary(a), Ordinary(b), Ordinary(c),
           a.op # "unlock", b.op # "unlock", c.op # "unlock"
    PROVE  Calm(<<a, b, c>>)
  <1>1. /\ IsSeq(<<a, b, c>>) /\ Len(<<a, b, c>>) = 3
        /\ <<a, b, c>>[1] = a /\ <<a, b, c>>[2] = b /\ <<a, b, c>>[3] = c
    BY ThreeIs
  <1>2. 1..3 = {1, 2, 3}
    OBVIOUS
  <1> QED
    BY <1>1, <1>2 DEF Good, Calm, Mutexed

\* Stacks put together.
LEMMA ConcatGood == ASSUME NEW s, NEW r, Good(s), Good(r) PROVE Good(s \o r)
  <1>1. IsSeq(s) /\ IsSeq(r)
    BY DEF Good
  <1> QED
    BY <1>1, ConcatIs DEF Good

LEMMA ConcatMutexed ==
    ASSUME NEW s, NEW r, IsSeq(s), IsSeq(r)
    PROVE  Mutexed(s \o r) <=> Mutexed(s) \/ Mutexed(r)
  <1>0. Len(s) \in Nat /\ Len(r) \in Nat /\ Len(s \o r) = Len(s) + Len(r)
    BY ConcatIs
  <1>1. ASSUME Mutexed(s \o r) PROVE Mutexed(s) \/ Mutexed(r)
    <2>1. PICK i \in 1..Len(s \o r) : (s \o r)[i].op = "unlock" /\ (s \o r)[i].k = "tcp"
      BY <1>1 DEF Mutexed
    <2> QED
      BY <2>1, ConcatIs DEF Mutexed
  <1>2. ASSUME Mutexed(s) PROVE Mutexed(s \o r)
    <2>1. PICK i \in 1..Len(s) : s[i].op = "unlock" /\ s[i].k = "tcp"
      BY <1>2 DEF Mutexed
    <2>2. i \in 1..Len(s \o r) /\ (s \o r)[i] = s[i]
      BY <1>0, ConcatIs
    <2> QED
      BY <2>1, <2>2 DEF Mutexed
  <1>3. ASSUME Mutexed(r) PROVE Mutexed(s \o r)
    <2>1. PICK i \in 1..Len(r) : r[i].op = "unlock" /\ r[i].k = "tcp"
      BY <1>3 DEF Mutexed
    <2>2. Len(s) + i \in 1..Len(s \o r) /\ (s \o r)[Len(s) + i] = r[i]
      BY <1>0, ConcatIs
    <2> QED
      BY <2>1, <2>2 DEF Mutexed
  <1> QED
    BY <1>1, <1>2, <1>3

LEMMA ConcatCalm == ASSUME NEW s, NEW r, Calm(s), Calm(r) PROVE Calm(s \o r)
  BY ConcatGood, ConcatMutexed DEF Calm, Good

\* A stack that goes on from its k-th frame.
LEMMA SuffixIs ==
    ASSUME NEW s, IsSeq(s), NEW k \in 1..Len(s) + 1
    PROVE  LET r == SubSeq(s, k, Len(s))
           IN  /\ IsSeq(r)
               /\ Len(r) = Len(s) - k + 1
               /\ \A i \in 1..Len(r) : k + i - 1 \in k..Len(s) /\ r[i] = s[k + i - 1]
               /\ Good(s) => Good(r)
               /\ Mutexed(r) => Mutexed(s)
  <1> DEFINE r == SubSeq(s, k, Len(s))
  <1>1. Len(s) \in Nat
    BY IsLen
  <1>2. Len(s) \in k - 1..Len(s)
    BY <1>1
  <1>3. /\ IsSeq(r) /\ Len(r) = Len(s) - k + 1
        /\ \A i \in 1..Len(s) - k + 1 : r[i] = s[k + i - 1]
    BY <1>2, SubSeqIs
  <1> HIDE DEF r
  <1>4. \A i \in 1..Len(r) : k + i - 1 \in k..Len(s) /\ k + i - 1 \in 1..Len(s) /\ r[i] = s[k + i - 1]
    BY <1>1, <1>3
  <1>5. Good(s) => Good(r)
    BY <1>3, <1>4 DEF Good
  <1>6. Mutexed(r) => Mutexed(s)
    BY <1>4 DEF Mutexed
  <1> QED
    BY <1>3, <1>4, <1>5, <1>6 DEF r

LEMMA TailGood ==
    ASSUME NEW s, IsSeq(s), s # <<>>
    PROVE  /\ Good(s) => Good(Tail(s))
           /\ Mutexed(Tail(s)) => Mutexed(s)
  <1>1. /\ IsSeq(Tail(s)) /\ Len(s) \in Nat \ {0} /\ Len(Tail(s)) = Len(s) - 1
        /\ \A i \in 1..Len(s) - 1 : Tail(s)[i] = s[i + 1]
    BY TailIs
  <1>2. \A i \in 1..Len(Tail(s)) : i + 1 \in 1..Len(s) /\ Tail(s)[i] = s[i + 1]
    BY <1>1
  <1> QED
    BY <1>1, <1>2 DEF Good, Mutexed

\* What runs next is the first frame that is not the end of a scope.
LEMMA StripIs ==
    ASSUME NEW s, IsSeq(s)
    PROVE  \E k \in 1..Len(s) + 1 :
              /\ Strip(s) = SubSeq(s, k, Len(s))
              /\ \A i \in 1..k - 1 : s[i].op \in Markers
              /\ k \in 1..Len(s) => s[k].op \notin Markers
  <1> DEFINE rest == {i \in DOMAIN s : s[i].op \notin Markers}
  <1>1. Len(s) \in Nat /\ DOMAIN s = 1..Len(s)
    BY IsLen
  <1>2. CASE rest = {}
    <2>1. Strip(s) = <<>>
      BY <1>2 DEF Strip
    <2>2. Len(s) + 1 \in 1..Len(s) + 1 /\ Len(s) \in (Len(s) + 1) - 1..Len(s)
      BY <1>1
    <2>3. IsSeq(SubSeq(s, Len(s) + 1, Len(s))) /\ Len(SubSeq(s, Len(s) + 1, Len(s))) = 0
      BY <1>1, <2>2, SubSeqIs
    <2>4. SubSeq(s, Len(s) + 1, Len(s)) = <<>>
      BY <2>3, NonEmptyIs
    <2>5. \A i \in 1..(Len(s) + 1) - 1 : s[i].op \in Markers
      BY <1>1, <1>2
    <2> QED
      BY <1>1, <2>1, <2>2, <2>4, <2>5
  <1>3. CASE rest # {}
    <2> DEFINE k == CHOOSE i \in rest : \A j \in rest : i <= j
    <2>1. \E i \in rest : \A j \in rest : i <= j
      <3>1. rest \in SUBSET Nat
        BY <1>1
      <3> HIDE DEF rest
      <3> QED
        BY <1>3, <3>1, Least
    <2>2. k \in rest /\ \A j \in rest : k <= j
      BY <2>1
    <2>3. Strip(s) = SubSeq(s, k, Len(s))
      BY <1>3 DEF Strip
    <2> HIDE DEF k
    <2>4. k \in 1..Len(s) + 1
      BY <1>1, <2>2
    <2>5. ASSUME NEW i \in 1..k - 1 PROVE s[i].op \in Markers
      BY <1>1, <2>2
    <2> QED
      BY <2>2, <2>3, <2>4, <2>5
  <1> QED
    BY <1>2, <1>3

\* What Strip leaves of a stack is one.
LEMMA StripGood ==
    ASSUME NEW s, IsSeq(s)
    PROVE  /\ IsSeq(Strip(s))
           /\ Good(s) => Good(Strip(s))
           /\ Mutexed(Strip(s)) => Mutexed(s)
  <1>1. PICK k \in 1..Len(s) + 1 : Strip(s) = SubSeq(s, k, Len(s))
    BY StripIs
  <1> QED
    BY <1>1, SuffixIs

\* A stack whose first frame is not a marker is left as it is.
LEMMA StripKeeps ==
    ASSUME NEW s, IsSeq(s), s # <<>>, s[1].op \notin Markers
    PROVE  Strip(s) = s
  <1>1. PICK k \in 1..Len(s) + 1 : /\ Strip(s) = SubSeq(s, k, Len(s))
                                   /\ \A i \in 1..k - 1 : s[i].op \in Markers
    BY StripIs
  <1>2. Len(s) \in Nat /\ Len(s) > 0
    BY IsLen, NonEmptyIs
  <1>3. k = 1
    BY <1>1, <1>2
  <1>4. /\ IsSeq(SubSeq(s, 1, Len(s))) /\ Len(SubSeq(s, 1, Len(s))) = Len(s)
        /\ \A i \in 1..Len(SubSeq(s, 1, Len(s))) : SubSeq(s, 1, Len(s))[i] = s[1 + i - 1]
    BY <1>1, <1>2, <1>3, SuffixIs
  <1>6. \A i \in 1..Len(SubSeq(s, 1, Len(s))) : SubSeq(s, 1, Len(s))[i] = s[i]
    BY <1>4
  <1>5. SubSeq(s, 1, Len(s)) = s
    <2> DEFINE r == SubSeq(s, 1, Len(s))
    <2>1. IsSeq(r) /\ Len(r) = Len(s) /\ \A i \in 1..Len(r) : r[i] = s[i]
      BY <1>4, <1>6
    <2> HIDE DEF r
    <2>2. r = s
      BY <2>1, EqualIs
    <2> QED
      BY <2>2 DEF r
  <1> QED
    BY <1>1, <1>3, <1>5

-----------------------------------------------------------------------------
\* What is to be sent, as slices of what was handed over.

\* A slice of a sequence, and two that follow one another.
LEMMA SliceIs ==
    ASSUME NEW h, IsSeq(h), NEW a \in 0..Len(h), NEW b \in a..Len(h)
    PROVE  /\ IsSeq(SubSeq(h, a + 1, b))
           /\ Len(SubSeq(h, a + 1, b)) = b - a
           /\ \A i \in 1..b - a : SubSeq(h, a + 1, b)[i] = h[a + i]
  <1>1. Len(h) \in Nat
    BY IsLen
  <1>2. a + 1 \in 1..Len(h) + 1 /\ b \in (a + 1) - 1..Len(h) /\ b - (a + 1) + 1 = b - a
        /\ \A i \in 1..b - a : (a + 1) + i - 1 = a + i
    BY <1>1
  <1>3. /\ IsSeq(SubSeq(h, a + 1, b))
        /\ Len(SubSeq(h, a + 1, b)) = b - (a + 1) + 1
        /\ \A i \in 1..b - (a + 1) + 1 : SubSeq(h, a + 1, b)[i] = h[(a + 1) + i - 1]
    BY <1>2, SubSeqIs
  <1> DEFINE s == SubSeq(h, a + 1, b)
  <1> HIDE DEF s
  <1>4. /\ IsSeq(s) /\ Len(s) = b - (a + 1) + 1
        /\ \A i \in 1..b - (a + 1) + 1 : s[i] = h[(a + 1) + i - 1]
    BY <1>3 DEF s
  <1>5. IsSeq(s) /\ Len(s) = b - a /\ \A i \in 1..b - a : s[i] = h[a + i]
    BY <1>2, <1>4
  <1> QED
    BY <1>5 DEF s

LEMMA StartIs ==
    ASSUME NEW h, IsSeq(h), NEW b \in 0..Len(h)
    PROVE  /\ IsSeq(SubSeq(h, 1, b))
           /\ Len(SubSeq(h, 1, b)) = b
           /\ \A i \in 1..b : SubSeq(h, 1, b)[i] = h[i]
  <1>1. Len(h) \in Nat
    BY IsLen
  <1>2. 0 \in 0..Len(h) /\ b \in 0..Len(h) /\ 0 + 1 = 1 /\ b - 0 = b /\ \A i \in 1..b : 0 + i = i
    BY <1>1
  <1> DEFINE s == SubSeq(h, 1, b)
  <1>3. IsSeq(s) /\ Len(s) = b - 0 /\ \A i \in 1..b - 0 : s[i] = h[0 + i]
    BY <1>2, SliceIs
  <1> HIDE DEF s
  <1>4. IsSeq(s) /\ Len(s) = b /\ \A i \in 1..b : s[i] = h[i]
    BY <1>2, <1>3
  <1> QED
    BY <1>4 DEF s

LEMMA PrefixSplit ==
    ASSUME NEW h, IsSeq(h), NEW a \in 0..Len(h), NEW b \in a..Len(h)
    PROVE  SubSeq(h, 1, a) \o SubSeq(h, a + 1, b) = SubSeq(h, 1, b)
  <1> DEFINE p == SubSeq(h, 1, a)
             r == SubSeq(h, a + 1, b)
             s == SubSeq(h, 1, b)
  <1>1. Len(h) \in Nat
    BY IsLen
  <1>2. IsSeq(p) /\ Len(p) = a /\ \A i \in 1..a : p[i] = h[i]
    BY StartIs
  <1>3. IsSeq(r) /\ Len(r) = b - a /\ \A i \in 1..b - a : r[i] = h[a + i]
    BY SliceIs
  <1>4. IsSeq(s) /\ Len(s) = b /\ \A i \in 1..b : s[i] = h[i]
    <2>1. b \in 0..Len(h)
      BY <1>1
    <2> QED
      BY <2>1, StartIs
  <1> HIDE DEF p, r, s
  <1>5. IsSeq(p \o r) /\ Len(p \o r) = b
    BY <1>2, <1>3, ConcatIs
  <1>6. ASSUME NEW i \in 1..b PROVE (p \o r)[i] = s[i]
    <2>1. \/ i \in 1..Len(p) /\ (p \o r)[i] = p[i]
          \/ i > Len(p) /\ i - Len(p) \in 1..Len(r) /\ (p \o r)[i] = r[i - Len(p)]
      BY <1>2, <1>3, <1>5, ConcatIs
    <2>2. CASE i \in 1..Len(p) /\ (p \o r)[i] = p[i]
      BY <1>2, <1>4, <2>2
    <2>3. CASE i > Len(p) /\ i - Len(p) \in 1..Len(r) /\ (p \o r)[i] = r[i - Len(p)]
      <3>1. i - a \in 1..b - a /\ a + (i - a) = i
        BY <1>2, <1>3, <2>3
      <3>2. r[i - a] = h[i]
        BY <1>3, <3>1
      <3> QED
        BY <1>2, <1>4, <2>3, <3>2
    <2> QED
      BY <2>1, <2>2, <2>3
  <1>7. p \o r = s
    BY <1>4, <1>5, <1>6, EqualIs
  <1> QED
    BY <1>7 DEF p, r, s

\* A slice of a slice.
LEMMA SubSlice ==
    ASSUME NEW h, IsSeq(h), NEW a \in 0..Len(h), NEW b \in a..Len(h),
           NEW c \in 0..b - a, NEW d \in c..b - a
    PROVE  SubSeq(SubSeq(h, a + 1, b), c + 1, d) = SubSeq(h, a + c + 1, a + d)
  <1> DEFINE r == SubSeq(h, a + 1, b)
             s == SubSeq(r, c + 1, d)
             u == SubSeq(h, a + c + 1, a + d)
  <1>1. Len(h) \in Nat
    BY IsLen
  <1>2. IsSeq(r) /\ Len(r) = b - a /\ \A i \in 1..b - a : r[i] = h[a + i]
    BY SliceIs
  <1>3. IsSeq(u) /\ Len(u) = d - c /\ \A i \in 1..d - c : u[i] = h[a + c + i]
    <2>1. a + c + 1 \in 1..Len(h) + 1 /\ a + d \in (a + c + 1) - 1..Len(h) /\ (a + d) - (a + c + 1) + 1 = d - c
          /\ \A i \in 1..d - c : (a + c + 1) + i - 1 = a + c + i
      BY <1>1
    <2> QED
      BY <2>1, SubSeqIs
  <1> HIDE DEF r
  <1>4. IsSeq(s) /\ Len(s) = d - c /\ \A i \in 1..d - c : s[i] = r[c + i]
    <2>1. c + 1 \in 1..Len(r) + 1 /\ d \in (c + 1) - 1..Len(r) /\ d - (c + 1) + 1 = d - c
          /\ \A i \in 1..d - c : (c + 1) + i - 1 = c + i
      BY <1>1, <1>2
    <2> QED
      BY <1>2, <2>1, SubSeqIs
  <1>5. ASSUME NEW i \in 1..d - c PROVE s[i] = u[i]
    <2>1. c + i \in 1..b - a /\ a + (c + i) = a + c + i
      BY <1>1
    <2> QED
      BY <1>2, <1>3, <1>4, <2>1
  <1> HIDE DEF s, u
  <1>6. s = u
    BY <1>3, <1>4, <1>5, EqualIs
  <1> QED
    BY <1>6 DEF s, u, r

\* What a longer sequence starts with.
LEMMA SliceKept ==
    ASSUME NEW h, IsSeq(h), NEW m, IsSeq(m), NEW a \in 0..Len(h), NEW b \in a..Len(h)
    PROVE  SubSeq(h \o m, a + 1, b) = SubSeq(h, a + 1, b)
  <1> DEFINE g == h \o m
             s == SubSeq(g, a + 1, b)
             r == SubSeq(h, a + 1, b)
  <1>1. /\ Len(h) \in Nat /\ Len(m) \in Nat /\ IsSeq(g) /\ Len(g) = Len(h) + Len(m)
        /\ \A i \in 1..Len(h) : g[i] = h[i]
    BY ConcatIs
  <1> HIDE DEF g
  <1>2. b - (a + 1) + 1 = b - a /\ \A i \in 1..b - a : (a + 1) + i - 1 = a + i
    BY <1>1
  <1>3. IsSeq(r) /\ Len(r) = b - a /\ \A i \in 1..b - a : r[i] = h[a + i]
    BY SliceIs
  <1>4. IsSeq(s) /\ Len(s) = b - a /\ \A i \in 1..b - a : s[i] = g[a + i]
    <2>1. a \in 0..Len(g) /\ b \in a..Len(g)
      BY <1>1
    <2> QED
      BY <1>1, <2>1, SliceIs
  <1>5. ASSUME NEW i \in 1..b - a PROVE s[i] = r[i]
    <2>1. a + i \in 1..Len(h)
      BY <1>1
    <2> QED
      BY <1>1, <1>3, <1>4, <2>1
  <1> HIDE DEF r, s
  <1>6. s = r
    BY <1>3, <1>4, <1>5, EqualIs
  <1> QED
    BY <1>6 DEF s, r, g

LEMMA SliceLast ==
    ASSUME NEW h, IsSeq(h), NEW m, IsSeq(m)
    PROVE  SubSeq(h \o m, Len(h) + 1, Len(h \o m)) = m
  <1> DEFINE g == h \o m
             s == SubSeq(g, Len(h) + 1, Len(g))
  <1>1. /\ Len(h) \in Nat /\ Len(m) \in Nat /\ IsSeq(g) /\ Len(g) = Len(h) + Len(m)
        /\ \A i \in 1..Len(m) : g[Len(h) + i] = m[i]
    BY ConcatIs
  <1> HIDE DEF g
  <1>2. Len(g) - (Len(h) + 1) + 1 = Len(m) /\ \A i \in 1..Len(m) : (Len(h) + 1) + i - 1 = Len(h) + i
    BY <1>1
  <1>3. IsSeq(s) /\ Len(s) = Len(m) /\ \A i \in 1..Len(m) : s[i] = g[Len(h) + i]
    <2>1. Len(h) + 1 \in 1..Len(g) + 1 /\ Len(g) \in (Len(h) + 1) - 1..Len(g)
      BY <1>1
    <2> QED
      BY <1>1, <1>2, <2>1, SubSeqIs
  <1> HIDE DEF s
  <1>4. s = m
    BY <1>1, <1>3, EqualIs
  <1> QED
    BY <1>4 DEF s, g

LEMMA WholeIs == ASSUME NEW s, IsSeq(s) PROVE SubSeq(s, 1, Len(s)) = s
  <1> DEFINE r == SubSeq(s, 1, Len(s))
  <1>1. Len(s) \in Nat
    BY IsLen
  <1>2. 1 \in 1..Len(s) + 1 /\ Len(s) \in 1 - 1..Len(s) /\ Len(s) - 1 + 1 = Len(s)
        /\ \A i \in 1..Len(s) : 1 + i - 1 = i
    BY <1>1
  <1>3. IsSeq(r) /\ Len(r) = Len(s) /\ \A i \in 1..Len(s) : r[i] = s[i]
    BY <1>2, SubSeqIs
  <1> HIDE DEF r
  <1>4. r = s
    BY <1>3, EqualIs
  <1> QED
    BY <1>4 DEF r

\* The queue q holds, one after the other, the slices of h that come after w: the
\* cuts are where they begin and end.
Cuts(cut, w, q, h) ==
    /\ cut \in [1..Len(q) + 1 -> 0..Len(h)]
    /\ w = SubSeq(h, 1, Len(w))
    /\ cut[1] = Len(w)
    /\ cut[Len(q) + 1] = Len(h)
    /\ \A i \in 1..Len(q) :
          /\ cut[i] <= cut[i + 1]
          /\ q[i] = SubSeq(h, cut[i] + 1, cut[i + 1])
Slices(w, q, h) == \E cut : Cuts(cut, w, q, h)

\* What was written is then a prefix, and grows by what leaves the queue.
LEMMA SlicesPrefix ==
    ASSUME NEW w, NEW q, NEW h, IsSeq(w), IsSeq(q), IsSeq(h), Slices(w, q, h)
    PROVE  IsPrefix(w, h)
  <1>1. PICK cut : Cuts(cut, w, q, h)
    BY DEF Slices
  <1>2. Len(q) \in Nat /\ Len(w) \in Nat /\ Len(h) \in Nat
    BY IsLen
  <1>3. Len(w) <= Len(h)
    BY <1>1, <1>2 DEF Cuts
  <1>4. SubSeq(w, 1, Len(w)) = w
    BY WholeIs
  <1>5. w = SubSeq(h, 1, Len(w))
    BY <1>1 DEF Cuts
  <1> QED
    BY <1>3, <1>4, <1>5 DEF IsPrefix

\* Nothing is to be sent: all was.
LEMMA SlicesNone ==
    ASSUME NEW w, NEW h, IsSeq(w), IsSeq(h)
    PROVE  Slices(w, <<>>, h) <=> w = h
  <1>1. Len(w) \in Nat /\ Len(h) \in Nat /\ Len(<<>>) = 0
    BY IsLen, EmptyIs
  <1>2. ASSUME Slices(w, <<>>, h) PROVE w = h
    <2>1. PICK cut : Cuts(cut, w, <<>>, h)
      BY <1>2 DEF Slices
    <2>2. Len(w) = Len(h) /\ w = SubSeq(h, 1, Len(w))
      BY <1>1, <2>1 DEF Cuts
    <2> QED
      BY <2>2, WholeIs
  <1>3. ASSUME w = h PROVE Slices(w, <<>>, h)
    <2> DEFINE cut == [i \in 1..1 |-> Len(h)]
    <2>1. h = SubSeq(h, 1, Len(h))
      BY WholeIs
    <2>2. Cuts(cut, w, <<>>, h)
      BY <1>1, <1>3, <2>1 DEF Cuts
    <2> QED
      BY <2>2 DEF Slices
  <1> QED
    BY <1>2, <1>3

\* A message is handed over, and waits last.
LEMMA SlicesMore ==
    ASSUME NEW w, NEW q, NEW h, NEW m, IsSeq(w), IsSeq(q), IsSeq(h), IsSeq(m), Slices(w, q, h)
    PROVE  Slices(w, q \o <<m>>, h \o m)
  <1>1. PICK cut : Cuts(cut, w, q, h)
    BY DEF Slices
  <1> DEFINE g == h \o m
             p == q \o <<m>>
  <1>2. Len(q) \in Nat /\ Len(w) \in Nat /\ Len(h) \in Nat /\ Len(m) \in Nat
    BY IsLen
  <1>3. IsSeq(g) /\ Len(g) = Len(h) + Len(m)
    BY ConcatIs
  <1>4. IsSeq(p) /\ Len(p) = Len(q) + 1 /\ p[Len(q) + 1] = m /\ \A i \in 1..Len(q) : p[i] = q[i]
    BY OneIs, ConcatIs
  <1>5. \A a \in 0..Len(h) : \A b \in a..Len(h) : SubSeq(g, a + 1, b) = SubSeq(h, a + 1, b)
    BY SliceKept
  <1>6. SubSeq(g, Len(h) + 1, Len(g)) = m
    BY SliceLast
  <1> HIDE DEF g, p
  <1> DEFINE cut2 == [i \in 1..Len(q) + 2 |-> IF i = Len(q) + 2 THEN Len(g) ELSE cut[i]]
  <1>7. /\ cut \in [1..Len(q) + 1 -> 0..Len(h)]
        /\ w = SubSeq(h, 1, Len(w)) /\ cut[1] = Len(w) /\ cut[Len(q) + 1] = Len(h)
        /\ \A i \in 1..Len(q) : cut[i] <= cut[i + 1] /\ q[i] = SubSeq(h, cut[i] + 1, cut[i + 1])
    BY <1>1 DEF Cuts
  <1>8. /\ cut2 \in [1..Len(p) + 1 -> 0..Len(g)]
        /\ cut2[Len(p) + 1] = Len(g) /\ \A i \in 1..Len(q) + 1 : cut2[i] = cut[i] /\ cut[i] \in 0..Len(h)
    BY <1>2, <1>3, <1>4, <1>7
  <1> HIDE DEF cut2
  <1>9. cut2[1] = Len(w) /\ w = SubSeq(g, 1, Len(w))
    <2>1. 1 \in 1..Len(q) + 1 /\ 0 \in 0..Len(h) /\ 0 + 1 = 1
      BY <1>2
    <2>3. Len(w) \in 0..Len(h)
      BY <1>7, <2>1
    <2>2. SubSeq(g, 1, Len(w)) = SubSeq(h, 1, Len(w))
      BY <1>5, <2>1, <2>3
    <2> QED
      BY <1>7, <1>8, <2>1, <2>2
  <1>10. ASSUME NEW i \in 1..Len(p)
         PROVE  cut2[i] <= cut2[i + 1] /\ p[i] = SubSeq(g, cut2[i] + 1, cut2[i + 1])
    <2>1. CASE i \in 1..Len(q)
      <3>1. i \in 1..Len(q) + 1 /\ i + 1 \in 1..Len(q) + 1
        BY <1>2, <2>1
      <3>2. cut2[i] = cut[i] /\ cut2[i + 1] = cut[i + 1] /\ cut[i] \in 0..Len(h)
            /\ cut[i + 1] \in cut[i]..Len(h)
        BY <1>2, <1>7, <1>8, <2>1, <3>1
      <3> QED
        BY <1>4, <1>5, <1>7, <2>1, <3>2
    <2>2. CASE i = Len(q) + 1
      <3>1. i \in 1..Len(q) + 1 /\ i + 1 = Len(p) + 1
        BY <1>2, <1>4, <2>2
      <3>2. cut2[i] = Len(h) /\ cut2[i + 1] = Len(g)
        BY <1>7, <1>8, <2>2, <3>1
      <3> QED
        BY <1>2, <1>3, <1>4, <1>6, <2>2, <3>2
    <2> QED
      BY <1>2, <1>4, <2>1, <2>2
  <1>11. Cuts(cut2, w, p, g)
    BY <1>8, <1>9, <1>10 DEF Cuts
  <1> QED
    BY <1>11 DEF Slices, g, p

\* The socket takes some of the first message, and the rest stays first.
LEMMA SlicesSome ==
    ASSUME NEW w, NEW m, NEW q, NEW h, IsSeq(w), IsSeq(m), IsSeq(q), IsSeq(h),
           Slices(w, <<m>> \o q, h), NEW n \in 0..Len(m)
    PROVE  /\ Slices(w \o SubSeq(m, 1, n), <<SubSeq(m, n + 1, Len(m))>> \o q, h)
           /\ n = Len(m) => Slices(w \o SubSeq(m, 1, n), q, h)
  <1> DEFINE p == <<m>> \o q
             rest == SubSeq(m, n + 1, Len(m))
             r == <<rest>> \o q
             w2 == w \o SubSeq(m, 1, n)
  <1>1. PICK cut : Cuts(cut, w, p, h)
    BY DEF Slices
  <1>2. Len(q) \in Nat /\ Len(w) \in Nat /\ Len(h) \in Nat /\ Len(m) \in Nat
    BY IsLen
  <1>3. IsSeq(p) /\ Len(p) = Len(q) + 1 /\ p[1] = m /\ \A i \in 1..Len(q) : p[i + 1] = q[i]
    <2>1. IsSeq(<<m>>) /\ Len(<<m>>) = 1 /\ <<m>>[1] = m
      BY OneIs
    <2> QED
      BY <1>2, <2>1, ConcatIs
  <1>4. IsSeq(r) /\ Len(r) = Len(q) + 1 /\ r[1] = rest /\ \A i \in 1..Len(q) : r[i + 1] = q[i]
    <2> HIDE DEF rest
    <2>1. IsSeq(<<rest>>) /\ Len(<<rest>>) = 1 /\ <<rest>>[1] = rest
      BY OneIs
    <2> QED
      BY <1>2, <2>1, ConcatIs
  <1> HIDE DEF p, r
  <1>5. /\ cut \in [1..Len(q) + 2 -> 0..Len(h)]
        /\ w = SubSeq(h, 1, Len(w)) /\ cut[1] = Len(w) /\ cut[Len(q) + 2] = Len(h)
        /\ \A i \in 1..Len(q) + 1 : cut[i] <= cut[i + 1] /\ p[i] = SubSeq(h, cut[i] + 1, cut[i + 1])
    <2>1. (Len(q) + 1) + 1 = Len(q) + 2
      BY <1>2
    <2> QED
      BY <1>1, <1>3, <2>1 DEF Cuts
  <1> DEFINE a == Len(w)
             b == cut[2]
  <1>6. a \in 0..Len(h) /\ b \in a..Len(h) /\ m = SubSeq(h, a + 1, b) /\ 1 + 1 = 2
    <2>1. 1 \in 1..Len(q) + 1 /\ 1 \in 1..Len(q) + 2 /\ 2 \in 1..Len(q) + 2 /\ 1 + 1 = 2
      BY <1>2
    <2> QED
      BY <1>2, <1>3, <1>5, <2>1
  <1> HIDE DEF b
  <1>7. Len(m) = b - a
    <2>1. a + 1 \in 1..Len(h) + 1 /\ b \in (a + 1) - 1..Len(h) /\ b - (a + 1) + 1 = b - a
      BY <1>2, <1>6
    <2> QED
      BY <1>6, <2>1, SubSeqIs
  <1>8. /\ SubSeq(m, 1, n) = SubSeq(h, a + 1, a + n)
        /\ rest = SubSeq(h, a + n + 1, b)
    <2>1. /\ 0 \in 0..b - a /\ n \in 0..b - a /\ n \in n..b - a /\ b - a \in n..b - a
          /\ 0 + 1 = 1 /\ a + 0 + 1 = a + 1 /\ a + (b - a) = b
      BY <1>2, <1>6, <1>7
    <2>2. SubSeq(SubSeq(h, a + 1, b), 0 + 1, n) = SubSeq(h, a + 0 + 1, a + n)
      BY <1>6, <2>1, SubSlice
    <2>3. SubSeq(SubSeq(h, a + 1, b), n + 1, b - a) = SubSeq(h, a + n + 1, a + (b - a))
      BY <1>6, <2>1, SubSlice
    <2> QED
      BY <1>6, <1>7, <2>1, <2>2, <2>3
  <1>9. w2 = SubSeq(h, 1, a + n) /\ Len(w2) = a + n
    <2>1. a + n \in a..Len(h) /\ 1 \in 1..Len(h) + 1 /\ a + n \in 1 - 1..Len(h) /\ (a + n) - 1 + 1 = a + n
      BY <1>2, <1>6, <1>7
    <2>2. w2 = SubSeq(h, 1, a) \o SubSeq(h, a + 1, a + n)
      BY <1>5, <1>8
    <2>3. SubSeq(h, 1, a) \o SubSeq(h, a + 1, a + n) = SubSeq(h, 1, a + n)
      BY <1>6, <2>1, PrefixSplit
    <2>4. Len(SubSeq(h, 1, a + n)) = a + n
      BY <2>1, SubSeqIs
    <2> QED
      BY <2>2, <2>3, <2>4
  <1> HIDE DEF w2, rest
  <1>10. Slices(w2, r, h)
    <2> DEFINE cut2 == [i \in 1..Len(q) + 2 |-> IF i = 1 THEN a + n ELSE cut[i]]
    <2>0. a + n \in 0..Len(h)
      BY <1>2, <1>6, <1>7
    <2>5. Len(r) + 1 = Len(q) + 2 /\ 1 \in 1..Len(q) + 2
      BY <1>2, <1>4
    <2>6. \A i \in 1..Len(q) + 2 : cut2[i] \in 0..Len(h)
      BY <1>5, <2>0
    <2>7. cut2 \in [1..Len(q) + 2 -> 0..Len(h)]
      BY <2>6
    <2>8. cut2[1] = a + n /\ \A i \in 2..Len(q) + 2 : cut2[i] = cut[i]
      BY <1>2, <2>5
    <2>1. /\ cut2 \in [1..Len(r) + 1 -> 0..Len(h)] /\ cut2[1] = a + n
          /\ \A i \in 2..Len(q) + 2 : cut2[i] = cut[i]
      <3> HIDE DEF cut2
      <3> QED
        BY <2>5, <2>7, <2>8
    <2> HIDE DEF cut2
    <2>2. cut2[Len(r) + 1] = Len(h)
      BY <1>2, <1>4, <1>5, <2>1
    <2>3. ASSUME NEW i \in 1..Len(r)
          PROVE  cut2[i] <= cut2[i + 1] /\ r[i] = SubSeq(h, cut2[i] + 1, cut2[i + 1])
      <3>1. CASE i = 1
        <4>1. cut2[2] = b /\ i + 1 = 2 /\ a + n <= b
          BY <1>2, <1>6, <1>7, <2>1, <3>1 DEF b
        <4> QED
          BY <1>4, <1>8, <2>1, <3>1, <4>1
      <3>2. CASE i # 1
        <4>1. i \in 2..Len(q) + 2 /\ i + 1 \in 2..Len(q) + 2 /\ i \in 1..Len(q) + 1
              /\ i - 1 \in 1..Len(q) /\ (i - 1) + 1 = i
          BY <1>2, <1>4, <3>2
        <4>2. r[i] = q[i - 1] /\ p[i] = q[i - 1]
          BY <1>3, <1>4, <4>1
        <4> QED
          BY <1>5, <2>1, <4>1, <4>2
      <3> QED
        BY <3>1, <3>2
    <2>4. Cuts(cut2, w2, r, h)
      BY <1>9, <2>1, <2>2, <2>3 DEF Cuts
    <2> QED
      BY <2>4 DEF Slices
  <1>11. ASSUME n = Len(m) PROVE Slices(w2, q, h)
    <2> DEFINE cut2 == [i \in 1..Len(q) + 1 |-> cut[i + 1]]
    <2>1. /\ cut2 \in [1..Len(q) + 1 -> 0..Len(h)]
          /\ \A i \in 1..Len(q) + 1 : cut2[i] = cut[i + 1]
      BY <1>2, <1>5
    <2> HIDE DEF cut2
    <2>4. Len(q) + 1 \in 1..Len(q) + 1 /\ 1 \in 1..Len(q) + 1 /\ (Len(q) + 1) + 1 = Len(q) + 2
          /\ a + n = b
      BY <1>2, <1>6, <1>7, <1>11
    <2>2. cut2[Len(q) + 1] = Len(h) /\ cut2[1] = a + n
      BY <1>5, <1>6, <2>1, <2>4 DEF b
    <2>3. ASSUME NEW i \in 1..Len(q)
          PROVE  cut2[i] <= cut2[i + 1] /\ q[i] = SubSeq(h, cut2[i] + 1, cut2[i + 1])
      <3>1. i + 1 \in 1..Len(q) + 1 /\ i \in 1..Len(q) + 1
        BY <1>2
      <3> QED
        BY <1>3, <1>5, <2>1, <3>1
    <2>5. Cuts(cut2, w2, q, h)
      BY <1>9, <2>1, <2>2, <2>3 DEF Cuts
    <2> QED
      BY <2>5 DEF Slices
  <1> QED
    BY <1>10, <1>11 DEF r, rest, w2

-----------------------------------------------------------------------------
\* The inductive invariant.

\* Each thread has a stack of frames that carry what they should.
StacksTyped ==
    /\ DOMAIN stack = Threads
    /\ \A t \in Threads :
          /\ IsSeq(stack[t])
          /\ \A i \in 1..Len(stack[t]) : FrameOK(stack[t][i])
\* The cells written and handed, and the messages of the queue.
DataTyped ==
    /\ IsSeq(wire) /\ IsSeq(handed) /\ IsSeq(mSendQueue)
    /\ \A i \in 1..Len(mSendQueue) : IsSeq(mSendQueue[i])
\* A thread about to set the state to open is at the innermost frame, and the state was
\* tested: it still connects, or close() came since.
OpensOnTop ==
    \A t \in Threads : \A i \in 1..Len(stack[t]) :
        stack[t][i].op = "openNow" => i = 1 /\ (state \in {"Connecting", "Open"} \/ overtaken)
\* trySendQueue() is innermost, but for the trySendMessage() it calls for the front of
\* the queue; with a message of its own it runs under mSendMutex.
Shaped(s) ==
    /\ \A i \in 1..Len(s) :
          s[i].op \in Sends => i = 1 \/ (i = 2 /\ s[1].op = "trySendFront" /\ s[2].op = "trySendQueue")
    /\ s # <<>> /\ s[1].op = "trySendFront" => Len(s) >= 2 /\ s[2].op = "trySendQueue"
    /\ s # <<>> /\ s[1].op = "trySend" => s[1].x # <<>>
    /\ \A i \in 1..Len(s) :
          s[i].op \in {"trySendQueue", "trySend"} /\ s[i].x # <<>> =>
              i < Len(s) /\ s[i + 1].op = "unlock" /\ s[i + 1].k = "tcp"
SendShape == \A t \in Threads : Shaped(stack[t])
\* mSendMutex is locked by one thread at most.
OneMutex == \A t, u \in Threads : Mutexed(stack[t]) /\ Mutexed(stack[u]) => t = u
\* The message a sending thread will write after the queue.
Waiting(s) ==
    CASE s # <<>> /\ s[1].op \in {"trySendQueue", "trySend"} /\ s[1].x # <<>> -> <<s[1].x>>
      [] s # <<>> /\ s[1].op = "trySendFront" /\ s[2].x # <<>> -> <<s[2].x>>
      [] OTHER -> <<>>
\* What trySendMessage() sends is the front of the queue, or the queue is empty.
QueueKnown ==
    ~raced => \A t \in Threads : stack[t] # <<>> =>
        /\ stack[t][1].op = "trySendFront" => mSendQueue # <<>> /\ stack[t][1].x = mSendQueue[1]
        /\ stack[t][1].op = "trySend" => mSendQueue = <<>>
\* What is written, what is queued, and what the one sending thread will add make up
\* what was handed to the socket, in its order.
InOrder ==
    \/ raced
    \/ broken /\ IsPrefix(wire, handed)
    \/ \E t \in Threads :
          /\ \A u \in Threads \ {t} : Waiting(stack[u]) = <<>>
          /\ Slices(wire, mSendQueue \o Waiting(stack[t]), handed)
Inv == plan \in Plans /\ StacksTyped /\ DataTyped /\ OpensOnTop /\ SendShape /\ OneMutex /\ QueueKnown /\ InOrder

\* So what was written is a prefix.
LEMMA SentInOrder == ASSUME Inv PROVE raced \/ IsPrefix(wire, handed)
  <1>1. ASSUME NEW t \in Threads, Slices(wire, mSendQueue \o Waiting(stack[t]), handed)
        PROVE  IsPrefix(wire, handed)
    <2>1. IsSeq(Waiting(stack[t]))
      BY OneIs, EmptyIs DEF Waiting
    <2>2. IsSeq(wire) /\ IsSeq(handed) /\ IsSeq(mSendQueue \o Waiting(stack[t]))
      BY <2>1, ConcatIs DEF Inv, DataTyped
    <2> QED
      BY <1>1, <2>2, SlicesPrefix
  <1> QED
    BY <1>1 DEF Inv, InOrder

\* What the steps outside TcpTransport's send() keep.
Kept == UNCHANGED <<plan, mSendQueue, handed, wire, raced>> /\ ((broken' <=> broken) \/ broken' = TRUE)
StateKept ==
    /\ overtaken => overtaken'
    /\ state' = state \/ state' \in {"Connecting", "Open"} \/ overtaken' \/ ~Overtakes
Set(t, s) == stack' = [stack EXCEPT ![t] = s]

\* The frame at which a thread is.
LEMMA AtIs ==
    ASSUME Inv, NEW t \in Threads, NEW op, At(t, op)
    PROVE  /\ IsSeq(stack[t]) /\ stack[t] # <<>> /\ Len(stack[t]) \in Nat \ {0}
           /\ Top(t) = stack[t][1] /\ stack[t][1].op = op /\ FrameOK(stack[t][1])
  <1>1. IsSeq(stack[t]) /\ stack[t] # <<>> /\ \A i \in 1..Len(stack[t]) : FrameOK(stack[t][i])
    BY DEF Inv, StacksTyped, At
  <1>2. Len(stack[t]) \in Nat \ {0} /\ Head(stack[t]) = stack[t][1]
    BY <1>1, TailIs
  <1> QED
    BY <1>1, <1>2 DEF At, Top

\* No frame of a good stack is part of a send.
LEMMA GoodIs ==
    ASSUME NEW s, Good(s)
    PROVE  /\ Shaped(s) /\ Waiting(s) = <<>>
           /\ \A i \in 1..Len(s) : s[i].op \notin Sends \cup {"openNow"} /\ FrameOK(s[i])
           /\ s # <<>> => s[1].op \notin Sends \cup {"openNow"}
  <1>1. IsSeq(s) /\ \A i \in 1..Len(s) : s[i].op \notin Sends \cup {"openNow"} /\ FrameOK(s[i])
    BY DEF Good, Ordinary
  <1>2. s # <<>> => s[1].op \notin Sends \cup {"openNow"}
    BY <1>1, NonEmptyIs, IsLen
  <1>3. Shaped(s)
    BY <1>1, <1>2 DEF Shaped, Sends
  <1>4. Waiting(s) = <<>>
    BY <1>2 DEF Waiting, Sends
  <1> QED
    BY <1>1, <1>2, <1>3, <1>4

\* Under a frame that is not part of a send there is none that is.
LEMMA UnderIs ==
    ASSUME Inv, NEW t \in Threads, stack[t] # <<>>, stack[t][1].op # "trySendFront"
    PROVE  Good(Tail(stack[t])) /\ (Mutexed(Tail(stack[t])) => Mutexed(stack[t]))
  <1> DEFINE s == stack[t]
  <1>1. IsSeq(s) /\ s # <<>> /\ Shaped(s) /\ \A i \in 1..Len(s) : FrameOK(s[i])
    BY DEF Inv, StacksTyped, SendShape
  <1>2. \A i \in 1..Len(s) : s[i].op = "openNow" => i = 1
    BY DEF Inv, OpensOnTop
  <1>3. s[1].op # "trySendFront"
    OBVIOUS
  <1> HIDE DEF s
  <1>4. /\ IsSeq(Tail(s)) /\ Len(s) \in Nat \ {0} /\ Len(Tail(s)) = Len(s) - 1
        /\ \A i \in 1..Len(s) - 1 : Tail(s)[i] = s[i + 1]
    BY <1>1, TailIs
  <1>5. \A i \in 1..Len(Tail(s)) : i + 1 \in 1..Len(s) /\ i + 1 # 1 /\ Tail(s)[i] = s[i + 1]
    BY <1>4
  <1>6. \A i \in 1..Len(s) : i # 1 => s[i].op \notin Sends \cup {"openNow"}
    BY <1>1, <1>2, <1>3 DEF Shaped
  <1>7. Good(Tail(s))
    BY <1>1, <1>4, <1>5, <1>6 DEF Good, Ordinary
  <1>8. Mutexed(Tail(s)) => Mutexed(s)
    BY <1>1, TailGood
  <1> QED
    BY <1>7, <1>8 DEF s

LEMMA SetIs ==
    ASSUME Inv, NEW t \in Threads, NEW s, Set(t, s)
    PROVE  /\ DOMAIN stack' = Threads /\ stack'[t] = s
           /\ \A u \in Threads \ {t} : stack'[u] = stack[u]
  BY DEF Inv, StacksTyped, Set

\* Frames of which none is part of a send, and that may open the WebSocket first.
Fine(s) ==
    /\ IsSeq(s)
    /\ \A i \in 1..Len(s) :
          /\ FrameOK(s[i]) /\ s[i].op \notin Sends
          /\ s[i].op = "openNow" => i = 1 /\ state' \in {"Connecting", "Open"}
FineFor(t, u, s) ==
    /\ Fine(s)
    /\ Waiting(stack[u]) = <<>>
    /\ Mutexed(s) => Mutexed(stack[u]) \/ (u = t /\ SendFree(t))

LEMMA FineIs ==
    ASSUME NEW s, Fine(s)
    PROVE  /\ Shaped(s) /\ Waiting(s) = <<>> /\ IsSeq(s)
           /\ s # <<>> => s[1].op \notin Sends
  <1>1. IsSeq(s) /\ \A i \in 1..Len(s) : s[i].op \notin Sends
    BY DEF Fine
  <1>2. s # <<>> => s[1].op \notin Sends
    BY <1>1, NonEmptyIs, IsLen
  <1>3. Shaped(s)
    BY <1>1, <1>2 DEF Shaped, Sends
  <1>4. Waiting(s) = <<>>
    BY <1>2 DEF Waiting, Sends
  <1> QED
    BY <1>1, <1>2, <1>3, <1>4

\* While the mutex is free for a thread, no other has it.
LEMMA OthersFree ==
    ASSUME Inv, NEW t \in Threads, SendFree(t), NEW w \in Threads, Mutexed(stack[w])
    PROVE  w = t
  <1>1. DOMAIN stack[w] = 1..Len(stack[w])
    BY IsLen DEF Inv, StacksTyped
  <1> QED
    BY <1>1 DEF SendFree, FreeOf, Mutexed

\* A step that replaces frames of which none is part of a send, by others that are not,
\* keeps the invariant; one thread may take the mutex when it is free.
LEMMA FineStep ==
    ASSUME Inv, NEW t \in Threads, DOMAIN stack' = Threads, Kept, StateKept,
           \A u \in Threads : stack'[u] = stack[u] \/ FineFor(t, u, stack'[u])
    PROVE  Inv'
  <1>1. \A u \in Threads : stack'[u] = stack[u] \/
            /\ Shaped(stack'[u]) /\ Waiting(stack'[u]) = <<>> /\ IsSeq(stack'[u])
            /\ stack'[u] # <<>> => stack'[u][1].op \notin Sends
    BY FineIs DEF FineFor
  <1>2. StacksTyped'
    <2> SUFFICES ASSUME NEW u \in Threads
                 PROVE  IsSeq(stack'[u]) /\ \A i \in 1..Len(stack'[u]) : FrameOK(stack'[u][i])
      BY DEF StacksTyped
    <2>1. CASE stack'[u] = stack[u]
      BY <2>1 DEF Inv, StacksTyped
    <2>2. CASE FineFor(t, u, stack'[u])
      BY <2>2 DEF FineFor, Fine
    <2> QED
      BY <2>1, <2>2
  <1>3. DataTyped'
    BY DEF Inv, DataTyped, Kept
  <1>4. OpensOnTop'
    <2> SUFFICES ASSUME NEW u \in Threads, NEW i \in 1..Len(stack'[u]), stack'[u][i].op = "openNow"
                 PROVE  i = 1 /\ (state' \in {"Connecting", "Open"} \/ overtaken')
      BY DEF OpensOnTop
    <2>1. CASE FineFor(t, u, stack'[u])
      BY <2>1 DEF FineFor, Fine
    <2>2. CASE stack'[u] = stack[u]
      <3>1. i = 1 /\ stack[u][1].op = "openNow" /\ (state \in {"Connecting", "Open"} \/ overtaken)
        BY <2>2 DEF Inv, OpensOnTop
      <3>2. IsSeq(stack[u]) /\ Len(stack[u]) > 0
        BY <2>2, <3>1, IsLen DEF Inv, StacksTyped
      <3>3. stack[u] # <<>> /\ Head(stack[u]) = stack[u][1]
        BY <3>2, NonEmptyIs, TailIs
      <3>4. Overtakes
        BY <3>1, <3>3 DEF At, Overtakes
      <3> QED
        BY <3>1, <3>4 DEF StateKept
    <2> QED
      BY <2>1, <2>2
  <1>5. SendShape'
    BY <1>1 DEF Inv, SendShape
  <1>6. OneMutex'
    <2> SUFFICES ASSUME NEW u \in Threads, NEW v \in Threads, Mutexed(stack'[u]), Mutexed(stack'[v])
                 PROVE  u = v
      BY DEF OneMutex
    <2>1. ASSUME NEW w \in Threads, Mutexed(stack'[w])
          PROVE  Mutexed(stack[w]) \/ (w = t /\ SendFree(t))
      BY <2>1 DEF FineFor
    <2>2. ASSUME NEW w \in Threads, Mutexed(stack[w]), SendFree(t) PROVE w = t
      BY <2>2, OthersFree
    <2> QED
      BY <2>1, <2>2 DEF Inv, OneMutex
  <1>7. QueueKnown'
    <2> SUFFICES ASSUME ~raced', NEW u \in Threads, stack'[u] # <<>>
                 PROVE  /\ stack'[u][1].op = "trySendFront" =>
                               mSendQueue' # <<>> /\ stack'[u][1].x = mSendQueue'[1]
                        /\ stack'[u][1].op = "trySend" => mSendQueue' = <<>>
      BY DEF QueueKnown
    <2>1. CASE stack'[u] = stack[u]
      BY <2>1 DEF Inv, QueueKnown, Kept
    <2> QED
      BY <1>1, <2>1 DEF Sends
  <1>8. \A u \in Threads : Waiting(stack'[u]) = Waiting(stack[u])
    <2> SUFFICES ASSUME NEW u \in Threads
                 PROVE  Waiting(stack'[u]) = Waiting(stack[u])
      OBVIOUS
    <2>1. CASE FineFor(t, u, stack'[u])
      BY <2>1, FineIs DEF FineFor
    <2> QED
      BY <2>1
  <1>9. InOrder'
    <2>1. CASE broken' <=> broken
      BY <1>8, <2>1 DEF Inv, InOrder, Kept
    <2>2. CASE broken' = TRUE
      BY <2>2, SentInOrder DEF InOrder, Kept
    <2> QED
      BY <2>1, <2>2 DEF Kept
  <1> QED
    BY <1>2, <1>3, <1>4, <1>5, <1>6, <1>7, <1>9 DEF Inv, Kept

\* A step after which the stack of the thread holds nothing of a send.
LEMMA OrdinaryStep ==
    ASSUME Inv, NEW t \in Threads, NEW s, Set(t, s), Good(s), Kept, StateKept,
           Mutexed(s) => Mutexed(stack[t]) \/ SendFree(t),
           Waiting(stack[t]) = <<>>
    PROVE  Inv'
  <1>1. Fine(s)
    BY DEF Good, Ordinary, Fine
  <1>2. DOMAIN stack' = Threads /\ stack'[t] = s /\ \A u \in Threads \ {t} : stack'[u] = stack[u]
    BY SetIs
  <1>3. FineFor(t, t, stack'[t])
    BY <1>1, <1>2 DEF FineFor
  <1>4. \A u \in Threads : stack'[u] = stack[u] \/ FineFor(t, u, stack'[u])
    BY <1>2, <1>3
  <1> QED
    BY <1>2, <1>4, FineStep

\* A frame that is not part of a send waits for nothing.
LEMMA NotWaiting ==
    ASSUME NEW s, s # <<>> => s[1].op \notin Sends
    PROVE  Waiting(s) = <<>>
  BY DEF Waiting, Sends

\* Any step that replaces the frames of one thread.
LEMMA AnyStep ==
    ASSUME Inv, NEW t \in Threads, NEW s, Set(t, s), plan' = plan, StateKept,
           IsSeq(s), Shaped(s), \A i \in 1..Len(s) : FrameOK(s[i]) /\ s[i].op # "openNow",
           Mutexed(s) => Mutexed(stack[t]) \/ SendFree(t),
           DataTyped', QueueKnown', InOrder'
    PROVE  Inv'
  <1>1. DOMAIN stack' = Threads /\ stack'[t] = s /\ \A u \in Threads \ {t} : stack'[u] = stack[u]
    BY SetIs
  <1>2. StacksTyped'
    <2> SUFFICES ASSUME NEW u \in Threads
                 PROVE  IsSeq(stack'[u]) /\ \A i \in 1..Len(stack'[u]) : FrameOK(stack'[u][i])
      BY <1>1 DEF StacksTyped
    <2>1. CASE u # t
      BY <1>1, <2>1 DEF Inv, StacksTyped
    <2>2. CASE u = t
      BY <1>1, <2>2
    <2> QED
      BY <2>1, <2>2
  <1>3. OpensOnTop'
    <2> SUFFICES ASSUME NEW u \in Threads, NEW i \in 1..Len(stack'[u]), stack'[u][i].op = "openNow"
                 PROVE  i = 1 /\ (state' \in {"Connecting", "Open"} \/ overtaken')
      BY DEF OpensOnTop
    <2>1. u # t /\ stack'[u] = stack[u]
      BY <1>1
    <2>2. i = 1 /\ stack[u][1].op = "openNow" /\ (state \in {"Connecting", "Open"} \/ overtaken)
      BY <2>1 DEF Inv, OpensOnTop
    <2>3. IsSeq(stack[u]) /\ Len(stack[u]) > 0
      BY <2>1, <2>2, IsLen DEF Inv, StacksTyped
    <2>4. stack[u] # <<>> /\ Head(stack[u]) = stack[u][1]
      BY <2>3, NonEmptyIs, TailIs
    <2>5. Overtakes
      BY <2>2, <2>4 DEF At, Overtakes
    <2> QED
      BY <2>2, <2>5 DEF StateKept
  <1>4. SendShape'
    BY <1>1 DEF Inv, SendShape
  <1>5. OneMutex'
    <2> SUFFICES ASSUME NEW u \in Threads, NEW v \in Threads, Mutexed(stack'[u]), Mutexed(stack'[v])
                 PROVE  u = v
      BY DEF OneMutex
    <2>1. ASSUME NEW w \in Threads, Mutexed(stack'[w])
          PROVE  Mutexed(stack[w]) \/ (w = t /\ SendFree(t))
      <3>1. CASE w = t
        BY <1>1, <2>1, <3>1
      <3>2. CASE w # t
        BY <1>1, <2>1, <3>2
      <3> QED
        BY <3>1, <3>2
    <2>2. ASSUME NEW w \in Threads, Mutexed(stack[w]), SendFree(t) PROVE w = t
      BY <2>2, OthersFree
    <2> QED
      BY <2>1, <2>2 DEF Inv, OneMutex
  <1> QED
    BY <1>2, <1>3, <1>4, <1>5 DEF Inv

\* remoteClose() and stop().
LEMMA RemoteCloseCalm == Calm(RemoteClose)
  <1>1. Ordinary(F("close", "ws", <<>>)) /\ F("close", "ws", <<>>).op # "unlock"
    BY DEF Ordinary, FrameOK, F, Sends
  <1>2. Ordinary(F("closeTransports", "ws", <<>>)) /\ F("closeTransports", "ws", <<>>).op # "unlock"
    BY DEF Ordinary, FrameOK, F, Sends
  <1> QED
    BY <1>1, <1>2, TwoCalm DEF RemoteClose

LEMMA StopCalm == ASSUME NEW k PROVE Calm(Stop(k))
  <1>1. Ordinary(F("offRecv", "tcp", <<>>)) /\ F("offRecv", "tcp", <<>>).op # "unlock"
    BY DEF Ordinary, FrameOK, F, Sends
  <1>2. Ordinary(F("offRecv", Lower("tls"), <<>>)) /\ F("offRecv", Lower("tls"), <<>>).op # "unlock"
    BY DEF Ordinary, FrameOK, F, Sends
  <1>3. Ordinary(F("tlsStop", "tls", <<>>)) /\ F("tlsStop", "tls", <<>>).op # "unlock"
    BY DEF Ordinary, FrameOK, F, Sends
  <1>4. Ordinary(F("wsClose", "ws", <<>>)) /\ F("wsClose", "ws", <<>>).op # "unlock"
    BY DEF Ordinary, FrameOK, F, Sends
  <1>5. Calm(<<F("offRecv", "tcp", <<>>)>>)
    BY <1>1, OneCalm
  <1>6. Calm(<<F("offRecv", Lower("tls"), <<>>), F("tlsStop", "tls", <<>>)>>)
    BY <1>2, <1>3, TwoCalm
  <1>7. Calm(<<F("wsClose", "ws", <<>>)>>)
    BY <1>4, OneCalm
  <1> QED
    BY <1>5, <1>6, <1>7, NoneCalm DEF Stop

\* A step that goes on with frames none of which is part of a send.
LEMMA GoGood ==
    ASSUME Inv, NEW t \in Threads, NEW fs, Go(t, fs), Good(fs), Kept, StateKept,
           Mutexed(fs) => SendFree(t),
           stack[t] # <<>>, stack[t][1].op \notin Sends
    PROVE  Inv'
  <1> DEFINE s == Strip(fs \o Tail(stack[t]))
  <1>1. Set(t, s)
    BY DEF Go, Set, Inv, StacksTyped
  <1>2. Good(Tail(stack[t])) /\ (Mutexed(Tail(stack[t])) => Mutexed(stack[t]))
    BY UnderIs DEF Sends
  <1>3. Good(fs \o Tail(stack[t])) /\ (Mutexed(fs \o Tail(stack[t])) => Mutexed(stack[t]) \/ SendFree(t))
    BY <1>2, ConcatGood, ConcatMutexed DEF Good
  <1>4. Good(s) /\ (Mutexed(s) => Mutexed(stack[t]) \/ SendFree(t))
    BY <1>3, StripGood DEF Good
  <1> HIDE DEF s
  <1>5. Waiting(stack[t]) = <<>>
    BY NotWaiting
  <1> QED
    BY <1>1, <1>4, <1>5, OrdinaryStep

\* The same for a step that replaces the innermost frame, under the mutex or not.
LEMMA GoCalm ==
    ASSUME Inv, NEW t \in Threads, NEW op, At(t, op), op \notin Sends,
           NEW fs, Go(t, fs), Calm(fs), Kept, StateKept
    PROVE  Inv'
  <1>1. stack[t] # <<>> /\ stack[t][1].op \notin Sends
    BY AtIs
  <1> QED
    BY <1>1, GoGood DEF Calm

LEMMA GoLocked ==
    ASSUME Inv, NEW t \in Threads, NEW op, At(t, op), op \notin Sends,
           NEW fs, Go(t, fs), Good(fs), SendFree(t), Kept, StateKept
    PROVE  Inv'
  <1>1. stack[t] # <<>> /\ stack[t][1].op \notin Sends
    BY AtIs
  <1> QED
    BY <1>1, GoGood

LEMMA ReturnKeeps ==
    ASSUME Inv, NEW t \in Threads, NEW op, At(t, op), op \notin Sends, Return(t), Kept, StateKept
    PROVE  Inv'
  BY GoCalm, NoneCalm DEF Return

\* A thread without frames begins with some.
LEMMA BeginCalm ==
    ASSUME Inv, NEW t \in Threads, stack[t] = <<>>, NEW fs, Begin(t, fs), Calm(fs), Kept, StateKept
    PROVE  Inv'
  BY OrdinaryStep, NotWaiting DEF Begin, Set, Calm

\* An exception leaves no frame of a send, and takes no mutex.
LEMMA CaughtCalm ==
    ASSUME NEW f, Ordinary(f), f.op \in Catchers
    PROVE  Calm(Caught(f))
  <1>1. Ordinary(F("undo", f.k, <<>>)) /\ F("undo", f.k, <<>>).op # "unlock"
    BY DEF Ordinary, FrameOK, F, Sends
  <1>2. Ordinary(F("throw", f.k, <<>>)) /\ F("throw", f.k, <<>>).op # "unlock"
    BY DEF Ordinary, FrameOK, F, Sends
  <1>3. Ordinary(F("lost", f.k, <<>>)) /\ F("lost", f.k, <<>>).op # "unlock"
    BY DEF Ordinary, FrameOK, F, Sends
  <1>4. Ordinary(F("change", "ws", "Disconnected")) /\ F("change", "ws", "Disconnected").op # "unlock"
    BY DEF Ordinary, FrameOK, F, Sends
  <1>5. Ordinary(F("gone", "tcp", <<>>)) /\ F("gone", "tcp", <<>>).op # "unlock"
    BY DEF Ordinary, FrameOK, F, Sends
  <1>6. f.op # "unlock"
    BY DEF Catchers
  <1>7. Calm(<<F("undo", f.k, <<>>)>> \o RemoteClose \o <<F("throw", f.k, <<>>)>>)
    BY <1>1, <1>2, OneCalm, ConcatCalm, RemoteCloseCalm
  <1>8. Calm(<<F("lost", f.k, <<>>)>>)
    BY <1>3, OneCalm
  <1>9. Calm(<<F("change", "ws", "Disconnected")>>)
    BY <1>4, OneCalm
  <1>10. Calm(<<F("gone", "tcp", <<>>)>>)
    BY <1>5, OneCalm
  <1>11. Calm(<<f>>)
    BY <1>6, OneCalm
  <1> QED
    BY <1>7, <1>8, <1>9, <1>10, <1>11 DEF Caught

\* An exception leaves a part of the stack that holds nothing of a send.
LEMMA RaiseIs ==
    ASSUME Inv, NEW t \in Threads, stack[t] # <<>>, Raise(t)
    PROVE  \E s : Set(t, s) /\ Good(s) /\ (Mutexed(s) => Mutexed(stack[t]))
  <1> DEFINE r == Tail(stack[t])
             at == {i \in DOMAIN r : r[i].op \in Catchers}
             n == IF at = {} THEN Len(r) + 1 ELSE CHOOSE i \in at : \A j \in at : i <= j
             scoped == [j \in 1..n - 1 |-> IF r[j].op = "release" THEN r[j] ELSE F("left", "", <<>>)]
             rest == IF at = {} THEN <<>> ELSE Caught(r[n]) \o SubSeq(r, n + 1, Len(r))
             s == Strip(scoped \o rest)
  <1>1. Set(t, s)
    BY DEF Raise, Begin, Set
  <1>2. IsSeq(stack[t]) /\ Shaped(stack[t]) /\ \A i \in 1..Len(stack[t]) : FrameOK(stack[t][i])
    BY DEF Inv, StacksTyped, SendShape
  <1>3. \A i \in 1..Len(stack[t]) : stack[t][i].op = "openNow" => i = 1
    BY DEF Inv, OpensOnTop
  <1>4. /\ IsSeq(r) /\ Len(stack[t]) \in Nat \ {0} /\ Len(r) = Len(stack[t]) - 1
        /\ \A i \in 1..Len(stack[t]) - 1 : r[i] = stack[t][i + 1]
    BY <1>2, TailIs
  <1>5. Len(r) \in Nat /\ DOMAIN r = 1..Len(r)
    BY <1>4, IsLen
  <1>6. \A i \in 1..Len(r) : i + 1 \in 1..Len(stack[t]) /\ i + 1 # 1 /\ r[i] = stack[t][i + 1]
    BY <1>4, <1>5
  <1>7. ASSUME NEW i \in 1..Len(r)
        PROVE  FrameOK(r[i]) /\ r[i].op # "openNow" /\ (r[i].op \in Sends => i = 1 /\ r[i].op = "trySendQueue")
    BY <1>2, <1>3, <1>6, <1>7 DEF Shaped, Sends
  <1>8. Mutexed(r) => Mutexed(stack[t])
    BY <1>2, TailGood
  <1> HIDE DEF r
  <1>9. /\ n \in 1..Len(r) + 1
        /\ at # {} => n \in 1..Len(r) /\ r[n].op \in Catchers
    <2>1. CASE at = {}
      BY <1>5, <2>1
    <2>2. CASE at # {}
      <3>1. at \in SUBSET Nat
        BY <1>5
      <3>2. \E i \in at : \A j \in at : i <= j
        <4> HIDE DEF at
        <4> QED
          BY <2>2, <3>1, Least
      <3>3. n \in at
        <4> HIDE DEF at
        <4> QED
          BY <2>2, <3>2
      <3>4. n \in 1..Len(r) /\ r[n].op \in Catchers
        <4> HIDE DEF n
        <4> QED
          BY <1>5, <3>3
      <3> HIDE DEF n, at
      <3> QED
        BY <1>5, <3>4
    <2> QED
      BY <2>1, <2>2
  <1> HIDE DEF n, at
  <1>10. Calm(scoped)
    <2>1. n - 1 \in Nat
      BY <1>5, <1>9
    <2>2. IsSeq(scoped) /\ Len(scoped) = n - 1
      BY <2>1, MadeIs
    <2>3. ASSUME NEW j \in 1..n - 1 PROVE Ordinary(scoped[j]) /\ scoped[j].op # "unlock"
      <3>1. CASE r[j].op = "release"
        <4>2. scoped[j] = r[j]
          BY <3>1
        <4>3. j \in 1..Len(r)
          <5> HIDE DEF scoped
          <5> QED
            BY <1>5, <1>9
        <4>1. scoped[j] = r[j] /\ j \in 1..Len(r)
          BY <4>2, <4>3
        <4> HIDE DEF scoped
        <4> QED
          BY <1>7, <3>1, <4>1 DEF Ordinary, Sends
      <3>2. CASE r[j].op # "release"
        <4>1. scoped[j] = F("left", "", <<>>)
          BY <3>2
        <4> QED
          BY <4>1 DEF Ordinary, FrameOK, F, Sends
      <3> QED
        BY <3>1, <3>2
    <2> HIDE DEF scoped
    <2> QED
      BY <2>2, <2>3 DEF Calm, Good, Mutexed
  <1>11. Good(rest) /\ (Mutexed(rest) => Mutexed(stack[t]))
    <2>1. CASE at = {}
      BY <2>1, NoneCalm DEF Calm
    <2>2. CASE at # {}
      <3>1. n \in 1..Len(r) /\ r[n].op \in Catchers
        BY <1>9, <2>2
      <3>2. Ordinary(r[n])
        BY <1>7, <3>1 DEF Ordinary, Catchers, Sends
      <3>3. Calm(Caught(r[n]))
        BY <3>1, <3>2, CaughtCalm
      <3> DEFINE below == SubSeq(r, n + 1, Len(r))
      <3>4. n + 1 \in 1..Len(r) + 1
        BY <1>5, <3>1
      <3>5. /\ IsSeq(below) /\ (Mutexed(below) => Mutexed(r))
            /\ \A i \in 1..Len(below) : (n + 1) + i - 1 \in n + 1..Len(r) /\ below[i] = r[(n + 1) + i - 1]
        BY <1>4, <3>4, SuffixIs
      <3> HIDE DEF below
      <3>6. ASSUME NEW i \in 1..Len(below) PROVE Ordinary(below[i])
        <4> DEFINE j == (n + 1) + i - 1
        <4>1. j \in n + 1..Len(r) /\ below[i] = r[j]
          BY <3>5
        <4> HIDE DEF j
        <4>2. j \in 1..Len(r) /\ j # 1
          BY <1>5, <3>1, <4>1
        <4> QED
          BY <1>7, <4>1, <4>2 DEF Ordinary
      <3>7. Good(below)
        BY <3>5, <3>6 DEF Good
      <3>8. Good(Caught(r[n]) \o below) /\ (Mutexed(Caught(r[n]) \o below) => Mutexed(stack[t]))
        BY <1>8, <3>3, <3>5, <3>7, ConcatGood, ConcatMutexed DEF Calm, Good
      <3> QED
        BY <2>2, <3>8 DEF below
    <2> QED
      BY <2>1, <2>2
  <1> HIDE DEF scoped, rest
  <1>12. Good(scoped \o rest) /\ (Mutexed(scoped \o rest) => Mutexed(stack[t]))
    BY <1>10, <1>11, ConcatGood, ConcatMutexed DEF Calm, Good
  <1>13. Good(s) /\ (Mutexed(s) => Mutexed(stack[t]))
    BY <1>12, StripGood DEF Good
  <1> HIDE DEF s
  <1> QED
    BY <1>1, <1>13

LEMMA RaiseKeeps ==
    ASSUME Inv, NEW t \in Threads, NEW op, At(t, op), op \notin Sends, Raise(t), Kept, StateKept
    PROVE  Inv'
  <1>1. stack[t] # <<>> /\ stack[t][1].op \notin Sends
    BY AtIs
  <1>2. PICK s : Set(t, s) /\ Good(s) /\ (Mutexed(s) => Mutexed(stack[t]))
    BY <1>1, RaiseIs
  <1> QED
    BY <1>1, <1>2, NotWaiting, OrdinaryStep

-----------------------------------------------------------------------------
\* The frames that the actions push.

Special == Sends \cup {"openNow", "write", "enqueue", "send", "use", "unlock"}

LEMMA Plain ==
    ASSUME NEW op, NEW k, NEW x, op \notin Special
    PROVE  Ordinary(F(op, k, x)) /\ F(op, k, x).op # "unlock"
  BY DEF Ordinary, FrameOK, F, Special

LEMMA One ==
    ASSUME NEW op, NEW k, NEW x, op \notin Special
    PROVE  Calm(<<F(op, k, x)>>)
  BY Plain, OneCalm

LEMMA Two ==
    ASSUME NEW op1, NEW k1, NEW x1, op1 \notin Special,
           NEW op2, NEW k2, NEW x2, op2 \notin Special
    PROVE  Calm(<<F(op1, k1, x1), F(op2, k2, x2)>>)
  BY Plain, TwoCalm

LEMMA Three ==
    ASSUME NEW op1, NEW k1, NEW x1, op1 \notin Special,
           NEW op2, NEW k2, NEW x2, op2 \notin Special,
           NEW op3, NEW k3, NEW x3, op3 \notin Special
    PROVE  Calm(<<F(op1, k1, x1), F(op2, k2, x2), F(op3, k3, x3)>>)
  BY Plain, ThreeCalm

LEMMA WriteIs ==
    ASSUME NEW k, NEW cells, IsSeq(cells)
    PROVE  Ordinary(Write(k, cells)) /\ Write(k, cells).op # "unlock"
  BY DEF Ordinary, FrameOK, F, Write, Sends

LEMMA WriteCalm == ASSUME NEW k, NEW cells, IsSeq(cells) PROVE Calm(<<Write(k, cells)>>)
  BY WriteIs, OneCalm

\* What is written are cells: of HTTP, of the frames of the protocol.
LEMMA LinesIs == ASSUME NEW whats, IsSeq(whats) PROVE IsSeq(Lines(whats))
  <1> DEFINE lines == [i \in DOMAIN whats |-> <<"line", whats[i]>>]
  <1>1. Len(whats) \in Nat /\ DOMAIN whats = 1..Len(whats)
    BY IsLen
  <1>2. lines = [i \in 1..Len(whats) |-> lines[i]]
    BY <1>1
  <1>3. Lines(whats) = lines \o << <<"blank", "">> >>
    BY DEF Lines
  <1> HIDE DEF lines
  <1>4. IsSeq(lines)
    BY <1>1, <1>2, MadeIs
  <1> QED
    BY <1>3, <1>4, OneIs, ConcatIs

LEMMA HttpIs ==
    /\ IsSeq(UpgradeRequest) /\ IsSeq(UpgradeResponse) /\ IsSeq(ConnectRequest)
    /\ \A code : IsSeq(UpgradeError(code))
  BY TwoIs, ThreeIs, FourIs, LinesIs DEF UpgradeRequest, UpgradeResponse, ConnectRequest, UpgradeError

LEMMA CellsIs ==
    ASSUME NEW frame, IsSeq(frame.payload), NEW mask
    PROVE  IsSeq(Cells(frame, mask))
  <1> DEFINE n == Len(frame.payload)
             key == IF mask THEN Key ELSE 0
             bytes == [i \in 1..n |-> <<"byte", Mask(frame.payload[i], key)>>]
             head == <<"head", [opcode |-> frame.opcode, fin |-> frame.fin, mask |-> mask,
                                length |-> IF n > ShortLength THEN ShortLength + 1 ELSE n]>>
             length == IF n > ShortLength THEN << <<"length", n>> >> ELSE <<>>
             masking == IF mask THEN << <<"key", Key>> >> ELSE <<>>
  <1>1. n \in Nat
    BY IsLen
  <1>2. IsSeq(bytes)
    <2>1. bytes = [i \in 1..n |-> bytes[i]]
      OBVIOUS
    <2> HIDE DEF bytes, n
    <2> QED
      BY <1>1, <2>1, MadeIs
  <1>3. IsSeq(length)
    <2>1. IsSeq(<< <<"length", n>> >>)
      BY OneIs
    <2> QED
      BY <2>1, EmptyIs
  <1>4. IsSeq(masking)
    <2>1. IsSeq(<< <<"key", Key>> >>)
      BY OneIs
    <2> QED
      BY <2>1, EmptyIs
  <1>5. IsSeq(<<head>>)
    BY OneIs
  <1>6. Cells(frame, mask) = <<head>> \o length \o masking \o bytes
    BY DEF Cells
  <1> HIDE DEF bytes, length, masking, head, n, key
  <1> QED
    BY <1>2, <1>3, <1>4, <1>5, <1>6, ConcatIs

LEMMA ReadFrameIs == ASSUME NEW buffer PROVE IsSeq(ReadFrame(buffer).frame.payload)
  <1> DEFINE head == buffer[1][2]
             long == head.length > ShortLength
             ext == IF long THEN 1 ELSE 0
             header == 1 + ext + (IF head.mask THEN 1 ELSE 0)
             n == IF long THEN buffer[2][2] ELSE head.length
             key == IF head.mask THEN buffer[2 + ext][2] ELSE 0
             whole == buffer # <<>> /\ header <= Len(buffer) /\ n \in 0..Len(buffer) - header
             payload == [i \in 1..n |-> Mask(buffer[header + i][2], key)]
  <1>1. ReadFrame(buffer) =
           IF whole THEN [len |-> header + n, frame |-> Frame(head.opcode, head.fin, payload)]
           ELSE [len |-> 0, frame |-> Frame("none", FALSE, <<>>)]
    BY DEF ReadFrame
  <1>2. whole => n \in Nat
    <2> HIDE DEF n, header
    <2> QED
      OBVIOUS
  <1>3. payload = [i \in 1..n |-> payload[i]]
    OBVIOUS
  <1> HIDE DEF payload, n, whole, header, head
  <1>4. whole => IsSeq(payload)
    BY <1>2, <1>3, MadeIs
  <1>5. ReadFrame(buffer).frame.payload = IF whole THEN payload ELSE <<>>
    BY <1>1 DEF Frame
  <1> QED
    BY <1>4, <1>5, EmptyIs

\* What the application does.
LEMMA BodyCalm ==
    ASSUME NEW p \in Plans, NEW calls \in {p.calls, p.onOpen, p.onClient}
    PROVE  Calm(Body(calls))
  <1>1. /\ calls \in Seq({calls[i] : i \in DOMAIN calls})
        /\ \A i \in DOMAIN calls :
              /\ calls[i][1] \in Calls
              /\ calls[i][1] = "send" => LET payload == calls[i][2].payload
                                        IN payload \in Seq({payload[j] : j \in DOMAIN payload})
    BY PlansAssumption
  <1>2. IsSeq(calls)
    BY <1>1 DEF IsSeq
  <1>3. Len(calls) \in Nat /\ DOMAIN calls = 1..Len(calls)
    BY <1>2, IsLen
  <1> DEFINE b == Body(calls)
  <1>4. b = [i \in 1..2 * Len(calls) |-> b[i]]
    BY DEF Body
  <1>5. 2 * Len(calls) \in Nat
    BY <1>3
  <1>6. ASSUME NEW i \in 1..2 * Len(calls)
        PROVE  Ordinary(b[i]) /\ b[i].op # "unlock"
    <2>1. CASE i % 2 = 0
      <3>1. b[i] = F("caught", "ws", <<>>)
        BY <2>1 DEF Body
      <3> QED
        BY <3>1, Plain DEF Special, Sends
    <2>2. CASE i % 2 # 0
      <3> DEFINE j == (i + 1) \div 2
      <3>1. j \in 1..Len(calls)
        BY <1>3, <2>2
      <3>2. b[i] = F(calls[j][1], "ws", calls[j][2])
        BY <2>2 DEF Body
      <3> HIDE DEF b, j
      <3>3. /\ calls[j][1] \in Calls
            /\ calls[j][1] = "send" => IsSeq(calls[j][2].payload)
        BY <1>1, <1>3, <3>1 DEF IsSeq
      <3> DEFINE op == calls[j][1]
                 x == calls[j][2]
      <3>4. b[i].op = op /\ b[i].x = x
        BY <3>2 DEF F
      <3>5. op \in Calls /\ (op = "send" => IsSeq(x.payload))
        BY <3>3
      <3> HIDE DEF op, x
      <3> QED
        BY <3>4, <3>5 DEF Ordinary, FrameOK, Calls, Sends
    <2> QED
      BY <2>1, <2>2
  <1> HIDE DEF b
  <1>7. IsSeq(b) /\ Len(b) = 2 * Len(calls)
    BY <1>4, <1>5, MadeIs
  <1>8. Calm(b)
    BY <1>6, <1>7 DEF Calm, Good, Mutexed
  <1> QED
    BY <1>8 DEF b

-----------------------------------------------------------------------------
\* The actions that are not part of a send.

LEMMA UnchangedAside == ASSUME UNCHANGED <<env, ghosts, ws, io>> PROVE Kept /\ StateKept
  BY DEF env, net, ghosts, ws, io, sending, Kept, StateKept

\* First the moves, which change nothing but the stack.
LEMMA RecvKeeps ==
    ASSUME Inv, NEW t \in Threads, UNCHANGED <<env, ghosts, ws, io>>, Recv(t)
    PROVE  Inv'
  BY UnchangedAside, ReturnKeeps DEF Recv, Sends

LEMMA ThrowKeeps ==
    ASSUME Inv, NEW t \in Threads, UNCHANGED <<env, ghosts, ws, io>>, Throw(t)
    PROVE  Inv'
  BY UnchangedAside, RaiseKeeps DEF Throw, Sends

LEMMA CloseKeeps ==
    ASSUME Inv, NEW t \in Threads, UNCHANGED <<env, ghosts, ws, io>>, Close(t)
    PROVE  Inv'
  <1>1. Calm(<<F("closing", "ws", <<>>)>>)
    BY One DEF Special, Sends
  <1> DEFINE fs == IF state \in {"Connecting", "Open"} THEN <<F("closing", "ws", <<>>)>> ELSE <<>>
  <1>2. At(t, "close") /\ Go(t, fs)
    BY DEF Close
  <1>3. Calm(fs)
    BY <1>1, NoneCalm
  <1> HIDE DEF fs
  <1> QED
    BY <1>2, <1>3, UnchangedAside, GoCalm DEF Sends

LEMMA ForceCloseKeeps ==
    ASSUME Inv, NEW t \in Threads, UNCHANGED <<env, ghosts, ws, io>>, ForceClose(t)
    PROVE  Inv'
  BY UnchangedAside, RemoteCloseCalm, GoCalm DEF ForceClose, Sends

LEMMA LostKeeps ==
    ASSUME Inv, NEW t \in Threads, UNCHANGED <<env, ghosts, ws, io>>, Lost(t)
    PROVE  Inv'
  <1> DEFINE k == Top(t).k
             fs == IF st[k] = "Connected" THEN <<F("change", k, "Disconnected"), F("recv", k, Null)>>
                                          ELSE <<F("change", k, "Failed")>>
  <1>1. At(t, "lost") /\ Go(t, fs)
    BY DEF Lost
  <1>2. Calm(<<F("change", k, "Disconnected"), F("recv", k, Null)>>)
    BY Two DEF Special, Sends
  <1>3. Calm(<<F("change", k, "Failed")>>)
    BY One DEF Special, Sends
  <1>4. Calm(fs)
    BY <1>2, <1>3
  <1> HIDE DEF fs
  <1> QED
    BY <1>1, <1>4, UnchangedAside, GoCalm DEF Sends

LEMMA ShakenKeeps ==
    ASSUME Inv, NEW t \in Threads, UNCHANGED <<env, ghosts, ws, io>>, Shaken(t)
    PROVE  Inv'
  <1> DEFINE fs == IF st["tls"] = "Connected" \/ plan.backend = "OpenSSL" THEN <<F("pull", "tls", <<>>)>>
                                                               ELSE <<F("lost", "tls", <<>>)>>
  <1>1. At(t, "shaken") /\ Go(t, fs)
    BY DEF Shaken
  <1>2. Calm(fs)
    BY One DEF Special, Sends
  <1> HIDE DEF fs
  <1> QED
    BY <1>1, <1>2, UnchangedAside, GoCalm DEF Sends

LEMMA WsFrameIs ==
    ASSUME NEW opcode, NEW payload, IsSeq(payload)
    PROVE  Ordinary(WsFrame(opcode, payload)) /\ WsFrame(opcode, payload).op # "unlock"
  <1> DEFINE frame == Frame(opcode, TRUE, payload)
  <1>1. frame.payload = payload
    BY DEF Frame
  <1> HIDE DEF frame
  <1>2. IsSeq(Cells(frame, IsClient))
    BY <1>1, CellsIs
  <1>3. WsFrame(opcode, payload) = Write(Lower("ws"), Cells(frame, IsClient))
    BY DEF WsFrame, frame
  <1> QED
    BY <1>2, <1>3, WriteIs

LEMMA PingKeeps ==
    ASSUME Inv, NEW t \in Threads, UNCHANGED <<env, ghosts, ws, io>>, Ping(t)
    PROVE  Inv'
  <1> DEFINE pings == <<WsFrame("ping", <<>>), F("pinged", "ws", <<>>)>>
             fs == IF st["ws"] = "Connected" THEN pings ELSE <<>>
  <1>1. At(t, "frames") /\ Go(t, fs)
    BY DEF Ping
  <1>2. Calm(pings)
    BY WsFrameIs, EmptyIs, Plain, TwoCalm DEF Special, Sends
  <1>3. Calm(fs)
    BY <1>2, NoneCalm
  <1> HIDE DEF fs, pings
  <1> QED
    BY <1>1, <1>3, UnchangedAside, GoCalm DEF Sends

\* The callback of the WebSocket transport opens the WebSocket while it connects.
LEMMA CallStateKeeps ==
    ASSUME Inv, NEW t \in Threads, UNCHANGED <<env, ghosts, ws, io>>, CallState(t)
    PROVE  Inv'
  <1> DEFINE k == Top(t).k
             x == Top(t).x
             fs == IF k \in onState THEN OnState(k, x) \o <<F("stateEnd", k, <<>>)>> ELSE <<>>
  <1>1. At(t, "call") /\ Go(t, fs)
    BY DEF CallState
  <1>2. Calm(<<F("stateEnd", k, <<>>)>>) /\ Calm(<<F("init", Above(k), <<>>)>>)
    BY One DEF Special, Sends
  <1>3. CASE ~(k \in onState /\ x = "Connected" /\ k = "ws" /\ state = "Connecting")
    <2>1. Calm(OnState(k, x)) \/ k \notin onState
      BY <1>2, <1>3, RemoteCloseCalm, NoneCalm DEF OnState
    <2>2. Calm(fs)
      <3>1. CASE k \notin onState
        BY <3>1, NoneCalm
      <3>2. CASE k \in onState
        BY <1>2, <2>1, <3>2, ConcatCalm
      <3> QED
        BY <3>1, <3>2
    <2> HIDE DEF fs
    <2> QED
      BY <1>1, <2>2, UnchangedAside, GoCalm DEF Sends
  <1>4. CASE k \in onState /\ x = "Connected" /\ k = "ws" /\ state = "Connecting"
    <2> DEFINE open == F("openNow", "ws", <<>>)
               r == Tail(stack[t])
    <2>1. OnState(k, x) = <<open>>
      BY <1>4 DEF OnState
    <2>2. Good(r) /\ (Mutexed(r) => Mutexed(stack[t])) /\ stack[t] # <<>> /\ stack[t][1].op \notin Sends
      BY <1>1, AtIs, UnderIs DEF Sends
    <2>3. IsSeq(<<open>>) /\ Len(<<open>>) = 1 /\ <<open>>[1] = open
      BY OneIs
    <2>4. Calm(<<F("stateEnd", k, <<>>)>>)
      BY <1>2
    <2> DEFINE s == fs \o r
    <2>5. s = (<<open>> \o <<F("stateEnd", k, <<>>)>>) \o r
      BY <1>4, <2>1
    <2> DEFINE f2 == <<F("stateEnd", k, <<>>)>>
    <2>6. Good(f2) /\ ~Mutexed(f2) /\ IsSeq(f2) /\ IsSeq(r)
      BY <2>2, <2>4 DEF Calm, Good
    <2>7. stack' = [stack EXCEPT ![t] = Strip(s)]
      BY <1>1 DEF Go, Inv, StacksTyped
    <2>8. FrameOK(open) /\ open.op = "openNow"
      BY DEF FrameOK, F, Sends
    <2>9. \A i \in 1..Len(<<open>>) : i = 1
      BY <2>3
    <2>10. ~Mutexed(<<open>>)
      BY <2>3, <2>8 DEF Mutexed
    <2> HIDE DEF open, r, fs, s, f2
    <2>11. s = (<<open>> \o f2) \o r
      BY <2>5 DEF f2
    <2> DEFINE of == <<open>> \o f2
    <2>12. /\ IsSeq(of) /\ Len(of) \in Nat /\ Len(of) >= 1 /\ of[1] = open
           /\ \A i \in 1..Len(of) : i = 1 \/ Ordinary(of[i])
      <3>1. Len(<<open>>) = 1 /\ Len(f2) \in Nat /\ Len(of) = 1 + Len(f2) /\ IsSeq(of)
        BY <2>3, <2>6, ConcatIs
      <3>2. of[1] = open
        BY <2>3, <2>6, ConcatIs
      <3>3. ASSUME NEW i \in 1..Len(of), i # 1 PROVE Ordinary(of[i])
        <4>1. i - 1 \in 1..Len(f2) /\ of[i] = f2[i - 1]
          BY <2>3, <2>6, <3>1, <3>3, ConcatIs
        <4> QED
          BY <2>6, <4>1 DEF Good
      <3> QED
        BY <3>1, <3>2, <3>3
    <2>13. ~Mutexed(of)
      BY <2>3, <2>6, <2>10, ConcatMutexed
    <2> HIDE DEF of
    <2>14. s = of \o r
      BY <2>11 DEF of
    <2>15. /\ IsSeq(s) /\ Len(s) \in Nat /\ Len(s) >= 1 /\ s[1] = open
           /\ \A i \in 1..Len(s) : i = 1 \/ Ordinary(s[i])
      <3>1. Len(r) \in Nat /\ Len(s) = Len(of) + Len(r) /\ IsSeq(s)
        BY <2>6, <2>12, <2>14, ConcatIs
      <3>2. s[1] = open
        BY <2>6, <2>12, <2>14, ConcatIs
      <3>3. ASSUME NEW i \in 1..Len(s), i # 1 PROVE Ordinary(s[i])
        <4>1. CASE i \in 1..Len(of) /\ s[i] = of[i]
          BY <2>12, <3>3, <4>1
        <4>2. CASE i - Len(of) \in 1..Len(r) /\ s[i] = r[i - Len(of)]
          BY <2>2, <4>2 DEF Good
        <4> QED
          BY <2>6, <2>12, <2>14, <4>1, <4>2, ConcatIs
      <3> QED
        BY <2>12, <3>1, <3>2, <3>3
    <2>16. Mutexed(s) => Mutexed(stack[t])
      BY <2>2, <2>6, <2>12, <2>13, <2>14, ConcatMutexed
    <2>17. Strip(s) = s
      <3>1. s # <<>>
        BY <2>15, NonEmptyIs
      <3> QED
        BY <2>8, <2>15, <3>1, StripKeeps DEF Markers
    <2>18. state' = "Connecting"
      BY <1>4 DEF ws
    <2>19. Fine(s)
      BY <2>8, <2>15, <2>18 DEF Fine, Ordinary, Sends
    <2>20. Set(t, s)
      BY <2>7, <2>17 DEF Set
    <2>21. DOMAIN stack' = Threads /\ stack'[t] = s /\ \A u \in Threads \ {t} : stack'[u] = stack[u]
      BY <2>20, SetIs
    <2>22. FineFor(t, t, stack'[t])
      BY <2>2, <2>16, <2>19, <2>21, NotWaiting DEF FineFor
    <2> QED
      BY <2>21, <2>22, UnchangedAside, FineStep
  <1> QED
    BY <1>3, <1>4

LEMMA EnqueueTeardownKeeps ==
    ASSUME Inv, NEW t \in Threads, UNCHANGED <<env, ghosts, ws, io>>, EnqueueTeardown(t)
    PROVE  Inv'
  <1> DEFINE taken == Top(t).x
             resets == [i \in DOMAIN taken |-> F("reset", taken[i], <<>>)]
             task == IF taken = <<>> THEN <<>> ELSE Stop(taken[1]) \o resets
             s == Strip(Tail(stack[t]))
  <1>1. At(t, "enqueue") /\ stack[Teardown] = <<>>
    BY DEF EnqueueTeardown
  <1>2. /\ IsSeq(stack[t]) /\ stack[t] # <<>> /\ Top(t) = stack[t][1]
        /\ stack[t][1].op = "enqueue" /\ FrameOK(stack[t][1])
    BY <1>1, AtIs
  <1>3. IsSeq(taken)
    BY <1>2 DEF FrameOK
  <1>4. Teardown \in Threads /\ t # Teardown
    BY <1>1, <1>2 DEF Threads
  <1>5. stack' = [stack EXCEPT ![t] = Strip(Tail(@)), ![Teardown] = task]
    BY DEF EnqueueTeardown
  <1>6. /\ DOMAIN stack' = Threads /\ stack'[t] = s /\ stack'[Teardown] = task
        /\ \A u \in Threads \ {t, Teardown} : stack'[u] = stack[u]
    <2> HIDE DEF task
    <2> QED
      BY <1>4, <1>5 DEF Inv, StacksTyped
  <1>7. Good(s) /\ (Mutexed(s) => Mutexed(stack[t]))
    <2>1. Good(Tail(stack[t])) /\ (Mutexed(Tail(stack[t])) => Mutexed(stack[t]))
      BY <1>2, UnderIs
    <2> QED
      BY <2>1, StripGood DEF Good
  <1>8. Calm(task)
    <2>1. Len(taken) \in Nat /\ DOMAIN taken = 1..Len(taken)
      BY <1>3, IsLen
    <2>2. resets = [i \in 1..Len(taken) |-> resets[i]]
      BY <2>1
    <2>3. ASSUME NEW i \in 1..Len(taken) PROVE Ordinary(resets[i]) /\ resets[i].op # "unlock"
      <3>1. resets[i] = F("reset", taken[i], <<>>)
        BY <2>1
      <3> QED
        BY <3>1, Plain DEF Special, Sends
    <2> HIDE DEF resets, taken
    <2>4. IsSeq(resets) /\ Len(resets) = Len(taken)
      BY <2>1, <2>2, MadeIs
    <2>5. Calm(resets)
      BY <2>3, <2>4 DEF Calm, Good, Mutexed
    <2> QED
      BY <2>5, NoneCalm, StopCalm, ConcatCalm
  <1> HIDE DEF s, task, taken
  <1>9. FineFor(t, t, s)
    BY <1>2, <1>7, NotWaiting DEF FineFor, Fine, Good, Ordinary, Sends
  <1>10. FineFor(t, Teardown, task)
    BY <1>1, <1>8, NotWaiting DEF FineFor, Fine, Calm, Good, Ordinary
  <1> QED
    BY <1>6, <1>9, <1>10, UnchangedAside, FineStep

\* Transport, and the application.
LEMMA ChangeStateKeeps == ASSUME Inv, NEW t \in Threads, ChangeState(t) PROVE Inv'
  <1> DEFINE fs == IF st[Top(t).k] = Top(t).x THEN <<>> ELSE <<F("call", Top(t).k, Top(t).x)>>
  <1>1. At(t, "change") /\ Go(t, fs) /\ UNCHANGED <<env, ghosts, ws, io>>
    BY DEF ChangeState
  <1>2. Calm(<<F("call", Top(t).k, Top(t).x)>>)
    BY One DEF Special, Sends
  <1>3. Calm(fs)
    BY <1>2, NoneCalm
  <1> HIDE DEF fs
  <1> QED
    BY <1>1, <1>3, UnchangedAside, GoCalm DEF Sends

LEMMA DetachKeeps == ASSUME Inv, NEW t \in Threads, Detach(t) PROVE Inv'
  BY UnchangedAside, ReturnKeeps DEF Detach, Sends

LEMMA DestructorCalm == ASSUME NEW k PROVE Calm(Destructor(k))
  <1>1. Calm(<<F("tcpClose", k, <<>>)>>) /\ Calm(<<F("destroyed", k, <<>>)>>)
    BY One DEF Special, Sends
  <1>2. Calm(<<F("offRecv", Lower(k), <<>>), F("destroyed", k, <<>>)>>)
    BY Two DEF Special, Sends
  <1>3. Calm(Stop(k) \o <<F("destroyed", k, <<>>)>>)
    BY <1>1, StopCalm, ConcatCalm
  <1> QED
    BY <1>1, <1>2, <1>3 DEF Destructor

LEMMA ReleaseKeeps == ASSUME Inv, NEW t \in Threads, Release(t) PROVE Inv'
  <1> DEFINE k == Top(t).k
             last == alive[k] = "alive" /\ ~Held(t, k)
             fs == IF last THEN Destructor(k) ELSE <<>>
  <1>1. (At(t, "release") \/ At(t, "reset")) /\ Go(t, fs)
    BY DEF Release
  <1>2. Kept /\ StateKept
    BY DEF Release, Kept, StateKept, env, net, io, sending
  <1>3. Calm(fs)
    BY NoneCalm, DestructorCalm
  <1> HIDE DEF fs
  <1> QED
    BY <1>1, <1>2, <1>3, GoCalm DEF Sends

LEMMA DestroyedKeeps == ASSUME Inv, NEW t \in Threads, Destroyed(t) PROVE Inv'
  <1> DEFINE k == Top(t).k
             fs == Stop(Lower(k)) \o <<F("release", Lower(k), <<>>)>>
  <1>1. At(t, "destroyed") /\ Go(t, fs) /\ UNCHANGED <<env, ghosts, ws, io>>
    BY DEF Destroyed
  <1>2. Calm(fs)
    BY StopCalm, One, ConcatCalm DEF Special, Sends
  <1> HIDE DEF fs
  <1> QED
    BY <1>1, <1>2, UnchangedAside, GoCalm DEF Sends

LEMMA OpenKeeps == ASSUME Inv, NEW t \in Threads, Open(t) PROVE Inv'
  <1>1. At(t, "open") /\ Kept /\ StateKept
    BY DEF Open, Kept, StateKept, env, net, ghosts, io, sending
  <1>2. Calm(<<F("init", "tcp", <<>>)>>)
    BY One DEF Special, Sends
  <1>3. Go(t, <<F("init", "tcp", <<>>)>>) \/ Raise(t)
    BY DEF Open
  <1> QED
    BY <1>1, <1>2, <1>3, GoCalm, RaiseKeeps DEF Sends

LEMMA ClosingKeeps == ASSUME Inv, NEW t \in Threads, Closing(t) PROVE Inv'
  <1> DEFINE fs == Stop("ws") \o <<F("release", "ws", <<>>)>>
  <1>1. At(t, "closing") /\ (Go(t, fs) \/ Go(t, RemoteClose))
    BY DEF Closing
  <1>2. Kept /\ StateKept
    BY DEF Closing, Kept, StateKept, env, net, io, sending
  <1>3. Calm(fs)
    BY StopCalm, One, ConcatCalm DEF Special, Sends
  <1> HIDE DEF fs
  <1> QED
    BY <1>1, <1>2, <1>3, RemoteCloseCalm, GoCalm DEF Sends

LEMMA CloseTransportsKeeps == ASSUME Inv, NEW t \in Threads, CloseTransports(t) PROVE Inv'
  <1> DEFINE taken == member \ {"proxy"}
             off(op, k) == IF k \in taken THEN <<F(op, k, <<>>)>> ELSE <<>>
             the(k) == IF k \in taken THEN <<k>> ELSE <<>>
             all == the("ws") \o the("tls") \o the("tcp")
             fs == off("offRecv", "ws") \o off("offState", "ws") \o off("offState", "tls")
                     \o off("offState", "tcp") \o <<F("enqueue", "ws", all)>>
  <1>1. At(t, "closeTransports") /\ (Return(t) \/ Go(t, fs))
    BY DEF CloseTransports
  <1>2. Kept
    BY DEF CloseTransports, Kept, env, net, io, sending, ghosts
  <1>3. StateKept
    BY DEF CloseTransports, StateKept, ghosts, ws
  <1>4. /\ Calm(off("offRecv", "ws")) /\ Calm(off("offState", "ws"))
        /\ Calm(off("offState", "tls")) /\ Calm(off("offState", "tcp"))
    <2>1. ASSUME NEW op \in {"offRecv", "offState"}, NEW k PROVE Calm(off(op, k))
      <3>1. Calm(<<F(op, k, <<>>)>>)
        BY One DEF Special, Sends
      <3> QED
        BY <3>1, NoneCalm
    <2> HIDE DEF off
    <2> QED
      BY <2>1
  <1>5. IsSeq(the("ws")) /\ IsSeq(the("tls")) /\ IsSeq(the("tcp"))
    BY OneIs, EmptyIs
  <1> HIDE DEF the, off
  <1>6. IsSeq(all)
    BY <1>5, ConcatIs
  <1> HIDE DEF all
  <1>7. Ordinary(F("enqueue", "ws", all)) /\ F("enqueue", "ws", all).op # "unlock"
    BY <1>6 DEF Ordinary, FrameOK, F, Sends
  <1>8. Calm(fs)
    BY <1>4, <1>7, OneCalm, ConcatCalm
  <1> HIDE DEF fs
  <1> QED
    BY <1>1, <1>2, <1>3, <1>8, ReturnKeeps, GoCalm DEF Sends

LEMMA OutgoingKeeps == ASSUME Inv, NEW t \in Threads, Outgoing(t) PROVE Inv'
  <1>1. Kept /\ StateKept
    BY DEF Outgoing, Kept, StateKept, env, net, io, sending, ws
  <1>2. CASE At(t, "send")
    <2>1. IsSeq(Top(t).x.payload)
      BY <1>2, AtIs DEF FrameOK
    <2>2. Ordinary(F("use", "ws", Top(t).x)) /\ F("use", "ws", Top(t).x).op # "unlock"
      BY <2>1 DEF Ordinary, FrameOK, F, Sends
    <2>3. Calm(<<F("use", "ws", Top(t).x)>>)
      BY <2>2, OneCalm
    <2>4. Go(t, <<F("use", "ws", Top(t).x)>>) \/ Raise(t)
      BY <1>2 DEF Outgoing, At
    <2> QED
      BY <1>1, <1>2, <2>3, <2>4, GoCalm, RaiseKeeps DEF Sends
  <1>3. CASE At(t, "use")
    <2> DEFINE cells == Cells(Top(t).x, IsClient)
               sends == <<F("write", Lower("ws"), cells), F("sent", "ws", <<>>)>>
               fs == IF st["ws"] = "Connected" THEN sends ELSE <<>>
    <2>1. IsSeq(Top(t).x.payload)
      BY <1>3, AtIs DEF FrameOK
    <2>2. IsSeq(cells)
      BY <2>1, CellsIs
    <2>3. Go(t, fs)
      BY <1>3 DEF Outgoing, At
    <2> HIDE DEF cells
    <2>4. Ordinary(F("write", Lower("ws"), cells)) /\ F("write", Lower("ws"), cells).op # "unlock"
      BY <2>2, WriteIs DEF Write
    <2>5. Calm(sends)
      BY <2>4, Plain, TwoCalm DEF Special, Sends
    <2>6. Calm(fs)
      BY <2>5, NoneCalm
    <2> HIDE DEF fs
    <2> QED
      BY <1>1, <1>3, <2>3, <2>6, GoCalm DEF Sends
  <1> QED
    BY <1>2, <1>3 DEF Outgoing

\* A receive callback runs.
LEMMA IncomingKeeps ==
    ASSUME Inv, NEW t \in Threads, At(t, "recv"), NEW fs, Incoming(t, fs), Calm(fs), Kept, StateKept
    PROVE  Inv'
  <1>1. Calm(<<F("recvEnd", Top(t).k, <<>>)>>)
    BY One DEF Special, Sends
  <1>2. Calm(fs \o <<F("recvEnd", Top(t).k, <<>>)>>)
    BY <1>1, ConcatCalm
  <1> QED
    BY <1>2, GoCalm DEF Incoming, Sends

LEMMA ReceiveMessageKeeps == ASSUME Inv, NEW t \in Threads, ReceiveMessage(t) PROVE Inv'
  <1>1. Kept /\ StateKept
    BY DEF ReceiveMessage, Kept, StateKept, env, net, io, sending, ws, ghosts
  <1>2. At(t, "recv") /\ (Incoming(t, RemoteClose) \/ Incoming(t, <<>>))
    BY DEF ReceiveMessage, Receives
  <1> QED
    BY <1>1, <1>2, IncomingKeeps, RemoteCloseCalm, NoneCalm

LEMMA OpenNowKeeps == ASSUME Inv, NEW t \in Threads, OpenNow(t) PROVE Inv'
  <1> DEFINE fs == IF state # "Open" THEN Body(plan.onOpen) ELSE <<>>
  <1>1. At(t, "openNow") /\ Go(t, fs)
    BY DEF OpenNow
  <1>2. Kept /\ StateKept
    BY DEF OpenNow, Kept, StateKept, env, net, io, sending, ghosts
  <1>3. Calm(fs)
    BY BodyCalm, NoneCalm DEF Inv
  <1> HIDE DEF fs
  <1> QED
    BY <1>1, <1>2, <1>3, GoCalm DEF Sends

LEMMA TimeoutKeeps == ASSUME Inv, NEW t \in Threads, Timeout(t) PROVE Inv'
  <1>1. Kept /\ StateKept /\ stack[t] = <<>>
    BY UnchangedAside DEF Timeout
  <1> DEFINE late == <<F("change", "ws", "Disconnected"), F("release", "ws", <<>>)>>
  <1>2. Calm(late)
    BY Two DEF Special, Sends
  <1>3. Begin(t, RemoteClose) \/ Begin(t, late) \/ Begin(t, <<>>)
    BY DEF Timeout
  <1> HIDE DEF late
  <1> QED
    BY <1>1, <1>2, <1>3, BeginCalm, RemoteCloseCalm, NoneCalm

\* Bringing the transports up.
LEMMA StartedKeeps == ASSUME Inv, NEW t \in Threads, Started(t) PROVE Inv'
  <1>1. Kept /\ StateKept
    BY DEF Started, Kept, StateKept, env, net, io, sending, ghosts
  <1>2. (At(t, "started") \/ At(t, "undo")) /\ (Go(t, Stop(Top(t).k)) \/ Return(t))
    BY DEF Started
  <1> QED
    BY <1>1, <1>2, StopCalm, GoCalm, ReturnKeeps DEF Sends

LEMMA EmplaceCalm == ASSUME NEW k PROVE Calm(Emplace(k))
  BY Three DEF Emplace, Special, Sends

LEMMA SetTcpTransportKeeps == ASSUME Inv, NEW t \in Threads, SetTcpTransport(t) PROVE Inv'
  <1>1. Kept /\ StateKept
    BY DEF SetTcpTransport, Kept, StateKept, env, net, io, sending, ghosts
  <1> QED
    BY <1>1, EmplaceCalm, GoCalm DEF SetTcpTransport, Sends

LEMMA InitTransportKeeps == ASSUME Inv, NEW t \in Threads, NEW k, InitTransport(t, k) PROVE Inv'
  <1> DEFINE throws == RemoteClose \o <<F("throw", k, <<>>)>>
  <1>1. Kept /\ StateKept /\ At(t, "init")
    BY DEF InitTransport, Kept, StateKept, env, net, io, sending, ghosts
  <1>2. Go(t, <<>>) \/ Go(t, throws) \/ Go(t, Emplace(k))
    BY DEF InitTransport
  <1>3. Calm(throws)
    BY RemoteCloseCalm, One, ConcatCalm DEF Special, Sends
  <1> HIDE DEF throws
  <1> QED
    BY <1>1, <1>2, <1>3, EmplaceCalm, NoneCalm, GoCalm DEF Sends

LEMMA RegisterKeeps ==
    ASSUME Inv, NEW t \in Threads, NEW k, Register(t, k), NEW fs, Go(t, fs), Calm(fs)
    PROVE  Inv'
  <1>1. At(t, "start") /\ UNCHANGED <<env, ghosts, ws, io>>
    BY DEF Register
  <1> QED
    BY <1>1, UnchangedAside, GoCalm DEF Sends

LEMMA StartProxyKeeps == ASSUME Inv, NEW t \in Threads, StartProxy(t) PROVE Inv'
  BY HttpIs, WriteCalm, RegisterKeeps DEF StartProxy

LEMMA HelloCalm == ASSUME NEW k PROVE Calm(<<Write(k, Hello)>>)
  <1>1. IsSeq(Hello)
    BY OneIs DEF Hello
  <1> QED
    BY <1>1, WriteCalm

LEMMA StartTlsKeeps == ASSUME Inv, NEW t \in Threads, StartTls(t) PROVE Inv'
  <1>1. Go(t, <<Write(Lower("tls"), Hello)>>) \/ Go(t, <<>>)
    BY DEF StartTls, Return
  <1> QED
    BY <1>1, HelloCalm, NoneCalm, RegisterKeeps DEF StartTls

LEMMA StartWsKeeps == ASSUME Inv, NEW t \in Threads, StartWs(t) PROVE Inv'
  <1>1. Go(t, <<Write(Lower("ws"), UpgradeRequest)>>) \/ Go(t, <<>>)
    BY DEF StartWs
  <1> QED
    BY <1>1, HttpIs, WriteCalm, NoneCalm, RegisterKeeps DEF StartWs

LEMMA TlsStopKeeps == ASSUME Inv, NEW t \in Threads, TlsStop(t) PROVE Inv'
  BY UnchangedAside, ReturnKeeps DEF TlsStop, Sends

\* TcpTransport: connecting.
LEMMA StartTcpKeeps == ASSUME Inv, NEW t \in Threads, StartTcp(t) PROVE Inv'
  <1> DEFINE fs == <<F("change", "tcp", "Connected"), F("setPoll", "tcp", "In")>>
  <1>1. At(t, "start") /\ (Return(t) \/ Go(t, fs)) /\ UNCHANGED <<env, ghosts, ws, io>>
    BY DEF StartTcp
  <1>2. Calm(fs)
    BY Two DEF Special, Sends
  <1> HIDE DEF fs
  <1> QED
    BY <1>1, <1>2, UnchangedAside, ReturnKeeps, GoCalm DEF Sends

LEMMA RunTaskKeeps ==
    ASSUME Inv, tasks \in Seq({"doRecv", "resolve", "attempt"}), NEW t \in Threads, RunTask(t)
    PROVE  Inv'
  <1> DEFINE k == IF Head(tasks) = "doRecv" THEN "tls" ELSE "tcp"
             op == Head(tasks)
             runs == <<F(op, k, <<>>), F("release", k, <<>>)>>
  <1>1. stack[t] = <<>> /\ (Begin(t, runs) \/ Begin(t, <<>>)) /\ tasks # <<>>
    BY DEF RunTask
  <1>2. Kept /\ StateKept
    BY UnchangedAside DEF RunTask
  <1>3. op \in {"doRecv", "resolve", "attempt"}
    BY <1>1
  <1> HIDE DEF op, k
  <1>4. op \notin Special /\ "release" \notin Special
    BY <1>3 DEF Special, Sends
  <1>5. Calm(runs)
    BY <1>4, Two
  <1> HIDE DEF runs
  <1> QED
    BY <1>1, <1>2, <1>5, BeginCalm, NoneCalm

\* The end of an attempt to connect, with the mutex locked.
LEMMA UnlockIs == Ordinary(F("unlock", "tcp", <<>>))
  BY DEF Ordinary, FrameOK, F, Sends

LEMMA ConnectFailsGood == Good(ConnectFails)
  BY UnlockIs, Plain, TwoGood DEF ConnectFails, Special, Sends

LEMMA ResolveKeeps == ASSUME Inv, NEW t \in Threads, Resolve(t) PROVE Inv'
  <1>1. At(t, "resolve") /\ SendFree(t) /\ (Go(t, ConnectFails) \/ Go(t, <<>>))
    BY DEF Resolve
  <1>2. Kept /\ StateKept
    BY DEF Resolve, Kept, StateKept, env, net, ghosts, ws
  <1> QED
    BY <1>1, <1>2, ConnectFailsGood, NoneCalm, GoLocked DEF Calm, Sends

LEMMA AttemptKeeps == ASSUME Inv, NEW t \in Threads, Attempt(t) PROVE Inv'
  <1> DEFINE fs == <<F("addPoll", "tcp", Head(mResolved)), F("unlock", "tcp", <<>>)>>
  <1>1. At(t, "attempt") /\ SendFree(t) /\ (Go(t, ConnectFails) \/ Go(t, fs) \/ Return(t))
    BY DEF Attempt
  <1>2. Kept /\ StateKept
    BY DEF Attempt, Kept, StateKept, env, net, ghosts, ws, sending
  <1>3. Good(fs)
    BY UnlockIs, Plain, TwoGood DEF Special, Sends
  <1> HIDE DEF fs
  <1> QED
    BY <1>1, <1>2, <1>3, ConnectFailsGood, ReturnKeeps, GoLocked DEF Sends

LEMMA AddPollKeeps == ASSUME Inv, NEW t \in Threads, AddPoll(t) PROVE Inv'
  <1>1. (At(t, "addPoll") \/ At(t, "setPoll")) /\ Return(t)
    BY DEF AddPoll
  <1>2. Kept /\ StateKept
    BY DEF AddPoll, Kept, StateKept, env, net, ghosts, ws, sending
  <1> QED
    BY <1>1, <1>2, ReturnKeeps DEF Sends

LEMMA TcpCloseKeeps == ASSUME Inv, NEW t \in Threads, TcpClose(t) PROVE Inv'
  <1> DEFINE fs == <<F("tcpRemove", "tcp", <<>>), F("change", "tcp", "Disconnected"),
                     F("unlock", "tcp", <<>>)>>
  <1>1. Kept /\ StateKept
    BY DEF TcpClose, Kept, StateKept, env, net, ghosts, ws, sending
  <1>2. Good(fs)
    BY UnlockIs, Plain, ThreeGood DEF Special, Sends
  <1>3. \/ At(t, "tcpClose") /\ SendFree(t) /\ Go(t, fs)
        \/ At(t, "tcpRemove") /\ Return(t)
    BY DEF TcpClose
  <1> HIDE DEF fs
  <1> QED
    BY <1>1, <1>2, <1>3, ReturnKeeps, GoLocked DEF Sends

LEMMA PollAttemptKeeps == ASSUME Inv, NEW t \in Threads, PollAttempt(t) PROVE Inv'
  <1> DEFINE fs == <<F("change", "tcp", "Connected"), F("setPoll", "tcp", "In")>>
  <1>1. Kept /\ StateKept /\ stack[t] = <<>>
    BY DEF PollAttempt, Kept, StateKept, env, net, ghosts, ws, sending
  <1>2. Calm(fs)
    BY Two DEF Special, Sends
  <1>3. Begin(t, fs) \/ stack' = stack
    BY DEF PollAttempt
  <1> HIDE DEF fs
  <1>4. CASE stack' = stack
    BY <1>1, <1>4, FineStep DEF Inv, StacksTyped
  <1> QED
    BY <1>1, <1>2, <1>3, <1>4, BeginCalm

LEMMA TopOrdinary ==
    ASSUME Inv, NEW t \in Threads, NEW op, At(t, op), op \notin Sends \cup {"openNow", "unlock"}
    PROVE  Ordinary(Top(t)) /\ Top(t).op # "unlock"
  BY AtIs DEF Ordinary

\* The poll service, and what the transports do with their input.
LEMMA ProcessKeeps == ASSUME Inv, NEW t \in Threads, Process(t) PROVE Inv'
  <1>1. Kept /\ StateKept
    BY DEF Process, Kept, StateKept, ghosts, ws, sending
  <1>2. CASE At(t, "read")
    <2>1. \/ \E m : Go(t, <<F("recv", "tcp", m), Top(t)>>)
          \/ Go(t, <<F("gone", "tcp", <<>>)>>)
          \/ Go(t, <<>>)
      BY <1>2 DEF Process, At
    <2>2. ASSUME NEW m PROVE Calm(<<F("recv", "tcp", m), Top(t)>>)
      BY <1>2, TopOrdinary, Plain, TwoCalm DEF Special, Sends
    <2>3. Calm(<<F("gone", "tcp", <<>>)>>)
      BY One DEF Special, Sends
    <2> QED
      BY <1>1, <1>2, <2>1, <2>2, <2>3, NoneCalm, GoCalm DEF Sends
  <1>3. CASE At(t, "gone")
    <2> DEFINE fs == <<F("change", "tcp", "Disconnected"), F("recv", "tcp", Null)>>
    <2>1. Go(t, fs)
      BY <1>3 DEF Process, At
    <2>2. Calm(fs)
      BY Two DEF Special, Sends
    <2> HIDE DEF fs
    <2> QED
      BY <1>1, <1>3, <2>1, <2>2, GoCalm DEF Sends
  <1> QED
    BY <1>2, <1>3 DEF Process

LEMMA ProxyIncomingKeeps == ASSUME Inv, NEW t \in Threads, ProxyIncoming(t) PROVE Inv'
  <1>1. Kept /\ StateKept
    BY UnchangedAside DEF ProxyIncoming
  <1> DEFINE connected == <<F("change", "proxy", "Connected"), F("rest", "proxy", <<>>)>>
             m == Top(t).x
             b == mBuffer["proxy"]
  <1>2. Calm(connected)
    BY Two DEF Special, Sends
  <1>3. ASSUME NEW x PROVE Calm(<<F("recv", "proxy", x)>>)
    BY One DEF Special, Sends
  <1>4. Calm(<<F("lost", "proxy", <<>>)>>)
    BY One DEF Special, Sends
  <1>5. CASE At(t, "recv")
    <2>1. \/ Incoming(t, <<>>) \/ Incoming(t, <<F("lost", "proxy", <<>>)>>)
          \/ Incoming(t, <<F("recv", "proxy", m)>>) \/ Incoming(t, connected)
      BY <1>5 DEF ProxyIncoming, At
    <2> QED
      BY <1>1, <1>2, <1>3, <1>4, <1>5, <2>1, NoneCalm, IncomingKeeps
  <1>6. CASE At(t, "rest")
    <2>1. Go(t, <<F("recv", "proxy", b)>>) \/ Go(t, <<>>)
      BY <1>6 DEF ProxyIncoming, Receives, At
    <2> QED
      BY <1>1, <1>3, <1>6, <2>1, NoneCalm, GoCalm DEF Sends
  <1> QED
    BY <1>5, <1>6 DEF ProxyIncoming, Receives

LEMMA TlsIncomingKeeps == ASSUME Inv, NEW t \in Threads, TlsIncoming(t) PROVE Inv'
  <1>1. At(t, "recv") /\ Incoming(t, <<>>) /\ UNCHANGED <<env, ghosts, ws, io>>
    BY DEF TlsIncoming, Receives
  <1> QED
    BY <1>1, UnchangedAside, NoneCalm, IncomingKeeps

LEMMA DoRecvKeeps == ASSUME Inv, NEW t \in Threads, DoRecv(t) PROVE Inv'
  <1> DEFINE pulls == <<F("pull", "tls", <<>>), F("tlsTry", "tls", <<>>)>>
             lost1 == <<F("lost", "tls", <<>>)>>
  <1>1. At(t, "doRecv") /\ UNCHANGED <<env, ghosts, ws, io>>
        /\ (Go(t, pulls) \/ Go(t, lost1) \/ Go(t, <<>>))
    BY DEF DoRecv
  <1>2. Calm(pulls) /\ Calm(lost1)
    BY One, Two DEF Special, Sends
  <1> HIDE DEF pulls, lost1
  <1> QED
    BY <1>1, <1>2, UnchangedAside, NoneCalm, GoCalm DEF Sends

LEMMA PullKeeps == ASSUME Inv, NEW t \in Threads, Pull(t) PROVE Inv'
  <1> DEFINE top == Top(t)
  <1>1. At(t, "pull") /\ UNCHANGED <<env, ghosts, ws, io>>
    BY DEF Pull
  <1>2. \/ Go(t, <<Write(Lower("tls"), Hello), top>>) \/ Go(t, <<F("lost", "tls", <<>>)>>)
        \/ Go(t, <<>>) \/ Go(t, <<F("recv", "tls", <<>>), top>>) \/ Go(t, <<top>>)
    BY DEF Pull
  <1>3. Ordinary(top) /\ top.op # "unlock"
    BY <1>1, TopOrdinary DEF Sends
  <1> HIDE DEF top
  <1>4. Calm(<<Write(Lower("tls"), Hello), top>>)
    <2>1. IsSeq(Hello)
      BY OneIs DEF Hello
    <2> QED
      BY <1>3, <2>1, WriteIs, TwoCalm
  <1>5. Calm(<<F("recv", "tls", <<>>), top>>) /\ Calm(<<top>>) /\ Calm(<<F("lost", "tls", <<>>)>>)
    BY <1>3, Plain, OneCalm, TwoCalm DEF Special, Sends
  <1> QED
    BY <1>1, <1>2, <1>4, <1>5, UnchangedAside, NoneCalm, GoCalm DEF Sends

LEMMA ShakeKeeps == ASSUME Inv, NEW t \in Threads, Shake(t) PROVE Inv'
  <1> DEFINE connected == <<F("change", "tls", "Connected"), F("shaken", "tls", <<>>)>>
             hello == IF IsClient THEN <<>> ELSE <<Write(Lower("tls"), Hello)>>
             lost1 == <<F("lost", "tls", <<>>)>>
  <1>1. At(t, "pull") /\ UNCHANGED <<env, ghosts, ws, io>> /\ (Go(t, lost1) \/ Go(t, hello \o connected))
    BY DEF Shake
  <1>2. Calm(connected) /\ Calm(lost1)
    BY One, Two DEF Special, Sends
  <1>3. Calm(hello)
    BY HelloCalm, NoneCalm
  <1> HIDE DEF connected, hello, lost1
  <1> QED
    BY <1>1, <1>2, <1>3, UnchangedAside, ConcatCalm, GoCalm DEF Sends

LEMMA ReadRecordsKeeps == ASSUME Inv, NEW t \in Threads, ReadRecords(t) PROVE Inv'
  <1> DEFINE top == Top(t)
             got(records) == IF records = <<>> THEN <<>> ELSE <<F("recv", "tls", records)>>
             bye(no) == IF no THEN <<top>> ELSE <<F("lost", "tls", <<>>)>>
  <1>1. At(t, "pull") /\ UNCHANGED <<env, ghosts, ws, io>>
    BY DEF ReadRecords
  <1>2. \/ Go(t, <<top>>)
        \/ \E records : \E no \in BOOLEAN : Go(t, got(records) \o bye(no))
    BY DEF ReadRecords
  <1>3. Ordinary(top) /\ top.op # "unlock"
    BY <1>1, TopOrdinary DEF Sends
  <1> HIDE DEF top
  <1>4. ASSUME NEW records PROVE Calm(got(records))
    <2>1. Calm(<<F("recv", "tls", records)>>)
      BY One DEF Special, Sends
    <2> QED
      BY <2>1, NoneCalm
  <1>5. ASSUME NEW no PROVE Calm(bye(no))
    <2>1. Calm(<<F("lost", "tls", <<>>)>>) /\ Calm(<<top>>)
      BY <1>3, One, OneCalm DEF Special, Sends
    <2> QED
      BY <2>1
  <1>6. Calm(<<top>>)
    BY <1>3, OneCalm
  <1> HIDE DEF got, bye
  <1> QED
    BY <1>1, <1>2, <1>4, <1>5, <1>6, UnchangedAside, ConcatCalm, GoCalm DEF Sends

\* WsTransport.
LEMMA WsIncomingKeeps == ASSUME Inv, NEW t \in Threads, WsIncoming(t) PROVE Inv'
  <1> DEFINE m == Top(t).x
             try == <<F("wsTry", "ws", <<>>)>>
             open == <<F("change", "ws", "Connected"), F("frames", "ws", m)>>
             write(cells) == IF IsClient THEN <<>> ELSE <<Write(Lower("ws"), cells)>>
             throw == <<F("throw", "ws", <<>>)>>
             lost1 == <<F("lost", "ws", <<>>)>>
             frames == <<F("frames", "ws", m)>>
  <1>1. At(t, "recv") /\ UNCHANGED <<env, ghosts, ws, io>>
    BY DEF WsIncoming, Receives
  <1>2. \/ Incoming(t, <<>>) \/ Incoming(t, lost1)
        \/ Incoming(t, <<>> \o try)
        \/ Incoming(t, (write(UpgradeResponse) \o open) \o try)
        \/ \E code : Incoming(t, (write(UpgradeError(code)) \o throw) \o try)
        \/ Incoming(t, frames \o try)
    BY DEF WsIncoming
  <1>3. Calm(try) /\ Calm(open) /\ Calm(throw) /\ Calm(lost1) /\ Calm(frames)
    BY One, Two DEF Special, Sends
  <1>4. ASSUME NEW cells, IsSeq(cells) PROVE Calm(write(cells))
    <2>1. Calm(<<Write(Lower("ws"), cells)>>)
      BY <1>4, WriteCalm
    <2> QED
      BY <2>1, NoneCalm
  <1>5. Calm(write(UpgradeResponse)) /\ \A code : Calm(write(UpgradeError(code)))
    <2> HIDE DEF write
    <2> QED
      BY <1>4, HttpIs
  <1> HIDE DEF try, open, throw, lost1, frames, write
  <1>6. /\ Calm(<<>> \o try) /\ Calm((write(UpgradeResponse) \o open) \o try)
        /\ \A code : Calm((write(UpgradeError(code)) \o throw) \o try)
        /\ Calm(frames \o try)
    BY <1>3, <1>5, NoneCalm, ConcatCalm
  <1> QED
    BY <1>1, <1>2, <1>3, <1>6, UnchangedAside, NoneCalm, IncomingKeeps

LEMMA RecvFrameKeeps == ASSUME Inv, NEW t \in Threads, RecvFrame(t) PROVE Inv'
  <1> DEFINE next == <<F("next", "ws", <<>>)>>
             payload == ReadFrame(mBuffer["ws"]).frame.payload
             del(yes, opcode, all) == IF yes THEN Deliver(opcode, all) ELSE <<>>
             pong == <<WsFrame("pong", payload)>>
             close1 == <<F("wsClose", "ws", <<>>), F("change", "ws", "Disconnected")>>
             close2 == <<F("wsClose", "ws", <<>>)>>
  <1>1. At(t, "frames") \/ At(t, "next")
    BY DEF RecvFrame
  <1>2. UNCHANGED <<env, ghosts, ws, io>>
    BY DEF RecvFrame
  <1>3. \/ Go(t, <<>>)
        \/ \E a, b \in BOOLEAN : \E o1, x1, o2, x2 : Go(t, (del(a, o1, x1) \o del(b, o2, x2)) \o next)
        \/ Go(t, pong \o next) \/ Go(t, <<>> \o next) \/ Go(t, close1 \o next) \/ Go(t, close2 \o next)
    <2> DEFINE read == ReadFrame(mBuffer["ws"])
               frame == read.frame
               continues == frame.opcode = "continuation"
               data == frame.opcode \in {"text", "binary", "continuation"}
               all == IF continues THEN mPartial[2] \o frame.payload ELSE frame.payload
               opcode == IF continues THEN mPartial[1] ELSE frame.opcode
               none == continues \/ mPartial[2] = <<>>
               d == (IF none THEN <<>> ELSE Deliver(mPartial[1], mPartial[2]))
                      \o (IF frame.fin THEN Deliver(opcode, all) ELSE <<>>)
    <2>1. \/ Go(t, <<>>)
          \/ Go(t, d \o next)
          \/ Go(t, pong \o next) \/ Go(t, <<>> \o next) \/ Go(t, close1 \o next) \/ Go(t, close2 \o next)
      BY DEF RecvFrame
    <2>2. \E a, b \in BOOLEAN : \E o1, x1, o2, x2 : d = del(a, o1, x1) \o del(b, o2, x2)
      <3> DEFINE a == ~none
                 b == frame.fin = TRUE
      <3>1. d = del(~none, mPartial[1], mPartial[2]) \o del(frame.fin, opcode, all)
        OBVIOUS
      <3> QED
        BY <3>1
    <2> QED
      BY <2>1, <2>2
  <1>4. Calm(next) /\ Calm(close1) /\ Calm(close2)
    BY One, Two DEF Special, Sends
  <1>5. ASSUME NEW yes, NEW o, NEW x PROVE Calm(del(yes, o, x))
    <2>1. Calm(Deliver(o, x))
      BY One DEF Deliver, Special, Sends
    <2> QED
      BY <2>1, NoneCalm
  <1>6. Calm(pong)
    BY ReadFrameIs, WsFrameIs, OneCalm
  <1> HIDE DEF next, del, pong, close1, close2
  <1>7. /\ Calm(pong \o next) /\ Calm(<<>> \o next) /\ Calm(close1 \o next) /\ Calm(close2 \o next)
        /\ \A a, b, o1, x1, o2, x2 : Calm((del(a, o1, x1) \o del(b, o2, x2)) \o next)
    BY <1>4, <1>5, <1>6, NoneCalm, ConcatCalm
  <1>8. \E fs : Go(t, fs) /\ Calm(fs)
    BY <1>3, <1>7, NoneCalm
  <1> QED
    BY <1>1, <1>2, <1>8, UnchangedAside, GoCalm DEF Sends

LEMMA AddOutstandingPingKeeps == ASSUME Inv, NEW t \in Threads, AddOutstandingPing(t) PROVE Inv'
  <1> DEFINE fails == <<F("change", "ws", "Failed")>>
  <1>1. At(t, "pinged") /\ UNCHANGED <<env, ghosts, ws, io>> /\ (Go(t, fails) \/ Go(t, <<>>))
    BY DEF AddOutstandingPing
  <1>2. Calm(fails)
    BY One DEF Special, Sends
  <1> HIDE DEF fails
  <1> QED
    BY <1>1, <1>2, UnchangedAside, NoneCalm, GoCalm DEF Sends

LEMMA WsCloseKeeps == ASSUME Inv, NEW t \in Threads, WsClose(t) PROVE Inv'
  <1> DEFINE closes == <<WsFrame("close", <<>>), F("closeSent", "ws", <<>>)>>
  <1>1. /\ UNCHANGED <<env, ghosts, ws, io>>
        /\ \/ At(t, "wsClose") /\ (Go(t, closes) \/ Return(t))
           \/ At(t, "closeSent") /\ Return(t)
    BY DEF WsClose
  <1>2. Calm(closes)
    BY WsFrameIs, EmptyIs, Plain, TwoCalm DEF Special, Sends
  <1> HIDE DEF closes
  <1> QED
    BY <1>1, <1>2, UnchangedAside, ReturnKeeps, GoCalm DEF Sends

\* WebSocketServer.
LEMMA AcceptKeeps == ASSUME Inv, NEW t \in Threads, Accept(t) PROVE Inv'
  <1> DEFINE top == Top(t)
             polls == <<F("polling", "tcp", <<>>), top>>
             starts == <<F("init", "tcp", <<>>), F("client", "ws", <<>>)>>
  <1>1. Kept
    BY DEF Accept, Kept, net, sending, ghosts
  <1>2. StateKept
    BY DEF Accept, StateKept, ghosts
  <1>3. CASE At(t, "accept")
    <2>1. Go(t, polls) \/ Go(t, <<>>)
      BY <1>3 DEF Accept, At
    <2>2. Ordinary(top) /\ top.op # "unlock"
      BY <1>3, TopOrdinary DEF Sends
    <2> HIDE DEF top
    <2>3. Calm(polls)
      BY <2>2, Plain, TwoCalm DEF Special, Sends
    <2> HIDE DEF polls
    <2> QED
      BY <1>1, <1>2, <1>3, <2>1, <2>3, NoneCalm, GoCalm DEF Sends
  <1>4. CASE At(t, "polling")
    <2>1. Go(t, starts) \/ Return(t)
      BY <1>4 DEF Accept, At
    <2>2. Calm(starts)
      BY Two DEF Special, Sends
    <2> HIDE DEF starts
    <2> QED
      BY <1>1, <1>2, <1>4, <2>1, <2>2, ReturnKeeps, GoCalm DEF Sends
  <1>5. CASE At(t, "client")
    <2>1. Go(t, Body(plan.onClient))
      BY <1>5 DEF Accept, At
    <2> QED
      BY <1>1, <1>2, <1>5, <2>1, BodyCalm, GoCalm DEF Inv, Sends
  <1> QED
    BY <1>3, <1>4, <1>5 DEF Accept

LEMMA StopServerKeeps == ASSUME Inv, NEW t \in Threads, StopServer(t) PROVE Inv'
  <1> DEFINE joins == <<F("join", "ws", <<>>)>>
  <1>1. \/ At(t, "stopServer") /\ Go(t, joins)
        \/ At(t, "join") /\ Return(t)
    BY DEF StopServer
  <1>2. Kept /\ StateKept
    BY DEF StopServer, Kept, StateKept, net, ghosts, ws, io, sending
  <1>3. Calm(joins)
    BY One DEF Special, Sends
  <1> HIDE DEF joins
  <1> QED
    BY <1>1, <1>2, <1>3, ReturnKeeps, GoCalm DEF Sends

-----------------------------------------------------------------------------
\* The actions of a send.

\* Frames pushed on frames of which none is part of a send.
LEMMA PushOne ==
    ASSUME NEW a, NEW r, Good(r)
    PROVE  LET s == <<a>> \o r
           IN  /\ IsSeq(s) /\ Len(s) \in Nat /\ Len(s) >= 1 /\ s # <<>> /\ s[1] = a
               /\ Len(r) \in Nat /\ Len(s) = Len(r) + 1
               /\ \A i \in 1..Len(s) : i = 1 \/ Ordinary(s[i])
               /\ \A i \in 1..Len(r) : s[i + 1] = r[i]
               /\ Mutexed(s) => (a.op = "unlock" /\ a.k = "tcp") \/ Mutexed(r)
  <1> DEFINE o == <<a>>
             s == o \o r
  <1>1. IsSeq(o) /\ Len(o) = 1 /\ o[1] = a
    BY OneIs
  <1>2. IsSeq(r) /\ Len(r) \in Nat
    BY IsLen DEF Good
  <1> HIDE DEF o
  <1>30. /\ IsSeq(s) /\ Len(s) = Len(o) + Len(r)
         /\ \A i \in 1..Len(o) : s[i] = o[i]
         /\ \A i \in 1..Len(r) : s[Len(o) + i] = r[i]
    <2>1. IsSeq(o) /\ IsSeq(r)
      BY <1>1, <1>2
    <2>2. IsSeq(o \o r)
      BY <2>1, ConcatSeq
    <2> QED
      BY <2>1, <2>2, ConcatAt
  <1>31. 1 \in 1..Len(o) /\ Len(o) + Len(r) = Len(r) + 1 /\ \A i \in 1..Len(r) : Len(o) + i = i + 1
    BY <1>1, <1>2
  <1>3. IsSeq(s) /\ Len(s) = Len(r) + 1 /\ s[1] = a /\ \A i \in 1..Len(r) : s[i + 1] = r[i]
    <2> HIDE DEF s
    <2> QED
      BY <1>1, <1>30, <1>31
  <1>4. ASSUME NEW i \in 1..Len(s), i # 1 PROVE Ordinary(s[i])
    <2>1. i - 1 \in 1..Len(r) /\ (i - 1) + 1 = i
      BY <1>2, <1>3, <1>4
    <2> HIDE DEF s
    <2>2. s[i] = r[i - 1]
      BY <1>3, <2>1
    <2> QED
      BY <2>1, <2>2 DEF Good
  <1>5. Mutexed(s) => Mutexed(o) \/ Mutexed(r)
    BY <1>1, <1>2, ConcatMutexed
  <1>6. Mutexed(o) => a.op = "unlock" /\ a.k = "tcp"
    BY <1>1 DEF Mutexed
  <1> HIDE DEF s
  <1>7. s # <<>> /\ Len(s) \in Nat /\ Len(s) >= 1
    BY <1>2, <1>3, NonEmptyIs
  <1> QED
    BY <1>2, <1>3, <1>4, <1>5, <1>6, <1>7 DEF s, o

LEMMA PushTwo ==
    ASSUME NEW a, NEW b, NEW r, IsSeq(r)
    PROVE  LET s == <<a, b>> \o r
           IN  /\ IsSeq(s) /\ Len(s) \in Nat /\ Len(s) >= 2 /\ s # <<>> /\ s[1] = a /\ s[2] = b
               /\ Len(r) \in Nat /\ Len(s) = Len(r) + 2
               /\ \A i \in 1..Len(r) : s[i + 2] = r[i]
               /\ \A i \in 1..Len(s) : i = 1 \/ i = 2 \/ (i - 2 \in 1..Len(r) /\ s[i] = r[i - 2])
               /\ Mutexed(s) => \/ a.op = "unlock" /\ a.k = "tcp"
                                \/ b.op = "unlock" /\ b.k = "tcp"
                                \/ Mutexed(r)
  <1> DEFINE o == <<a, b>>
             s == o \o r
  <1>1. IsSeq(o) /\ Len(o) = 2 /\ o[1] = a /\ o[2] = b
    BY TwoIs
  <1>2. Len(r) \in Nat
    BY IsLen
  <1> HIDE DEF o
  <1>30. /\ IsSeq(s) /\ Len(s) = Len(o) + Len(r)
         /\ \A i \in 1..Len(o) : s[i] = o[i]
         /\ \A i \in 1..Len(r) : s[Len(o) + i] = r[i]
    <2>1. IsSeq(o)
      BY <1>1
    <2>2. IsSeq(o \o r)
      BY <2>1, ConcatSeq
    <2> QED
      BY <2>1, <2>2, ConcatAt
  <1>31. /\ 1 \in 1..Len(o) /\ 2 \in 1..Len(o) /\ Len(o) + Len(r) = Len(r) + 2
         /\ \A i \in 1..Len(r) : Len(o) + i = i + 2
    BY <1>1, <1>2
  <1>3. IsSeq(s) /\ Len(s) = Len(r) + 2 /\ s[1] = a /\ s[2] = b
    <2> HIDE DEF s
    <2> QED
      BY <1>1, <1>30, <1>31
  <1>4. ASSUME NEW i \in 1..Len(r) PROVE s[i + 2] = r[i]
    <2> HIDE DEF s
    <2> QED
      BY <1>30, <1>31
  <1>5. Mutexed(s) => Mutexed(o) \/ Mutexed(r)
    BY <1>1, <1>2, ConcatMutexed
  <1>6. Mutexed(o) => (a.op = "unlock" /\ a.k = "tcp") \/ (b.op = "unlock" /\ b.k = "tcp")
    <2>1. 1..2 = {1, 2}
      OBVIOUS
    <2> QED
      BY <1>1, <2>1 DEF Mutexed
  <1> HIDE DEF s
  <1>7. s # <<>> /\ Len(s) \in Nat /\ Len(s) >= 2
    BY <1>2, <1>3, NonEmptyIs
  <1>8. ASSUME NEW i \in 1..Len(s), i # 1, i # 2 PROVE i - 2 \in 1..Len(r) /\ s[i] = r[i - 2]
    <2>1. i - 2 \in 1..Len(r) /\ (i - 2) + 2 = i
      BY <1>2, <1>3, <1>8
    <2> QED
      BY <1>4, <2>1
  <1> QED
    BY <1>2, <1>3, <1>4, <1>5, <1>6, <1>7, <1>8 DEF s, o

\* A message that waits is one whose sender has the mutex.
LEMMA WaitingMutexed ==
    ASSUME Inv, NEW u \in Threads, Waiting(stack[u]) # <<>>
    PROVE  Mutexed(stack[u])
  <1> DEFINE s == stack[u]
  <1>1. IsSeq(s) /\ Shaped(s)
    BY DEF Inv, StacksTyped, SendShape
  <1>2. Waiting(s) # <<>>
    OBVIOUS
  <1> HIDE DEF s
  <1>3. Len(s) \in Nat /\ (s # <<>> => Len(s) >= 1)
    BY <1>1, IsLen, NonEmptyIs
  <1>4. CASE s # <<>> /\ s[1].op \in {"trySendQueue", "trySend"} /\ s[1].x # <<>>
    <2>1. 1 \in 1..Len(s)
      BY <1>3, <1>4
    <2>2. 1 < Len(s) /\ s[1 + 1].op = "unlock" /\ s[1 + 1].k = "tcp"
      BY <1>1, <1>4, <2>1 DEF Shaped
    <2>3. 1 + 1 \in 1..Len(s)
      BY <1>3, <2>2
    <2> QED
      BY <2>2, <2>3 DEF Mutexed, s
  <1>5. CASE s # <<>> /\ s[1].op = "trySendFront" /\ s[2].x # <<>>
    <2>1. Len(s) >= 2 /\ s[2].op = "trySendQueue" /\ 2 \in 1..Len(s)
      BY <1>1, <1>3, <1>5 DEF Shaped
    <2>2. 2 < Len(s) /\ s[2 + 1].op = "unlock" /\ s[2 + 1].k = "tcp"
      BY <1>1, <1>5, <2>1 DEF Shaped
    <2>3. 2 + 1 \in 1..Len(s)
      BY <1>3, <2>2
    <2> QED
      BY <2>2, <2>3 DEF Mutexed, s
  <1> QED
    BY <1>2, <1>4, <1>5 DEF Waiting

LEMMA WaitingIs ==
    ASSUME NEW s
    PROVE  /\ IsSeq(Waiting(s))
           /\ Waiting(s) = <<>> \/ \E m : Waiting(s) = <<m>>
  BY OneIs, EmptyIs DEF Waiting

\* What waits is known, from the thread that has the mutex or from any when none waits.
LEMMA Ordered ==
    ASSUME Inv, ~raced, ~broken, NEW t \in Threads,
           \A u \in Threads \ {t} : Waiting(stack[u]) = <<>>
    PROVE  Slices(wire, mSendQueue \o Waiting(stack[t]), handed)
  <1>1. PICK v \in Threads :
          /\ \A u \in Threads \ {v} : Waiting(stack[u]) = <<>>
          /\ Slices(wire, mSendQueue \o Waiting(stack[v]), handed)
    BY DEF Inv, InOrder
  <1>2. Waiting(stack[v]) = Waiting(stack[t])
    <2>1. CASE v = t
      BY <2>1
    <2>2. CASE v # t
      BY <1>1, <2>2
    <2> QED
      BY <2>1, <2>2
  <1> QED
    BY <1>1, <1>2

LEMMA ConcatEmpty == ASSUME NEW s, IsSeq(s) PROVE s \o <<>> = s /\ <<>> \o s = s
  <1> DEFINE S == {s[i] : i \in DOMAIN s}
  <1>1. s \in Seq(S)
    BY DEF IsSeq
  <1> HIDE DEF S
  <1> QED
    BY <1>1, ConcatEmptySeq

\* What the socket takes of a message, and what is left.
LEMMA TakesIs ==
    ASSUME NEW m, IsSeq(m), NEW n \in Takes(m)
    PROVE  /\ n \in 0..Len(m) /\ Len(m) \in Nat
           /\ IsSeq(SubSeq(m, 1, n)) /\ IsSeq(Rest(m, n))
           /\ Full(m, n) \/ n = Len(m)
           /\ n = Len(m) => ~Full(m, n)
  <1>1. n \in 0..Len(m) /\ Len(m) \in Nat
    BY IsLen DEF Takes
  <1>2. Len(m) \in n..Len(m)
    BY <1>1
  <1> QED
    BY <1>1, <1>2, StartIs, SliceIs DEF Rest, Full

\* A send that finds no other one going on.
LEMMA RacesIs ==
    ASSUME Inv, NEW t \in Threads, raced' = (raced \/ Races(t)), ~raced',
           NEW u \in Threads \ {t}, stack[u] # <<>>
    PROVE  stack[u][1].op \notin Sends
  <1>1. ~Sending(u)
    BY DEF Races
  <1>2. Head(stack[u]) = stack[u][1]
    BY TailIs DEF Inv, StacksTyped
  <1> QED
    BY <1>1, <1>2 DEF Sending, At, Sends

\* send() while messages wait: it goes through the queue.
LEMMA SendBehindKeeps ==
    ASSUME Inv, NEW t \in Threads, At(t, "write"), SendFree(t), mSendQueue # <<>>,
           handed' = handed \o Top(t).x,
           Go(t, <<F("trySendQueue", "tcp", Top(t).x), F("unlock", "tcp", <<>>)>>),
           UNCHANGED <<plan, mSendQueue, wire, broken, raced, state, overtaken>>
    PROVE  Inv'
  <1> DEFINE m == Top(t).x
             r == Tail(stack[t])
             a == F("trySendQueue", "tcp", m)
             b == F("unlock", "tcp", <<>>)
             s == <<a, b>> \o r
  <1>1. IsSeq(m)
    BY AtIs DEF FrameOK
  <1>2. Good(r) /\ (Mutexed(r) => Mutexed(stack[t])) /\ stack[t] # <<>> /\ stack[t][1].op \notin Sends
    BY AtIs, UnderIs DEF Sends
  <1>3. a.op = "trySendQueue" /\ a.x = m /\ b.op = "unlock" /\ b.k = "tcp" /\ FrameOK(a) /\ FrameOK(b)
    BY <1>1 DEF F, FrameOK, Sends
  <1>4. stack' = [stack EXCEPT ![t] = Strip(s)]
    BY DEF Go, Inv, StacksTyped
  <1> HIDE DEF r, a, b
  <1>5. IsSeq(r)
    BY <1>2 DEF Good
  <1>6. /\ IsSeq(s) /\ Len(s) \in Nat /\ Len(s) >= 2 /\ s # <<>> /\ s[1] = a /\ s[2] = b
        /\ \A i \in 1..Len(s) : i = 1 \/ i = 2 \/ (i - 2 \in 1..Len(r) /\ s[i] = r[i - 2])
    BY <1>5, PushTwo
  <1> HIDE DEF s, m
  <1>7. \A i \in 1..Len(s) : i = 1 \/ i = 2 \/ Ordinary(s[i])
    BY <1>2, <1>6 DEF Good
  <1>8. Strip(s) = s
    BY <1>3, <1>6, StripKeeps DEF Markers
  <1>9. Set(t, s)
    BY <1>4, <1>8 DEF Set
  <1>10. \A i \in 1..Len(s) : FrameOK(s[i]) /\ s[i].op # "openNow"
    BY <1>3, <1>6, <1>7 DEF Ordinary
  <1>11. Shaped(s)
    <2>1. ASSUME NEW i \in 1..Len(s), i # 1 PROVE s[i].op \notin Sends
      BY <1>3, <1>6, <1>7, <2>1 DEF Ordinary, Sends
    <2>2. 1 < Len(s) /\ s[1 + 1] = b
      BY <1>6
    <2> QED
      BY <1>3, <1>6, <2>1, <2>2 DEF Shaped, Sends
  <1>12. DOMAIN stack' = Threads /\ stack'[t] = s /\ \A u \in Threads \ {t} : stack'[u] = stack[u]
    BY <1>9, SetIs
  <1>13. DataTyped'
    BY <1>1, ConcatIs DEF Inv, DataTyped, m
  <1>14. QueueKnown'
    BY <1>3, <1>6, <1>12 DEF Inv, QueueKnown
  <1>15. \A u \in Threads \ {t} : Waiting(stack[u]) = <<>>
    BY OthersFree, WaitingMutexed
  <1>16. Waiting(stack[t]) = <<>>
    BY <1>2, NotWaiting
  <1>17. Waiting(s) = IF m = <<>> THEN <<>> ELSE <<m>>
    BY <1>3, <1>6 DEF Waiting
  <1>18. InOrder'
    <2>0. IsSeq(wire) /\ IsSeq(handed) /\ IsSeq(mSendQueue) /\ handed' = handed \o m
      BY DEF Inv, DataTyped, m
    <2>1. CASE raced
      BY <2>1 DEF InOrder
    <2>2. CASE ~raced /\ broken
      <3>1. IsPrefix(wire, handed)
        BY <2>2, SentInOrder
      <3>2. IsPrefix(wire, handed \o m)
        <4>1. Len(wire) \in Nat /\ Len(handed) \in Nat /\ Len(m) \in Nat /\ Len(handed \o m) = Len(handed) + Len(m)
          BY <1>1, <2>0, ConcatIs, IsLen
        <4>2. Len(wire) <= Len(handed) /\ SubSeq(wire, 1, Len(wire)) = SubSeq(handed, 1, Len(wire))
          BY <3>1 DEF IsPrefix
        <4>3. 0 \in 0..Len(handed) /\ Len(wire) \in 0..Len(handed) /\ 0 + 1 = 1
          BY <4>1, <4>2
        <4>4. SubSeq(handed \o m, 0 + 1, Len(wire)) = SubSeq(handed, 0 + 1, Len(wire))
          BY <1>1, <2>0, <4>3, SliceKept
        <4> QED
          BY <4>1, <4>2, <4>3, <4>4 DEF IsPrefix
      <3> QED
        BY <2>0, <2>2, <3>2 DEF InOrder
    <2>3. CASE ~raced /\ ~broken
      <3>1. Slices(wire, mSendQueue, handed)
        BY <1>15, <1>16, <2>0, <2>3, Ordered, ConcatEmpty
      <3>2. Slices(wire, mSendQueue \o Waiting(s), handed \o m)
        <4>1. CASE m = <<>>
          BY <1>17, <2>0, <3>1, <4>1, ConcatEmpty
        <4>2. CASE m # <<>>
          BY <1>1, <1>17, <2>0, <3>1, <4>2, SlicesMore
        <4> QED
          BY <4>1, <4>2
      <3>3. \A u \in Threads \ {t} : Waiting(stack'[u]) = <<>>
        BY <1>12, <1>15
      <3> QED
        BY <1>12, <2>0, <3>2, <3>3 DEF InOrder
    <2> QED
      BY <2>1, <2>2, <2>3
  <1> QED
    BY <1>6, <1>9, <1>10, <1>11, <1>13, <1>14, <1>18, AnyStep DEF StateKept

\* send() with nothing in the queue: the socket takes some of the message.
LEMMA SendNowKeeps ==
    ASSUME Inv, NEW t \in Threads, At(t, "write"), SendFree(t), mSendQueue = <<>>, ~broken,
           handed' = handed \o Top(t).x,
           raced' = (raced \/ Races(t)),
           NEW n \in Takes(Top(t).x),
           Put(Top(t).x, n),
           mSendQueue' = IF Full(Top(t).x, n) THEN <<Rest(Top(t).x, n)>> ELSE <<>>,
           Go(t, IF Full(Top(t).x, n) THEN <<F("setPoll", "tcp", "Both"), F("unlock", "tcp", <<>>)>>
                                      ELSE <<>>),
           UNCHANGED <<plan, broken, state, overtaken>>
    PROVE  Inv'
  <1> DEFINE m == Top(t).x
             fs == IF Full(m, n) THEN <<F("setPoll", "tcp", "Both"), F("unlock", "tcp", <<>>)>> ELSE <<>>
             s == Strip(fs \o Tail(stack[t]))
             q == IF Full(m, n) THEN <<Rest(m, n)>> ELSE <<>>
  <1>0. Set(t, s)
    BY DEF Go, Set, Inv, StacksTyped
  <1>1. IsSeq(m)
    BY AtIs DEF FrameOK
  <1>2. /\ n \in 0..Len(m) /\ Len(m) \in Nat
        /\ IsSeq(SubSeq(m, 1, n)) /\ IsSeq(Rest(m, n))
        /\ Full(m, n) \/ n = Len(m)
        /\ n = Len(m) => ~Full(m, n)
    BY <1>1, TakesIs
  <1>3. Good(Tail(stack[t])) /\ (Mutexed(Tail(stack[t])) => Mutexed(stack[t]))
        /\ stack[t] # <<>> /\ stack[t][1].op \notin Sends
    BY AtIs, UnderIs DEF Sends
  <1>4. Good(<<F("setPoll", "tcp", "Both"), F("unlock", "tcp", <<>>)>>)
    BY UnlockIs, Plain, TwoGood DEF Special, Sends
  <1>5. Good(fs)
    BY <1>4, NoneCalm DEF Calm
  <1> HIDE DEF fs
  <1>6. Good(s)
    BY <1>3, <1>5, ConcatGood, StripGood DEF Good
  <1>7. wire' = wire \o SubSeq(m, 1, n) /\ handed' = handed \o m /\ mSendQueue' = q
    BY DEF Put
  <1> HIDE DEF s, m
  <1>8. /\ Shaped(s) /\ Waiting(s) = <<>>
        /\ \A i \in 1..Len(s) : s[i].op \notin Sends \cup {"openNow"} /\ FrameOK(s[i])
        /\ s # <<>> => s[1].op \notin Sends \cup {"openNow"}
    BY <1>6, GoodIs
  <1>9. DOMAIN stack' = Threads /\ stack'[t] = s /\ \A u \in Threads \ {t} : stack'[u] = stack[u]
    BY <1>0, SetIs
  <1>10. IsSeq(q) /\ \A i \in 1..Len(q) : IsSeq(q[i])
    <2>1. CASE Full(m, n)
      <3> DEFINE x == Rest(m, n)
      <3>1. q = <<x>> /\ IsSeq(x)
        BY <1>2, <2>1
      <3> HIDE DEF x, q
      <3>2. IsSeq(<<x>>) /\ Len(<<x>>) = 1 /\ <<x>>[1] = x
        BY OneIs
      <3> QED
        BY <3>1, <3>2
    <2>2. CASE ~Full(m, n)
      BY <2>2, EmptyIs
    <2> QED
      BY <2>1, <2>2
  <1> HIDE DEF q
  <1>11. IsSeq(wire) /\ IsSeq(handed)
    BY DEF Inv, DataTyped
  <1>12. DataTyped'
    <2> DEFINE x == SubSeq(m, 1, n)
    <2>1. IsSeq(x) /\ wire' = wire \o x
      BY <1>2, <1>7
    <2> HIDE DEF x
    <2>2. IsSeq(wire') /\ IsSeq(handed')
      <3>1. IsSeq(wire \o x) /\ IsSeq(handed \o m)
        BY <1>1, <1>11, <2>1, ConcatSeq
      <3> QED
        BY <1>7, <2>1, <3>1
    <2> QED
      BY <1>7, <1>10, <2>2 DEF DataTyped
  <1>13. QueueKnown'
    <2> SUFFICES ASSUME ~raced', NEW u \in Threads, stack'[u] # <<>>
                 PROVE  stack'[u][1].op \notin Sends
      BY DEF QueueKnown, Sends
    <2>1. CASE u = t
      BY <1>8, <1>9, <2>1
    <2>2. CASE u # t
      BY <1>9, <2>2, RacesIs
    <2> QED
      BY <2>1, <2>2
  <1>14. \A u \in Threads \ {t} : Waiting(stack[u]) = <<>>
    BY OthersFree, WaitingMutexed
  <1>15. InOrder'
    <2>1. CASE raced'
      BY <2>1 DEF InOrder
    <2>2. CASE ~raced'
      <3>1. Waiting(stack[t]) = <<>> /\ ~raced
        BY <1>3, <2>2, NotWaiting
      <3>2. Slices(wire, <<>>, handed)
        BY <1>14, <3>1, Ordered, ConcatEmpty, EmptyIs
      <3>3. Slices(wire, <<m>> \o <<>>, handed \o m)
        <4>1. Slices(wire, <<>> \o <<m>>, handed \o m)
          BY <1>1, <1>11, <3>2, EmptyIs, SlicesMore
        <4>2. <<>> \o <<m>> = <<m>> /\ <<m>> \o <<>> = <<m>>
          BY OneIs, ConcatEmpty
        <4> QED
          BY <4>1, <4>2
      <3>4. IsSeq(handed \o m) /\ IsSeq(<<>>)
        BY <1>1, <1>11, ConcatIs, EmptyIs
      <3> DEFINE x == SubSeq(m, n + 1, Len(m))
      <3>5. /\ Slices(wire \o SubSeq(m, 1, n), <<x>> \o <<>>, handed \o m)
            /\ n = Len(m) => Slices(wire \o SubSeq(m, 1, n), <<>>, handed \o m)
        BY <1>1, <1>2, <1>11, <3>3, <3>4, SlicesSome
      <3>6. <<x>> \o <<>> = <<x>>
        BY OneIs, ConcatEmpty
      <3>7. Slices(wire', mSendQueue', handed')
        BY <1>2, <1>7, <3>5, <3>6 DEF Rest, q
      <3>8. Slices(wire', mSendQueue' \o Waiting(stack'[t]), handed')
        BY <1>7, <1>8, <1>9, <1>10, <3>7, ConcatEmpty
      <3>9. \A u \in Threads \ {t} : Waiting(stack'[u]) = <<>>
        BY <1>9, <1>14
      <3> QED
        BY <3>8, <3>9 DEF InOrder
    <2> QED
      BY <2>1, <2>2
  <1> QED
    BY <1>0, <1>6, <1>8, <1>12, <1>13, <1>15, AnyStep DEF StateKept, Good

\* send(), behind the queue or at once.
LEMMA SendKeeps == ASSUME Inv, NEW t \in Threads, Send(t) PROVE Inv'
  <1> DEFINE m == Top(t).x
             connected == \A k \in Below(Top(t).k) : st[k] = "Connected"
  <1>1. At(t, "write") /\ SendFree(t) /\ UNCHANGED <<plan, state, overtaken>>
    BY DEF Send, ws
  <1>2. CASE /\ broken' = (broken \/ connected)
             /\ Raise(t)
             /\ UNCHANGED <<handed, mSendQueue, wire, stalls, raced>>
    <2>1. Kept /\ StateKept
      BY <1>1, <1>2 DEF Kept, StateKept
    <2> QED
      BY <1>1, <1>2, <2>1, RaiseKeeps DEF Sends
  <1>3. CASE /\ connected /\ mSendQueue # <<>>
             /\ handed' = handed \o m
             /\ Go(t, <<F("trySendQueue", "tcp", m), F("unlock", "tcp", <<>>)>>)
             /\ UNCHANGED <<mSendQueue, wire, stalls, broken, raced>>
    BY <1>1, <1>3, SendBehindKeeps
  <1>4. CASE /\ connected /\ mSendQueue = <<>> /\ ~broken
             /\ handed' = handed \o m
             /\ raced' = (raced \/ Races(t))
             /\ \E n \in Takes(m) :
                   /\ Put(m, n)
                   /\ mSendQueue' = IF Full(m, n) THEN <<Rest(m, n)>> ELSE <<>>
                   /\ Go(t, IF Full(m, n) THEN <<F("setPoll", "tcp", "Both"), F("unlock", "tcp", <<>>)>>
                                          ELSE <<>>)
             /\ UNCHANGED broken
    BY <1>1, <1>4, SendNowKeeps
  <1> QED
    BY <1>2, <1>3, <1>4 DEF Send

\* Sequences of sequences.
LEMMA ConcatSeqs ==
    ASSUME NEW q, NEW p, IsSeq(q), IsSeq(p), \A i \in 1..Len(q) : IsSeq(q[i]), \A i \in 1..Len(p) : IsSeq(p[i])
    PROVE  IsSeq(q \o p) /\ \A i \in 1..Len(q \o p) : IsSeq((q \o p)[i])
  <1>1. ASSUME NEW i \in 1..Len(q \o p) PROVE IsSeq((q \o p)[i])
    <2>1. \/ i \in 1..Len(q) /\ (q \o p)[i] = q[i]
          \/ i > Len(q) /\ i - Len(q) \in 1..Len(p) /\ (q \o p)[i] = p[i - Len(q)]
      BY ConcatIs
    <2> QED
      BY <2>1
  <1> QED
    BY <1>1, ConcatSeq

LEMMA SendsTyped ==
    ASSUME NEW m, NEW k, IsSeq(wire), IsSeq(handed), IsSeq(mSendQueue),
           \A i \in 1..Len(mSendQueue) : IsSeq(mSendQueue[i]),
           IsSeq(m), IsSeq(k), \A i \in 1..Len(k) : IsSeq(k[i]),
           wire' = wire \o m, mSendQueue' = mSendQueue \o k, handed' = handed
    PROVE  DataTyped'
  <1>1. IsSeq(wire \o m)
    BY ConcatSeq
  <1>2. IsSeq(mSendQueue \o k) /\ \A i \in 1..Len(mSendQueue \o k) : IsSeq((mSendQueue \o k)[i])
    BY ConcatSeqs
  <1> QED
    BY <1>1, <1>2 DEF DataTyped

\* Concatenations, taken apart and in another order.
LEMMA HeadAndTail == ASSUME NEW s, IsSeq(s), s # <<>> PROVE s = <<s[1]>> \o Tail(s)
  <1> DEFINE S == {s[i] : i \in DOMAIN s}
  <1>1. s \in Seq(S)
    BY DEF IsSeq
  <1> HIDE DEF S
  <1>2. s[1] \in S /\ Tail(s) \in Seq(S) /\ s[1] = Head(s)
    BY <1>1, HeadTailProperties, EmptySeq
  <1>3. s = <<Head(s)>> \o Tail(s)
    BY <1>1
  <1> QED
    BY <1>2, <1>3

LEMMA ConcatThree ==
    ASSUME NEW s, NEW q, NEW r, IsSeq(s), IsSeq(q), IsSeq(r)
    PROVE  (s \o q) \o r = s \o (q \o r)
  <1> DEFINE S == {s[i] : i \in DOMAIN s} \cup {q[i] : i \in DOMAIN q} \cup {r[i] : i \in DOMAIN r}
  <1>1. s \in Seq(S) /\ q \in Seq(S) /\ r \in Seq(S)
    <2>1. /\ s \in Seq({s[i] : i \in DOMAIN s}) /\ q \in Seq({q[i] : i \in DOMAIN q})
          /\ r \in Seq({r[i] : i \in DOMAIN r})
      BY DEF IsSeq
    <2> QED
      BY <2>1, SeqMonotonic
  <1> HIDE DEF S
  <1> QED
    BY <1>1, ConcatAssociative

LEMMA PushedOnBoth ==
    ASSUME NEW x, NEW q, NEW r, IsSeq(q), IsSeq(r)
    PROVE  (<<x>> \o q) \o r = <<x>> \o (q \o r)
  <1> DEFINE one == <<x>>
  <1>1. IsSeq(one)
    BY OneIs
  <1> HIDE DEF one
  <1>2. (one \o q) \o r = one \o (q \o r)
    BY <1>1, ConcatThree
  <1> QED
    BY <1>2 DEF one

\* The front of the queue takes its turn, and leaves a rest or nothing.
LEMMA SlicesFront ==
    ASSUME NEW w, NEW h, NEW m, NEW q, NEW r, IsSeq(w), IsSeq(h), IsSeq(m), IsSeq(q), IsSeq(r),
           Slices(w, (<<m>> \o q) \o r, h), NEW n \in 0..Len(m)
    PROVE  /\ Slices(w \o SubSeq(m, 1, n), (<<SubSeq(m, n + 1, Len(m))>> \o q) \o r, h)
           /\ n = Len(m) => Slices(w \o SubSeq(m, 1, n), q \o r, h)
  <1> DEFINE x == SubSeq(m, n + 1, Len(m))
             qr == q \o r
  <1>1. IsSeq(qr)
    BY ConcatSeq
  <1>2. (<<m>> \o q) \o r = <<m>> \o qr
    BY PushedOnBoth
  <1>3. Slices(w, <<m>> \o qr, h)
    BY <1>2
  <1> HIDE DEF qr
  <1>4. /\ Slices(w \o SubSeq(m, 1, n), <<x>> \o qr, h)
        /\ n = Len(m) => Slices(w \o SubSeq(m, 1, n), qr, h)
    BY <1>1, <1>3, SlicesSome
  <1> HIDE DEF x
  <1>5. (<<x>> \o q) \o r = <<x>> \o qr
    BY PushedOnBoth DEF qr
  <1> QED
    BY <1>4, <1>5 DEF x, qr

\* trySendQueue() goes on, with the mutex or without.
LEMMA TrySendQueueKeeps ==
    ASSUME Inv, NEW t \in Threads, UNCHANGED <<env, ghosts, ws, io>>, TrySendQueue(t)
    PROVE  Inv'
  <1> DEFINE top == Top(t)
             r == Tail(stack[t])
             z == stack[t]
  <1>1. At(t, "trySendQueue") /\ UNCHANGED <<plan, mSendQueue, handed, wire, raced, broken, state, overtaken>>
    BY DEF TrySendQueue, env, ghosts, net, ws, io, sending
  <1>2. /\ IsSeq(z) /\ z # <<>> /\ Len(z) \in Nat \ {0} /\ top = z[1] /\ top.op = "trySendQueue"
        /\ FrameOK(top)
    BY <1>1, AtIs
  <1>3. IsSeq(top.x)
    BY <1>2 DEF FrameOK, Sends
  <1>4. Good(r) /\ (Mutexed(r) => Mutexed(z)) /\ IsSeq(r)
    BY <1>2, UnderIs DEF Good
  <1>5. /\ Len(r) = Len(z) - 1 /\ \A i \in 1..Len(z) - 1 : r[i] = z[i + 1]
    BY <1>2, TailIs
  <1>6. Shaped(z)
    BY DEF Inv, SendShape
  <1>7. top.x # <<>> => 1 \in 1..Len(r) /\ r[1].op = "unlock" /\ r[1].k = "tcp"
    <2>1. 1 \in 1..Len(z) /\ 1 + 1 = 2
      BY <1>2
    <2>2. top.x # <<>> => 1 < Len(z) /\ z[2].op = "unlock" /\ z[2].k = "tcp"
      BY <1>2, <1>6, <2>1 DEF Shaped
    <2>3. 1 < Len(z) => 1 \in 1..Len(z) - 1 /\ 1 \in 1..Len(r)
      BY <1>2, <1>5
    <2> QED
      BY <1>5, <2>1, <2>2, <2>3
  <1>8. Waiting(z) = IF top.x = <<>> THEN <<>> ELSE <<top.x>>
    BY <1>2 DEF Waiting
  <1>9. CASE mSendQueue = <<>> /\ top.x = <<>>
    <2> DEFINE fs == <<F("setPoll", "tcp", "In")>>
               s == Strip(fs \o r)
    <2>1. Set(t, s)
      BY <1>1, <1>9 DEF TrySendQueue, Go, Set, Inv, StacksTyped
    <2>2. Calm(fs)
      BY One DEF Special, Sends
    <2> HIDE DEF fs
    <2>3. Good(fs \o r) /\ (Mutexed(fs \o r) => Mutexed(z)) /\ IsSeq(fs \o r)
      BY <1>4, <2>2, ConcatGood, ConcatMutexed DEF Good, Calm
    <2>4. Good(s) /\ (Mutexed(s) => Mutexed(z))
      BY <2>3, StripGood
    <2> HIDE DEF s
    <2> QED
      BY <1>8, <1>9, <2>1, <2>4, UnchangedAside, OrdinaryStep
  <1>10. ASSUME NEW s, Set(t, s), IsSeq(s), Shaped(s), \A i \in 1..Len(s) : FrameOK(s[i]) /\ s[i].op # "openNow",
                Mutexed(s) => Mutexed(z), Waiting(s) = Waiting(z), s # <<>>,
                s[1].op = "trySendFront" => mSendQueue # <<>> /\ s[1].x = mSendQueue[1],
                s[1].op = "trySend" => mSendQueue = <<>>
         PROVE  Inv'
    <2>1. DOMAIN stack' = Threads /\ stack'[t] = s /\ \A u \in Threads \ {t} : stack'[u] = stack[u]
      BY <1>10, SetIs
    <2>2. QueueKnown'
      BY <1>1, <1>10, <2>1 DEF Inv, QueueKnown
    <2>3. \A u \in Threads : Waiting(stack'[u]) = Waiting(stack[u])
      BY <1>10, <2>1
    <2>4. InOrder'
      BY <1>1, <2>3 DEF Inv, InOrder
    <2>5. DataTyped'
      BY <1>1 DEF Inv, DataTyped
    <2> QED
      BY <1>1, <1>10, <2>2, <2>4, <2>5, AnyStep DEF StateKept
  <1>11. CASE mSendQueue # <<>>
    <2> DEFINE front == F("trySendFront", "tcp", Head(mSendQueue))
               s == <<front, top>> \o r
    <2>1. stack' = [stack EXCEPT ![t] = Strip(s)]
      BY <1>1, <1>11 DEF TrySendQueue, Go, Inv, StacksTyped
    <2>2. Head(mSendQueue) = mSendQueue[1] /\ IsSeq(mSendQueue[1])
      BY <1>11, TailIs DEF Inv, DataTyped
    <2>3. front.op = "trySendFront" /\ front.x = mSendQueue[1] /\ FrameOK(front)
      BY <2>2 DEF F, FrameOK, Sends
    <2> HIDE DEF front, r, z, top
    <2>4. /\ IsSeq(s) /\ Len(s) \in Nat /\ Len(s) >= 2 /\ s # <<>> /\ s[1] = front /\ s[2] = top
          /\ Len(r) \in Nat /\ Len(s) = Len(r) + 2 /\ \A i \in 1..Len(r) : s[i + 2] = r[i]
          /\ \A i \in 1..Len(s) : i = 1 \/ i = 2 \/ (i - 2 \in 1..Len(r) /\ s[i] = r[i - 2])
          /\ Mutexed(s) => \/ front.op = "unlock" /\ front.k = "tcp"
                           \/ top.op = "unlock" /\ top.k = "tcp"
                           \/ Mutexed(r)
      BY <1>4, PushTwo
    <2> HIDE DEF s
    <2>5. \A i \in 1..Len(s) : i = 1 \/ i = 2 \/ Ordinary(s[i])
      BY <1>4, <2>4 DEF Good
    <2>6. \A i \in 1..Len(s) : FrameOK(s[i]) /\ s[i].op # "openNow"
      BY <1>2, <2>3, <2>4, <2>5 DEF Ordinary
    <2>7. Mutexed(s) => Mutexed(z)
      BY <1>2, <1>4, <2>3, <2>4
    <2>8. Strip(s) = s
      BY <2>3, <2>4, StripKeeps DEF Markers
    <2>9. Waiting(s) = Waiting(z)
      BY <1>2, <1>8, <2>3, <2>4 DEF Waiting
    <2>10. Shaped(s)
      <3>1. ASSUME NEW i \in 1..Len(s), i # 1, i # 2 PROVE s[i].op \notin Sends
        BY <2>5, <3>1 DEF Ordinary
      <3>2. top.x # <<>> => 2 < Len(s) /\ s[2 + 1].op = "unlock" /\ s[2 + 1].k = "tcp"
        <4>1. 1 + 2 = 2 + 1
          OBVIOUS
        <4> QED
          BY <1>7, <2>4, <4>1
      <3>3. \A i \in 1..Len(s) :
               s[i].op \in Sends => i = 1 \/ (i = 2 /\ s[1].op = "trySendFront" /\ s[2].op = "trySendQueue")
        BY <1>2, <2>3, <2>4, <3>1
      <3>4. \A i \in 1..Len(s) : s[i].op \in {"trySendQueue", "trySend"} => i = 2
        BY <2>3, <2>4, <3>1 DEF Sends
      <3> QED
        BY <1>2, <2>3, <2>4, <3>2, <3>3, <3>4 DEF Shaped
    <2>11. Set(t, s)
      BY <2>1, <2>8 DEF Set
    <2> QED
      BY <1>10, <1>11, <2>3, <2>4, <2>6, <2>7, <2>9, <2>10, <2>11
  <1>12. CASE mSendQueue = <<>> /\ top.x # <<>>
    <2> DEFINE try == F("trySend", "tcp", top.x)
               s == <<try>> \o r
    <2>1. stack' = [stack EXCEPT ![t] = Strip(s)]
      BY <1>1, <1>12 DEF TrySendQueue, Go, Inv, StacksTyped
    <2>2. try.op = "trySend" /\ try.x = top.x /\ FrameOK(try)
      BY <1>3 DEF F, FrameOK, Sends
    <2> HIDE DEF try, r, z, top
    <2>3. /\ IsSeq(s) /\ Len(s) \in Nat /\ Len(s) >= 1 /\ s # <<>> /\ s[1] = try
          /\ Len(r) \in Nat /\ Len(s) = Len(r) + 1
          /\ \A i \in 1..Len(s) : i = 1 \/ Ordinary(s[i])
          /\ \A i \in 1..Len(r) : s[i + 1] = r[i]
          /\ Mutexed(s) => (try.op = "unlock" /\ try.k = "tcp") \/ Mutexed(r)
      BY <1>4, PushOne
    <2> HIDE DEF s
    <2>4. \A i \in 1..Len(s) : FrameOK(s[i]) /\ s[i].op # "openNow"
      BY <2>2, <2>3 DEF Ordinary
    <2>5. Mutexed(s) => Mutexed(z)
      BY <1>4, <2>2, <2>3
    <2>6. Strip(s) = s
      BY <2>2, <2>3, StripKeeps DEF Markers
    <2>7. Waiting(s) = Waiting(z)
      BY <1>8, <1>12, <2>2, <2>3 DEF Waiting
    <2>8. Shaped(s)
      <3>1. ASSUME NEW i \in 1..Len(s), i # 1 PROVE s[i].op \notin Sends
        BY <2>3, <3>1 DEF Ordinary
      <3>2. 1 < Len(s) /\ s[1 + 1].op = "unlock" /\ s[1 + 1].k = "tcp"
        BY <1>7, <1>12, <2>3
      <3>3. \A i \in 1..Len(s) : s[i].op \in Sends => i = 1
        BY <3>1
      <3> QED
        BY <1>12, <2>2, <2>3, <3>2, <3>3 DEF Shaped, Sends
    <2>9. Set(t, s)
      BY <2>1, <2>6 DEF Set
    <2> QED
      BY <1>10, <1>12, <2>2, <2>3, <2>4, <2>5, <2>7, <2>8, <2>9
  <1> QED
    BY <1>9, <1>11, <1>12

\* process() begins, on the poll thread.
LEMMA PollProcessKeeps == ASSUME Inv, NEW t \in Threads, PollProcess(t) PROVE Inv'
  <1> DEFINE first == {<<F("read", "tcp", <<>>)>>, <<F("recv", "tcp", <<>>), F("setPoll", "tcp", "In")>>,
                       <<F("gone", "tcp", <<>>)>>}
             tries == F("trySendQueue", "tcp", <<>>)
             ends == <<F("processEnd", "tcp", <<>>), F("release", "tcp", <<>>)>>
  <1>1. Kept /\ StateKept /\ stack[t] = <<>>
    BY DEF PollProcess, Kept, StateKept, sending, ghosts, ws
  <1>2. \/ Begin(t, <<>>) \/ \E f \in first : Begin(t, f \o ends)
        \/ Begin(t, <<tries>> \o ends)
    BY DEF PollProcess
  <1>3. Calm(ends)
    BY Two DEF Special, Sends
  <1>4. \A f \in first : Calm(f)
    BY One, Two DEF Special, Sends
  <1>5. tries.op = "trySendQueue" /\ tries.x = <<>> /\ FrameOK(tries)
    BY EmptyIs DEF F, FrameOK, Sends
  <1> HIDE DEF first, tries, ends
  <1>6. \A f \in first : Calm(f \o ends)
    BY <1>3, <1>4, ConcatCalm
  <1>8. UNCHANGED <<wire, mSendQueue, handed, raced, broken>>
    BY DEF PollProcess, sending, ghosts
  <1>7. CASE Begin(t, <<tries>> \o ends)
    <2> DEFINE s == <<tries>> \o ends
    <2>1. Set(t, s)
      BY <1>7 DEF Begin, Set
    <2>2. /\ IsSeq(s) /\ Len(s) \in Nat /\ Len(s) >= 1 /\ s # <<>> /\ s[1] = tries
          /\ \A i \in 1..Len(s) : i = 1 \/ Ordinary(s[i])
          /\ Mutexed(s) => (tries.op = "unlock" /\ tries.k = "tcp") \/ Mutexed(ends)
      BY <1>3, PushOne DEF Calm
    <2> HIDE DEF s
    <2>3. ~Mutexed(s)
      BY <1>3, <1>5, <2>2 DEF Calm
    <2>4. \A i \in 1..Len(s) : FrameOK(s[i]) /\ s[i].op # "openNow"
      BY <1>5, <2>2 DEF Ordinary
    <2>5. Shaped(s)
      <3>1. \A i \in 1..Len(s) : s[i].op \in Sends => i = 1
        BY <2>2 DEF Ordinary
      <3> QED
        BY <1>5, <2>2, <3>1 DEF Shaped, Sends
    <2>6. DOMAIN stack' = Threads /\ stack'[t] = s /\ \A u \in Threads \ {t} : stack'[u] = stack[u]
      BY <2>1, SetIs
    <2>7. QueueKnown'
      BY <1>1, <1>5, <2>2, <2>6 DEF Inv, QueueKnown, Kept
    <2>8. \A u \in Threads : Waiting(stack'[u]) = Waiting(stack[u])
      <3>1. Waiting(s) = <<>> /\ Waiting(stack[t]) = <<>>
        BY <1>1, <1>5, <2>2 DEF Waiting
      <3> QED
        BY <2>6, <3>1
    <2>9. InOrder'
      BY <1>8, <2>8 DEF Inv, InOrder
    <2>10. DataTyped'
      BY <1>1 DEF Inv, DataTyped, Kept
    <2> QED
      BY <1>1, <2>1, <2>2, <2>3, <2>4, <2>5, <2>7, <2>9, <2>10, AnyStep DEF Kept
  <1> QED
    BY <1>1, <1>2, <1>6, <1>7, NoneCalm, BeginCalm

\* trySendMessage() fails, and the exception leaves the send.
LEMMA TrySendFailsKeeps ==
    ASSUME Inv, NEW t \in Threads, stack[t] # <<>>, raced' = (raced \/ Races(t)),
           broken' = TRUE, Raise(t), UNCHANGED <<plan, wire, mSendQueue, handed, state, overtaken>>
    PROVE  Inv'
  <1>1. PICK s : Set(t, s) /\ Good(s) /\ (Mutexed(s) => Mutexed(stack[t]))
    BY RaiseIs
  <1>2. /\ Shaped(s)
        /\ \A i \in 1..Len(s) : s[i].op \notin Sends \cup {"openNow"} /\ FrameOK(s[i])
        /\ s # <<>> => s[1].op \notin Sends \cup {"openNow"}
    BY <1>1, GoodIs
  <1>3. DOMAIN stack' = Threads /\ stack'[t] = s /\ \A u \in Threads \ {t} : stack'[u] = stack[u]
    BY <1>1, SetIs
  <1>4. DataTyped'
    BY DEF Inv, DataTyped
  <1>5. QueueKnown'
    <2> SUFFICES ASSUME ~raced', NEW u \in Threads, stack'[u] # <<>>
                 PROVE  stack'[u][1].op \notin Sends
      BY DEF QueueKnown, Sends
    <2>1. CASE u = t
      BY <1>2, <1>3, <2>1
    <2>2. CASE u # t
      BY <1>3, <2>2, RacesIs
    <2> QED
      BY <2>1, <2>2
  <1>6. InOrder'
    BY SentInOrder DEF InOrder
  <1> QED
    BY <1>1, <1>2, <1>4, <1>5, <1>6, AnyStep DEF StateKept, Good

\* Others that do not send have nothing that waits.
LEMMA OthersQuiet ==
    ASSUME Inv, NEW t \in Threads, raced' = (raced \/ Races(t)), ~raced'
    PROVE  \A u \in Threads \ {t} : Waiting(stack[u]) = <<>>
  BY RacesIs, NotWaiting

\* trySendMessage() of the message that comes after the queue.
LEMMA TrySendLastKeeps ==
    ASSUME Inv, NEW t \in Threads, At(t, "trySend"), raced' = (raced \/ Races(t)), ~broken,
           NEW n \in Takes(Top(t).x), Put(Top(t).x, n),
           mSendQueue' = mSendQueue \o (IF ~Full(Top(t).x, n) THEN <<>> ELSE <<Rest(Top(t).x, n)>>),
           NEW fs, Calm(fs), Go(t, fs),
           UNCHANGED <<plan, handed, broken, state, overtaken>>
    PROVE  Inv'
  <1> DEFINE m == Top(t).x
             s == Strip(fs \o Tail(stack[t]))
             kept == IF ~Full(m, n) THEN <<>> ELSE <<Rest(m, n)>>
  <1>0. Set(t, s)
    BY DEF Go, Set, Inv, StacksTyped
  <1>1. IsSeq(m) /\ stack[t] # <<>> /\ stack[t][1].op = "trySend" /\ stack[t][1].x = m
    BY AtIs DEF FrameOK, Sends
  <1>2. /\ n \in 0..Len(m) /\ Len(m) \in Nat
        /\ IsSeq(SubSeq(m, 1, n)) /\ IsSeq(Rest(m, n))
        /\ Full(m, n) \/ n = Len(m)
        /\ n = Len(m) => ~Full(m, n)
    BY <1>1, TakesIs
  <1>3. Good(Tail(stack[t])) /\ (Mutexed(Tail(stack[t])) => Mutexed(stack[t]))
    BY <1>1, UnderIs
  <1>4. IsSeq(fs) /\ IsSeq(Tail(stack[t])) /\ Good(fs) /\ ~Mutexed(fs)
    BY <1>3 DEF Calm, Good
  <1>5. Good(fs \o Tail(stack[t])) /\ IsSeq(fs \o Tail(stack[t]))
        /\ (Mutexed(fs \o Tail(stack[t])) => Mutexed(stack[t]))
    BY <1>3, <1>4, ConcatGood, ConcatMutexed, ConcatSeq
  <1>6. Good(s) /\ (Mutexed(s) => Mutexed(stack[t]))
    BY <1>5, StripGood
  <1>7. wire' = wire \o SubSeq(m, 1, n) /\ mSendQueue' = mSendQueue \o kept
    BY DEF Put
  <1>70. stack[t][1].x # <<>>
    BY <1>1 DEF Inv, SendShape, Shaped
  <1>71. Waiting(stack[t]) = <<m>>
    BY <1>1, <1>70 DEF Waiting
  <1> HIDE DEF s, m
  <1>8. /\ Shaped(s) /\ Waiting(s) = <<>>
        /\ \A i \in 1..Len(s) : s[i].op \notin Sends \cup {"openNow"} /\ FrameOK(s[i])
        /\ s # <<>> => s[1].op \notin Sends \cup {"openNow"}
    BY <1>6, GoodIs
  <1>9. DOMAIN stack' = Threads /\ stack'[t] = s /\ \A u \in Threads \ {t} : stack'[u] = stack[u]
    BY <1>0, SetIs
  <1>10. IsSeq(kept) /\ \A i \in 1..Len(kept) : IsSeq(kept[i])
    <2>1. CASE Full(m, n)
      <3> DEFINE x == Rest(m, n)
      <3>1. kept = <<x>> /\ IsSeq(x)
        BY <1>2, <2>1
      <3> HIDE DEF x, kept
      <3>2. IsSeq(<<x>>) /\ Len(<<x>>) = 1 /\ <<x>>[1] = x
        BY OneIs
      <3> QED
        BY <3>1, <3>2
    <2>2. CASE ~Full(m, n)
      BY <2>2, EmptyIs
    <2> QED
      BY <2>1, <2>2
  <1>11. IsSeq(wire) /\ IsSeq(handed) /\ IsSeq(mSendQueue) /\ \A i \in 1..Len(mSendQueue) : IsSeq(mSendQueue[i])
    BY DEF Inv, DataTyped
  <1> HIDE DEF kept
  <1>12. DataTyped'
    BY <1>2, <1>7, <1>10, <1>11, SendsTyped
  <1>13. QueueKnown'
    <2> SUFFICES ASSUME ~raced', NEW u \in Threads, stack'[u] # <<>>
                 PROVE  stack'[u][1].op \notin Sends
      BY DEF QueueKnown, Sends
    <2>1. CASE u = t
      BY <1>8, <1>9, <2>1
    <2>2. CASE u # t
      BY <1>9, <2>2, RacesIs
    <2> QED
      BY <2>1, <2>2
  <1>15. InOrder'
    <2>1. CASE raced'
      BY <2>1 DEF InOrder
    <2>2. CASE ~raced'
      <3>0. ~raced /\ \A u \in Threads \ {t} : Waiting(stack[u]) = <<>>
        BY <2>2, OthersQuiet
      <3>1. mSendQueue = <<>>
        BY <1>1, <3>0 DEF Inv, QueueKnown
      <3>2. Slices(wire, <<m>>, handed)
        <4>1. Slices(wire, mSendQueue \o <<m>>, handed)
          BY <1>71, <3>0, Ordered
        <4>2. <<>> \o <<m>> = <<m>>
          BY OneIs, ConcatEmpty
        <4> QED
          BY <3>1, <4>1, <4>2
      <3>3. <<m>> \o <<>> = <<m>> /\ IsSeq(<<>>)
        BY OneIs, ConcatEmpty, EmptyIs
      <3> DEFINE x == SubSeq(m, n + 1, Len(m))
      <3>5. /\ Slices(wire \o SubSeq(m, 1, n), <<x>> \o <<>>, handed)
            /\ n = Len(m) => Slices(wire \o SubSeq(m, 1, n), <<>>, handed)
        BY <1>1, <1>2, <1>11, <3>2, <3>3, SlicesSome
      <3>6. <<x>> \o <<>> = <<x>> /\ <<>> \o kept = kept
        BY <1>10, OneIs, ConcatEmpty
      <3>7. Slices(wire', mSendQueue', handed)
        BY <1>2, <1>7, <3>1, <3>5, <3>6 DEF Rest, kept
      <3>70. mSendQueue' \o <<>> = mSendQueue'
        BY <1>7, <1>10, <3>1, <3>6, ConcatEmpty
      <3>8. Slices(wire', mSendQueue' \o Waiting(stack'[t]), handed')
        BY <1>8, <1>9, <3>7, <3>70
      <3>9. \A u \in Threads \ {t} : Waiting(stack'[u]) = <<>>
        BY <1>9, <3>0
      <3> QED
        BY <3>8, <3>9 DEF InOrder
    <2> QED
      BY <2>1, <2>2
  <1> QED
    BY <1>0, <1>6, <1>8, <1>12, <1>13, <1>15, AnyStep DEF StateKept, Good

\* trySendMessage() of the first message of the queue.
LEMMA TrySendFrontKeeps ==
    ASSUME Inv, NEW t \in Threads, At(t, "trySendFront"), raced' = (raced \/ Races(t)), ~broken,
           NEW n \in Takes(Top(t).x), Put(Top(t).x, n),
           NEW after, after = stack[t][2].x,
           NEW queue, queue = IF mSendQueue # <<>> THEN Tail(mSendQueue) ELSE mSendQueue,
           NEW kept, kept = IF ~Full(Top(t).x, n) \/ mSendQueue = <<>> THEN <<>> ELSE <<Rest(Top(t).x, n)>>,
           mSendQueue' = IF ~Full(Top(t).x, n) THEN queue
                         ELSE kept \o queue \o (IF after = <<>> THEN <<>> ELSE <<after>>),
           NEW poll, Calm(poll),
           IF Full(Top(t).x, n) THEN Begin(t, Strip(poll \o Tail(Tail(stack[t])))) ELSE Return(t),
           UNCHANGED <<plan, handed, broken, state, overtaken>>
    PROVE  Inv'
  <1> DEFINE m == Top(t).x
             z == stack[t]
             wait == IF after = <<>> THEN <<>> ELSE <<after>>
  <1>1. IsSeq(m) /\ IsSeq(z) /\ z # <<>> /\ z[1].op = "trySendFront" /\ z[1].x = m
    BY AtIs DEF FrameOK, Sends
  <1>2. /\ n \in 0..Len(m) /\ Len(m) \in Nat
        /\ IsSeq(SubSeq(m, 1, n)) /\ IsSeq(Rest(m, n))
        /\ Full(m, n) \/ n = Len(m)
        /\ n = Len(m) => ~Full(m, n)
    BY <1>1, TakesIs
  <1>3. Shaped(z) /\ \A i \in 1..Len(z) : FrameOK(z[i]) /\ (z[i].op = "openNow" => i = 1)
    BY DEF Inv, SendShape, StacksTyped, OpensOnTop
  <1>4. Len(z) \in Nat /\ Len(z) >= 2 /\ z[2].op = "trySendQueue" /\ 2 \in 1..Len(z)
    BY <1>1, <1>3, IsLen DEF Shaped
  <1>5. IsSeq(after)
    BY <1>3, <1>4 DEF FrameOK, Sends
  <1>6. wire' = wire \o SubSeq(m, 1, n)
    BY DEF Put
  <1>7. IsSeq(wire) /\ IsSeq(handed) /\ IsSeq(mSendQueue) /\ \A i \in 1..Len(mSendQueue) : IsSeq(mSendQueue[i])
    BY DEF Inv, DataTyped
  <1>8. Waiting(z) = wait
    BY <1>1 DEF Waiting
  <1> HIDE DEF m
  <1>9. IsSeq(queue) /\ \A i \in 1..Len(queue) : IsSeq(queue[i])
    <2>1. CASE mSendQueue = <<>>
      BY <1>7, <2>1
    <2>2. CASE mSendQueue # <<>>
      <3>1. /\ IsSeq(Tail(mSendQueue)) /\ Len(mSendQueue) \in Nat \ {0}
            /\ Len(Tail(mSendQueue)) = Len(mSendQueue) - 1
            /\ \A i \in 1..Len(mSendQueue) - 1 : Tail(mSendQueue)[i] = mSendQueue[i + 1]
        BY <1>7, <2>2, TailIs
      <3>2. \A i \in 1..Len(Tail(mSendQueue)) : i + 1 \in 1..Len(mSendQueue) /\ Tail(mSendQueue)[i] = mSendQueue[i + 1]
        BY <3>1
      <3> QED
        BY <1>7, <2>2, <3>1, <3>2
    <2> QED
      BY <2>1, <2>2
  <1>10. ASSUME NEW x, IsSeq(x) PROVE IsSeq(<<x>>) /\ \A i \in 1..Len(<<x>>) : IsSeq(<<x>>[i])
    <2>1. IsSeq(<<x>>) /\ Len(<<x>>) = 1 /\ <<x>>[1] = x
      BY OneIs
    <2> QED
      BY <1>10, <2>1
  <1>11. IsSeq(kept) /\ \A i \in 1..Len(kept) : IsSeq(kept[i])
    <2>1. CASE kept = <<>>
      BY <2>1, EmptyIs
    <2>2. CASE kept = <<Rest(m, n)>>
      BY <1>2, <1>10, <2>2
    <2> QED
      BY <2>1, <2>2 DEF m
  <1>12. IsSeq(wait) /\ \A i \in 1..Len(wait) : IsSeq(wait[i])
    <2>1. CASE after = <<>>
      BY <2>1, EmptyIs
    <2>2. CASE after # <<>>
      BY <1>5, <1>10, <2>2
    <2> QED
      BY <2>1, <2>2
  <1> HIDE DEF wait
  <1>13. mSendQueue' = IF ~Full(m, n) THEN queue ELSE kept \o queue \o wait
    BY DEF m, wait
  <1>14. IsSeq(mSendQueue') /\ \A i \in 1..Len(mSendQueue') : IsSeq(mSendQueue'[i])
    <2>1. IsSeq(kept \o queue) /\ \A i \in 1..Len(kept \o queue) : IsSeq((kept \o queue)[i])
      BY <1>9, <1>11, ConcatSeqs
    <2>2. IsSeq(kept \o queue \o wait) /\ \A i \in 1..Len(kept \o queue \o wait) : IsSeq((kept \o queue \o wait)[i])
      BY <1>12, <2>1, ConcatSeqs
    <2> QED
      BY <1>9, <1>13, <2>2
  <1>15. DataTyped'
    <2> DEFINE x == SubSeq(m, 1, n)
    <2>1. IsSeq(x) /\ wire' = wire \o x
      BY <1>2, <1>6
    <2> HIDE DEF x
    <2>2. IsSeq(wire')
      BY <1>7, <2>1, ConcatSeq
    <2> QED
      BY <1>7, <1>14, <2>2 DEF DataTyped
  \* What the order of the cells asks for, when no other thread sends.
  <1>16. ASSUME ~raced'
         PROVE  /\ ~Full(m, n) => Slices(wire', mSendQueue' \o wait, handed)
                /\ Full(m, n) => Slices(wire', mSendQueue', handed)
    <2>0. ~raced /\ \A u \in Threads \ {t} : Waiting(stack[u]) = <<>>
      BY <1>16, OthersQuiet
    <2>1. mSendQueue # <<>> /\ m = mSendQueue[1]
      BY <1>1, <2>0 DEF Inv, QueueKnown
    <2>2. Slices(wire, mSendQueue \o wait, handed)
      BY <1>8, <2>0, Ordered
    <2>3. mSendQueue = <<m>> \o queue
      <3>1. mSendQueue = <<mSendQueue[1]>> \o Tail(mSendQueue)
        BY <1>7, <2>1, HeadAndTail
      <3> QED
        BY <2>1, <3>1
    <2> DEFINE x == SubSeq(m, n + 1, Len(m))
    <2>4. /\ Slices(wire \o SubSeq(m, 1, n), (<<x>> \o queue) \o wait, handed)
          /\ n = Len(m) => Slices(wire \o SubSeq(m, 1, n), queue \o wait, handed)
      BY <1>1, <1>2, <1>7, <1>9, <1>12, <2>2, <2>3, SlicesFront
    <2>5. kept = <<x>> \/ ~Full(m, n)
      BY <2>1 DEF Rest, m
    <2> HIDE DEF x
    <2>6. Full(m, n) => mSendQueue' = (<<x>> \o queue) \o wait
      BY <1>13, <2>5
    <2> QED
      BY <1>2, <1>6, <1>13, <2>4, <2>6
  <1>17. ASSUME NEW s, Set(t, s), IsSeq(s), Shaped(s), \A i \in 1..Len(s) : FrameOK(s[i]) /\ s[i].op # "openNow",
                Mutexed(s) => Mutexed(z), s # <<>> => s[1].op \notin {"trySendFront", "trySend"},
                Waiting(s) = IF Full(m, n) THEN <<>> ELSE wait
         PROVE  Inv'
    <2>1. DOMAIN stack' = Threads /\ stack'[t] = s /\ \A u \in Threads \ {t} : stack'[u] = stack[u]
      BY <1>17, SetIs
    <2>2. QueueKnown'
      <3> SUFFICES ASSUME ~raced', NEW u \in Threads, stack'[u] # <<>>
                   PROVE  stack'[u][1].op \notin {"trySendFront", "trySend"}
        BY DEF QueueKnown
      <3>1. CASE u = t
        BY <1>17, <2>1, <3>1
      <3>2. CASE u # t
        BY <2>1, <3>2, RacesIs DEF Sends
      <3> QED
        BY <3>1, <3>2
    <2>3. InOrder'
      <3>1. CASE raced'
        BY <3>1 DEF InOrder
      <3>2. CASE ~raced'
        <4>1. \A u \in Threads \ {t} : Waiting(stack'[u]) = <<>>
          BY <2>1, <3>2, OthersQuiet
        <4>2. mSendQueue' \o <<>> = mSendQueue'
          BY <1>14, ConcatEmpty
        <4>3. Slices(wire', mSendQueue' \o Waiting(stack'[t]), handed')
          BY <1>16, <1>17, <2>1, <3>2, <4>2
        <4> QED
          BY <4>1, <4>3 DEF InOrder
      <3> QED
        BY <3>1, <3>2
    <2> QED
      BY <1>15, <1>17, <2>2, <2>3, AnyStep DEF StateKept
  <1> DEFINE r == Tail(z)
  <1>18. /\ IsSeq(r) /\ Len(r) = Len(z) - 1 /\ Len(r) \in Nat \ {0} /\ r # <<>>
         /\ \A i \in 1..Len(z) - 1 : r[i] = z[i + 1]
    <2>1. IsSeq(r) /\ Len(r) = Len(z) - 1 /\ \A i \in 1..Len(z) - 1 : r[i] = z[i + 1]
      BY <1>1, TailIs
    <2> HIDE DEF r
    <2>2. Len(r) \in Nat \ {0} /\ Len(r) > 0
      BY <1>4, <2>1
    <2>3. r # <<>>
      BY <2>1, <2>2, NonEmptyIs
    <2> QED
      BY <2>1, <2>2, <2>3
  <1>19. \A i \in 1..Len(r) : i + 1 \in 1..Len(z) /\ i + 1 # 1 /\ r[i] = z[i + 1]
    BY <1>4, <1>18
  <1>20. r[1] = z[2] /\ r[1].op = "trySendQueue" /\ r[1].x = after
    <2>1. 1 \in 1..Len(z) - 1 /\ 1 + 1 = 2
      BY <1>4
    <2> QED
      BY <1>4, <1>18, <2>1
  <1>21. Mutexed(r) => Mutexed(z)
    BY <1>1, TailGood
  <1>22. \A i \in 1..Len(r) : FrameOK(r[i]) /\ r[i].op # "openNow" /\ (r[i].op \in Sends => i = 1)
    <2> SUFFICES ASSUME NEW i \in 1..Len(r)
                 PROVE  FrameOK(r[i]) /\ r[i].op # "openNow" /\ (r[i].op \in Sends => i = 1)
      OBVIOUS
    <2>1. i + 1 \in 1..Len(z) /\ i + 1 # 1 /\ r[i] = z[i + 1]
      BY <1>19
    <2>2. z[i + 1].op \in Sends => i + 1 = 1 \/ i + 1 = 2
      BY <1>3, <2>1 DEF Shaped
    <2> QED
      BY <1>3, <2>1, <2>2
  <1> HIDE DEF r
  <1>23. CASE ~Full(m, n)
    <2>1. Set(t, r)
      <3>1. Return(t)
        BY <1>23 DEF m
      <3>2. <<>> \o r = r
        BY <1>18, ConcatEmpty
      <3>3. Strip(r) = r
        BY <1>18, <1>20, StripKeeps DEF Markers
      <3>4. stack' = [stack EXCEPT ![t] = Strip(<<>> \o r)]
        BY <3>1 DEF Return, Go, r, Inv, StacksTyped
      <3> QED
        BY <3>2, <3>3, <3>4 DEF Set
    <2>2. Shaped(r)
      <3>1. after # <<>> => 1 < Len(r) /\ r[1 + 1].op = "unlock" /\ r[1 + 1].k = "tcp"
        <4>1. after # <<>> => 2 < Len(z) /\ z[2 + 1].op = "unlock" /\ z[2 + 1].k = "tcp"
          BY <1>3, <1>4 DEF Shaped
        <4>2. 2 < Len(z) => 1 < Len(r) /\ r[1 + 1] = z[2 + 1]
          <5>1. 2 < Len(z) => 2 \in 1..Len(z) - 1 /\ 1 < Len(r)
            BY <1>4, <1>18
          <5>2. 1 + 1 = 2
            OBVIOUS
          <5> QED
            BY <1>18, <5>1, <5>2
        <4> QED
          BY <4>1, <4>2
      <3> QED
        BY <1>20, <1>22, <3>1 DEF Shaped, Sends
    <2>3. Waiting(r) = wait
      BY <1>18, <1>20 DEF Waiting, wait
    <2> QED
      BY <1>17, <1>18, <1>20, <1>21, <1>22, <1>23, <2>1, <2>2, <2>3
  <1>24. CASE Full(m, n)
    <2> DEFINE rr == Tail(r)
               s == Strip(Strip(poll \o rr))
    <2>1. Begin(t, Strip(poll \o rr))
      BY <1>24 DEF m, r
    <2>2. /\ IsSeq(rr) /\ Len(rr) = Len(r) - 1 /\ \A i \in 1..Len(r) - 1 : rr[i] = r[i + 1]
      BY <1>18, TailIs
    <2>3. Mutexed(rr) => Mutexed(r)
      BY <1>18, TailGood
    <2> HIDE DEF rr
    <2>4. Good(rr)
      <3> SUFFICES ASSUME NEW i \in 1..Len(rr) PROVE Ordinary(rr[i])
        BY <2>2 DEF Good
      <3>1. i + 1 \in 1..Len(r) /\ i + 1 # 1 /\ rr[i] = r[i + 1]
        BY <1>18, <2>2
      <3> QED
        BY <1>22, <3>1 DEF Ordinary
    <2> DEFINE u == Strip(poll \o rr)
    <2>5. Good(poll \o rr) /\ IsSeq(poll \o rr) /\ (Mutexed(poll \o rr) => Mutexed(z))
      BY <1>21, <2>2, <2>3, <2>4, ConcatGood, ConcatMutexed DEF Calm, Good
    <2>6. Good(u) /\ (Mutexed(u) => Mutexed(z))
      BY <2>5, StripGood
    <2>7. Set(t, u)
      BY <2>1 DEF Begin, Set
    <2> HIDE DEF u
    <2>8. /\ Shaped(u) /\ Waiting(u) = <<>>
          /\ \A i \in 1..Len(u) : u[i].op \notin Sends \cup {"openNow"} /\ FrameOK(u[i])
          /\ u # <<>> => u[1].op \notin Sends \cup {"openNow"}
      BY <2>6, GoodIs
    <2> QED
      BY <1>17, <1>24, <2>6, <2>7, <2>8 DEF Good, Sends
  <1> QED
    BY <1>23, <1>24

LEMMA TrySendMessageKeeps == ASSUME Inv, NEW t \in Threads, TrySendMessage(t) PROVE Inv'
  <1>1. /\ raced' = (raced \/ Races(t))
        /\ UNCHANGED <<plan, handed, state, overtaken>>
    BY DEF TrySendMessage, ws
  <1>2. CASE broken' = TRUE /\ Raise(t) /\ UNCHANGED <<wire, mSendQueue, stalls>>
    <2>1. stack[t] # <<>>
      BY DEF TrySendMessage, At
    <2> QED
      BY <1>1, <1>2, <2>1, TrySendFailsKeeps
  <1> DEFINE m == Top(t).x
             front == Top(t).op = "trySendFront"
             after == IF front THEN stack[t][2].x ELSE <<>>
             queue == IF front /\ mSendQueue # <<>> THEN Tail(mSendQueue) ELSE mSendQueue
             kept(n) == IF ~Full(m, n) \/ (front /\ mSendQueue = <<>>) THEN <<>> ELSE <<Rest(m, n)>>
             poll == IF front /\ after = <<>> THEN <<>> ELSE <<F("setPoll", "tcp", "Both")>>
             done == IF front THEN Tail(Tail(stack[t])) ELSE Tail(stack[t])
             Sent(n) ==
                   /\ Put(m, n)
                   /\ mSendQueue' = IF ~front THEN queue \o kept(n)
                                    ELSE IF ~Full(m, n) THEN queue
                                    ELSE kept(n) \o queue \o (IF after = <<>> THEN <<>> ELSE <<after>>)
                   /\ IF Full(m, n) THEN Begin(t, Strip(poll \o done)) ELSE Return(t)
  <1>3. ASSUME ~broken, UNCHANGED broken, NEW n \in Takes(m), Sent(n)
        PROVE  Inv'
    <2>1. Calm(<<F("setPoll", "tcp", "Both")>>)
      BY One DEF Special, Sends
    <2>2. CASE At(t, "trySendFront")
      <3>1. front
        BY <2>2 DEF At, Top
      <3>2. Calm(poll)
        BY <2>1, NoneCalm
      <3> HIDE DEF poll
      <3>3. after = stack[t][2].x /\ queue = (IF mSendQueue # <<>> THEN Tail(mSendQueue) ELSE mSendQueue)
            /\ kept(n) = (IF ~Full(m, n) \/ mSendQueue = <<>> THEN <<>> ELSE <<Rest(m, n)>>)
            /\ done = Tail(Tail(stack[t]))
        BY <3>1
      <3>4. /\ mSendQueue' = IF ~Full(m, n) THEN queue
                             ELSE kept(n) \o queue \o (IF after = <<>> THEN <<>> ELSE <<after>>)
            /\ IF Full(m, n) THEN Begin(t, Strip(poll \o Tail(Tail(stack[t])))) ELSE Return(t)
            /\ Put(m, n)
        BY <1>3, <3>1
      <3> HIDE DEF after, queue, kept, done, front
      <3> QED
        BY <1>1, <1>3, <2>2, <3>2, <3>3, <3>4, TrySendFrontKeeps
    <2>3. CASE At(t, "trySend")
      <3>1. ~front
        BY <2>3 DEF At, Top
      <3> DEFINE fs == IF Full(m, n) THEN <<F("setPoll", "tcp", "Both")>> ELSE <<>>
      <3>2. Calm(fs)
        BY <2>1, NoneCalm
      <3>3. Go(t, fs)
        BY <1>3, <3>1 DEF Return, Go, Begin, Inv, StacksTyped
      <3>4. Put(m, n) /\ mSendQueue' = mSendQueue \o (IF ~Full(m, n) THEN <<>> ELSE <<Rest(m, n)>>)
        BY <1>3, <3>1
      <3> HIDE DEF fs
      <3> QED
        BY <1>1, <1>3, <2>3, <3>2, <3>3, <3>4, TrySendLastKeeps
    <2> QED
      BY <2>2, <2>3 DEF TrySendMessage
  <1>4. CASE ~broken /\ UNCHANGED broken /\ \E n \in Takes(m) : Sent(n)
    BY <1>3, <1>4
  <1> QED
    BY <1>2, <1>4 DEF TrySendMessage

-----------------------------------------------------------------------------
\* The invariant holds at first, and every step keeps it.

\* The pool runs tasks of these kinds only.
Tasks == {"doRecv", "resolve", "attempt"}
TasksKnown == tasks \in Seq(Tasks)

LEMMA AppendTask == ASSUME TasksKnown, NEW task \in Tasks PROVE Append(tasks, task) \in Seq(Tasks)
  BY DEF TasksKnown

\* Every task of the pool is one of these.
LEMMA TasksKnownNext == ASSUME TasksKnown, [Next]_vars PROVE TasksKnown'
  <1>1. CASE UNCHANGED tasks
    BY <1>1 DEF TasksKnown
  <1>2. CASE \E task \in Tasks : tasks' = Append(tasks, task)
    BY <1>2, AppendTask DEF TasksKnown
  <1>3. "doRecv" \in Tasks /\ "resolve" \in Tasks /\ "attempt" \in Tasks
    BY DEF Tasks
  <1>4. ASSUME EnqueueRecv PROVE TasksKnown'
    BY <1>1, <1>2, <1>3, <1>4 DEF EnqueueRecv
  <1>5. CASE UNCHANGED vars
    BY <1>1, <1>5 DEF vars, pool
  <1>6. ASSUME NEW t \in Threads, Step(t) PROVE TasksKnown'
    <2>1. CASE Move(t) /\ UNCHANGED <<env, ghosts, ws, transports, io, layers, pool>>
      BY <1>1, <2>1 DEF pool
    <2>2. CASE \/ ChangeState(t) \/ Detach(t) \/ Release(t) \/ Destroyed(t) \/ Open(t) \/ Closing(t)
               \/ CloseTransports(t) \/ Outgoing(t) \/ ReceiveMessage(t) \/ OpenNow(t) \/ Timeout(t)
      BY <1>1, <2>2 DEF pool, ChangeState, Detach, Release, Destroyed, Open, Closing, CloseTransports,
                        Outgoing, ReceiveMessage, OpenNow, Timeout
    <2>3. CASE \/ Started(t) \/ SetTcpTransport(t) \/ InitProxyTransport(t) \/ InitTlsTransport(t)
               \/ InitWsTransport(t) \/ StartProxy(t) \/ StartWs(t) \/ AddPoll(t) \/ TcpClose(t)
      BY <1>1, <2>3 DEF pool, Started, SetTcpTransport, InitProxyTransport, InitTlsTransport,
                        InitWsTransport, InitTransport, StartProxy, StartWs, AddPoll, TcpClose
    <2>4. CASE StartTls(t)
      BY <1>1, <1>4, <2>4 DEF StartTls
    <2>5. CASE TlsStop(t)
      BY <1>4, <2>5 DEF TlsStop
    <2>6. CASE StartTcp(t)
      BY <1>1, <1>2, <1>3, <2>6 DEF StartTcp
    <2>7. CASE RunTask(t)
      <3>1. tasks # <<>> /\ tasks' = Tail(tasks)
        BY <2>7 DEF RunTask
      <3> QED
        BY <3>1 DEF TasksKnown
    <2>8. CASE Resolve(t)
      BY <1>1, <1>2, <1>3, <2>8 DEF Resolve
    <2>9. CASE Attempt(t)
      BY <1>1, <1>2, <1>3, <2>9 DEF Attempt
    <2>10. CASE PollAttempt(t)
      BY <1>1, <1>2, <1>3, <2>10 DEF PollAttempt
    <2>11. CASE \/ Send(t) \/ TrySendMessage(t) \/ PollProcess(t) \/ Process(t) \/ ProxyIncoming(t)
      BY <1>1, <2>11 DEF pool, Send, TrySendMessage, PollProcess, Process, ProxyIncoming
    <2>12. CASE TlsIncoming(t)
      BY <1>4, <2>12 DEF TlsIncoming
    <2>13. CASE \/ DoRecv(t) \/ Pull(t) \/ Shake(t) \/ ReadRecords(t) \/ WsIncoming(t) \/ RecvFrame(t)
                \/ AddOutstandingPing(t) \/ WsClose(t) \/ Accept(t) \/ StopServer(t)
      BY <1>1, <2>13 DEF pool, DoRecv, Pull, Shake, ReadRecords, WsIncoming, RecvFrame,
                         AddOutstandingPing, WsClose, Accept, StopServer
    <2> QED
      BY <1>6, <2>1, <2>2, <2>3, <2>4, <2>5, <2>6, <2>7, <2>8, <2>9, <2>10, <2>11, <2>12, <2>13 DEF Step
  <1> QED
    BY <1>5, <1>6 DEF Next

LEMMA InvInit == ASSUME Init PROVE Inv /\ TasksKnown
  <1>1. plan \in Plans /\ state = "Closed" /\ tasks = <<>> /\ wire = <<>> /\ handed = <<>> /\ mSendQueue = <<>>
    BY DEF Init
  <1>2. DOMAIN stack = Threads
    BY DEF Init
  <1>3. \A t \in Threads : \/ stack[t] = Body(plan.calls) /\ t = App
                           \/ stack[t] = <<F("accept", "tcp", <<>>)>>
                           \/ stack[t] = <<>>
    BY DEF Init
  <1>4. Calm(Body(plan.calls)) /\ Calm(<<F("accept", "tcp", <<>>)>>) /\ Calm(<<>>)
    BY <1>1, BodyCalm, One, NoneCalm DEF Special, Sends
  <1>5. ASSUME NEW t \in Threads
        PROVE  /\ Good(stack[t]) /\ ~Mutexed(stack[t]) /\ Shaped(stack[t]) /\ Waiting(stack[t]) = <<>>
               /\ IsSeq(stack[t])
               /\ \A i \in 1..Len(stack[t]) : stack[t][i].op \notin Sends \cup {"openNow"} /\ FrameOK(stack[t][i])
               /\ stack[t] # <<>> => stack[t][1].op \notin Sends
    <2>1. Calm(stack[t])
      BY <1>3, <1>4
    <2> QED
      BY <2>1, GoodIs DEF Calm, Good
  <1>6. StacksTyped /\ OpensOnTop /\ SendShape /\ OneMutex
    BY <1>2, <1>5 DEF StacksTyped, OpensOnTop, SendShape, OneMutex
  <1>7. QueueKnown
    BY <1>5 DEF QueueKnown, Sends
  <1>8. DataTyped
    BY <1>1, EmptyIs DEF DataTyped
  <1>9. InOrder
    <2>1. App \in Threads
      BY DEF Threads
    <2>2. <<>> \o <<>> = <<>>
      BY EmptyIs, ConcatEmpty
    <2>3. Slices(<<>>, <<>>, <<>>)
      BY EmptyIs, SlicesNone
    <2>4. Slices(wire, mSendQueue \o Waiting(stack[App]), handed)
      BY <1>1, <1>5, <2>1, <2>2, <2>3
    <2> QED
      BY <1>5, <2>1, <2>4 DEF InOrder
  <1>10. TasksKnown
    BY <1>1 DEF TasksKnown
  <1> QED
    BY <1>1, <1>6, <1>7, <1>8, <1>9, <1>10 DEF Inv

LEMMA InvStays == ASSUME Inv, UNCHANGED vars PROVE Inv'
  <1>1. UNCHANGED <<plan, stack, wire, handed, mSendQueue, state, overtaken, raced, broken>>
    BY DEF vars, env, net, ghosts, ws, io, sending
  <1>2. StacksTyped' /\ DataTyped' /\ OpensOnTop' /\ SendShape' /\ OneMutex' /\ QueueKnown'
    BY <1>1 DEF Inv, StacksTyped, DataTyped, OpensOnTop, SendShape, OneMutex, QueueKnown
  <1>3. InOrder'
    BY <1>1 DEF Inv, InOrder
  <1> QED
    BY <1>1, <1>2, <1>3 DEF Inv

LEMMA InvNext == ASSUME Inv, TasksKnown, [Next]_vars PROVE Inv'
  <1>1. CASE UNCHANGED vars
    BY <1>1, InvStays
  <1>2. ASSUME NEW t \in Threads, Step(t) PROVE Inv'
    <2>1. CASE Move(t) /\ UNCHANGED <<env, ghosts, ws, transports, io, layers, pool>>
      <3>1. UNCHANGED <<env, ghosts, ws, io>>
        BY <2>1
      <3> QED
        BY <2>1, <3>1, CallStateKeeps, RecvKeeps, ThrowKeeps, CloseKeeps, ForceCloseKeeps,
           EnqueueTeardownKeeps, TrySendQueueKeeps, LostKeeps, ShakenKeeps, PingKeeps DEF Move
    <2>2. CASE \/ ChangeState(t) \/ Detach(t) \/ Release(t) \/ Destroyed(t)
      BY <2>2, ChangeStateKeeps, DetachKeeps, ReleaseKeeps, DestroyedKeeps
    <2>3. CASE \/ Open(t) \/ Closing(t) \/ CloseTransports(t) \/ Outgoing(t) \/ ReceiveMessage(t)
               \/ OpenNow(t) \/ Timeout(t)
      BY <2>3, OpenKeeps, ClosingKeeps, CloseTransportsKeeps, OutgoingKeeps, ReceiveMessageKeeps,
         OpenNowKeeps, TimeoutKeeps
    <2>4. CASE \/ Started(t) \/ SetTcpTransport(t) \/ InitProxyTransport(t) \/ InitTlsTransport(t)
               \/ InitWsTransport(t)
      BY <2>4, StartedKeeps, SetTcpTransportKeeps, InitTransportKeeps
         DEF InitProxyTransport, InitTlsTransport, InitWsTransport
    <2>5. CASE \/ StartProxy(t) \/ StartTls(t) \/ StartWs(t) \/ StartTcp(t) \/ TlsStop(t)
      BY <2>5, StartProxyKeeps, StartTlsKeeps, StartWsKeeps, StartTcpKeeps, TlsStopKeeps
    <2>6. CASE RunTask(t)
      BY <2>6, RunTaskKeeps DEF TasksKnown, Tasks
    <2>7. CASE \/ Resolve(t) \/ Attempt(t) \/ AddPoll(t) \/ TcpClose(t) \/ PollAttempt(t)
      BY <2>7, ResolveKeeps, AttemptKeeps, AddPollKeeps, TcpCloseKeeps, PollAttemptKeeps
    <2>8. CASE \/ Send(t) \/ TrySendMessage(t) \/ PollProcess(t) \/ Process(t)
      BY <2>8, SendKeeps, TrySendMessageKeeps, PollProcessKeeps, ProcessKeeps
    <2>9. CASE \/ ProxyIncoming(t) \/ TlsIncoming(t) \/ DoRecv(t) \/ Pull(t) \/ Shake(t) \/ ReadRecords(t)
      BY <2>9, ProxyIncomingKeeps, TlsIncomingKeeps, DoRecvKeeps, PullKeeps, ShakeKeeps, ReadRecordsKeeps
    <2>10. CASE \/ WsIncoming(t) \/ RecvFrame(t) \/ AddOutstandingPing(t) \/ WsClose(t) \/ Accept(t)
                \/ StopServer(t)
      BY <2>10, WsIncomingKeeps, RecvFrameKeeps, AddOutstandingPingKeeps, WsCloseKeeps, AcceptKeeps,
         StopServerKeeps
    <2> QED
      BY <1>2, <2>1, <2>2, <2>3, <2>4, <2>5, <2>6, <2>7, <2>8, <2>9, <2>10 DEF Step
  <1> QED
    BY <1>1, <1>2 DEF Next

-----------------------------------------------------------------------------
\* The inductive invariant holds in every state of every behaviour.
THEOREM Invariance == Spec => [](Inv /\ TasksKnown)
  <1>1. Init => Inv /\ TasksKnown
    BY InvInit
  <1>2. Inv /\ TasksKnown /\ [Next]_vars => (Inv /\ TasksKnown)'
    BY InvNext, TasksKnownNext
  <1> QED
    BY <1>1, <1>2, PTL DEF Spec

\* Whatever the threads, the plan of the application and what the socket takes at
\* once: the socket is given the bytes in the order of the calls, and each message
\* whole, until process() empties the queue without the mutex (TcpTransport::send,
\* trySendQueue, trySendMessage).
THEOREM WritesInOrder == Spec => []WrittenInOrder
  <1>1. Inv => WrittenInOrder
    BY SentInOrder DEF WrittenInOrder
  <1> QED
    BY <1>1, Invariance, PTL

\* Only the callback of the WebSocket transport opens a WebSocket, and one that is
\* closing or closed only if it began to close after the callback had tested the state
\* (WebSocket::initWsTransport, close, closeTransports).
LEMMA Opens == ASSUME Inv, Next PROVE (state \in {"Closing", "Closed"} /\ state' = "Open") => overtaken
  <1> SUFFICES ASSUME state \in {"Closing", "Closed"}, state' = "Open" PROVE overtaken
    OBVIOUS
  <1>1. PICK t \in Threads : Step(t)
    BY DEF Next
  <1>2. state' # state
    OBVIOUS
  <1>3. CASE OpenNow(t)
    <2>1. At(t, "openNow")
      BY <1>3 DEF OpenNow
    <2>2. stack[t][1].op = "openNow" /\ 1 \in 1..Len(stack[t])
      BY <2>1, AtIs
    <2>3. state \in {"Connecting", "Open"} \/ overtaken
      BY <2>2 DEF Inv, OpensOnTop
    <2> QED
      BY <2>3
  <1>4. CASE \/ Move(t) /\ UNCHANGED <<env, ghosts, ws, transports, io, layers, pool>>
             \/ ChangeState(t) \/ Detach(t) \/ Release(t) \/ Destroyed(t) \/ Open(t) \/ Closing(t)
             \/ CloseTransports(t) \/ Outgoing(t) \/ ReceiveMessage(t) \/ Timeout(t)
    BY <1>2, <1>4 DEF ws, ChangeState, Detach, Release, Destroyed, Open, Closing, CloseTransports, Outgoing,
                      ReceiveMessage, Timeout
  <1>5. CASE \/ Started(t) \/ SetTcpTransport(t) \/ InitProxyTransport(t) \/ InitTlsTransport(t)
             \/ InitWsTransport(t) \/ StartProxy(t) \/ StartTls(t) \/ StartWs(t) \/ StartTcp(t) \/ TlsStop(t)
    BY <1>2, <1>5 DEF ws, Started, SetTcpTransport, InitProxyTransport, InitTlsTransport, InitWsTransport,
                      InitTransport, StartProxy, StartTls, StartWs, StartTcp, TlsStop, Register
  <1>6. CASE \/ RunTask(t) \/ Resolve(t) \/ Attempt(t) \/ AddPoll(t) \/ TcpClose(t) \/ PollAttempt(t)
             \/ Send(t) \/ TrySendMessage(t) \/ PollProcess(t) \/ Process(t) \/ ProxyIncoming(t)
    BY <1>2, <1>6 DEF ws, RunTask, Resolve, Attempt, AddPoll, TcpClose, PollAttempt, Send,
                      TrySendMessage, PollProcess, Process, ProxyIncoming
  <1>7. CASE \/ TlsIncoming(t) \/ DoRecv(t) \/ Pull(t) \/ Shake(t) \/ ReadRecords(t)
             \/ WsIncoming(t) \/ RecvFrame(t) \/ AddOutstandingPing(t) \/ WsClose(t)
             \/ Accept(t) \/ StopServer(t)
    BY <1>2, <1>7 DEF ws, TlsIncoming, DoRecv, Pull, Shake, ReadRecords, WsIncoming, RecvFrame,
                      AddOutstandingPing, WsClose, Accept, StopServer
  <1> QED
    BY <1>1, <1>3, <1>4, <1>5, <1>6, <1>7 DEF Step

\* A WebSocket that closes does not open any more, but in the one race.
THEOREM NeverReopens == Spec => NeverReopened
  <1>1. Inv /\ [Next]_vars => [(state \in {"Closing", "Closed"} /\ state' = "Open") => overtaken]_vars
    BY Opens
  <1> QED
    BY <1>1, Invariance, PTL DEF Spec, NeverReopened

=============================================================================
