------------------------ MODULE Transports_proofs -------------------------
(***************************************************************************)
(* Proofs about the two models of impl::SctpTransport and the one of       *)
(* impl::DtlsTransport, the transport below it.                            *)
(*                                                                         *)
(* SctpSend, for any set of messages and resets of any sizes, any send     *)
(* buffer, any number of threads of usrsctp and any nesting of sends in    *)
(* callbacks: items reach usrsctp once and in the order in which they were *)
(* accepted, an association is shut down only with an empty queue,         *)
(* mPendingFlushCount counts the flushes that are enqueued, and the        *)
(* buffered amounts are the sizes of what is queued or was lost.           *)
(*                                                                         *)
(* SctpGate, for any number of packets: the gate opens only after a write, *)
(* and handleWrite() loses no wakeup although the lower thread tests the   *)
(* flag before it locks.                                                   *)
(*                                                                         *)
(* DtlsRecv, for any number of datagrams of any kinds, any handshake and   *)
(* any number of retransmission timers: data reaches the upper layer in    *)
(* the order of arrival, and the end of the transport is announced once,   *)
(* after everything that was received before it.                           *)
(***************************************************************************)
EXTENDS SctpSend, SctpGate, DtlsRecv, SequenceTheorems, FiniteSetTheorems, FunctionTheorems,
        WellFoundedInduction, TLAPS

\* The doFlush() tasks that wait in the processor.
DoFlushes(ts) == {i \in 1..Len(ts) : ts[i] = "doFlush"}

\* mPendingFlushCount counts them, so that it never goes below zero.
FlushesCounted == mPendingFlushCount = Cardinality(DoFlushes(tasks))

\* Only a queue that was stopped, and is empty, is followed by the shutdown.
ShutdownBehindQueue == mSendShutdown => stopped /\ mSendQueue = <<>>

\* A frame that has not settled its item.
Pending(f) == f.item # NoItem /\ f.cb # "exit"

\* The item of a frame that has not settled it was not accepted yet, and no
\* other such frame sends it: a nested send is a send of something else.
FramesCall ==
    /\ \A i \in 1..Len(stack) : Pending(stack[i]) => result[stack[i].item] = "calling"
    /\ \A i, j \in 1..Len(stack) :
           Pending(stack[i]) /\ Pending(stack[j]) /\ stack[i].item = stack[j].item => i = j

\* What was accepted was told to its sender: true for what went directly to
\* usrsctp, false for what was queued.
AcceptedTold == \A i \in 1..Len(committed) : result[committed[i]] \in {"true", "false"}

\* The inductive invariant.
Inv ==
    /\ TypeOK
    /\ WireOrder
    /\ ShutdownBehindQueue
    /\ FlushesCounted
    /\ FramesCall
    /\ AcceptedTold
-----------------------------------------------------------------------------
\* What Front and Last are of a sequence that is not empty.
LEMMA FrontLast ==
    ASSUME NEW S, NEW s \in Seq(S), s # <<>>
    PROVE  /\ Len(s) \in Nat \ {0}
           /\ Front(s) \in Seq(S)
           /\ Len(Front(s)) = Len(s) - 1
           /\ \A i \in 1..Len(s) - 1 : Front(s)[i] = s[i]
           /\ Last(s) = s[Len(s)]
           /\ Last(s) \in S
  <1>1. Len(s) \in Nat \ {0}
    BY EmptySeq
  <1>2. \A i \in 1..Len(s) - 1 : s[i] \in S
    BY <1>1, ElementOfSeq
  <1>3. /\ Front(s) \in Seq(S)
        /\ Len(Front(s)) = Len(s) - 1
        /\ \A i \in 1..Len(s) - 1 : Front(s)[i] = s[i]
    <2> DEFINE n == Len(s) - 1
    <2>1. n \in Nat /\ \A i \in 1..n : s[i] \in S
      BY <1>1, <1>2
    <2> HIDE DEF n
    <2>2. /\ Front(s) \in Seq(S)
          /\ Len(Front(s)) = IF 1 <= n THEN n - 1 + 1 ELSE 0
          /\ \A i \in 1..n - 1 + 1 : Front(s)[i] = s[1 + i - 1]
      BY <2>1, SubSeqProperties DEF Front, n
    <2>3. Len(Front(s)) = n
      BY <2>1, <2>2
    <2>4. \A i \in 1..n : Front(s)[i] = s[i]
      BY <2>1, <2>2
    <2> QED
      BY <2>2, <2>3, <2>4 DEF n
  <1>4. Last(s) \in S
    BY <1>1, ElementOfSeq DEF Last
  <1> QED
    BY <1>1, <1>3, <1>4 DEF Last

\* Replacing the last element of a sequence.
LEMMA ReplaceLast ==
    ASSUME NEW S, NEW s \in Seq(S), s # <<>>, NEW e \in S
    PROVE  /\ Append(Front(s), e) \in Seq(S)
           /\ Append(Front(s), e) # <<>>
           /\ Len(Append(Front(s), e)) = Len(s)
           /\ \A i \in 1..Len(s) - 1 : Append(Front(s), e)[i] = s[i]
           /\ Append(Front(s), e)[Len(s)] = e
  <1>1. /\ Len(s) \in Nat \ {0}
        /\ Front(s) \in Seq(S)
        /\ Len(Front(s)) = Len(s) - 1
        /\ \A i \in 1..Len(s) - 1 : Front(s)[i] = s[i]
    BY FrontLast
  <1> QED
    BY <1>1, AppendProperties

\* A finite count, at most the length of the sequence.
LEMMA DoFlushesFinite ==
    ASSUME NEW S, NEW ts \in Seq(S)
    PROVE  /\ IsFiniteSet(DoFlushes(ts))
           /\ Cardinality(DoFlushes(ts)) \in Nat
  <1>1. Len(ts) \in Nat /\ IsFiniteSet(1..Len(ts))
    BY LenProperties, FS_Interval
  <1>2. IsFiniteSet(DoFlushes(ts))
    BY <1>1, FS_Subset DEF DoFlushes
  <1> QED
    BY <1>2, FS_CardinalityType

\* Appending a doFlush counts one more, appending anything else none.
LEMMA DoFlushesAppend ==
    ASSUME NEW S, NEW ts \in Seq(S), NEW t \in S
    PROVE  Cardinality(DoFlushes(Append(ts, t))) =
               Cardinality(DoFlushes(ts)) + (IF t = "doFlush" THEN 1 ELSE 0)
  <1> DEFINE n == Len(ts)
  <1>1. /\ n \in Nat
        /\ Len(Append(ts, t)) = n + 1
        /\ \A i \in 1..n : Append(ts, t)[i] = ts[i]
        /\ Append(ts, t)[n + 1] = t
    BY LenProperties, AppendProperties
  <1>2. n + 1 \notin DoFlushes(ts)
    BY <1>1 DEF DoFlushes
  <1> HIDE DEF n
  <1>3. CASE t = "doFlush"
    <2>1. DoFlushes(Append(ts, t)) = DoFlushes(ts) \cup {n + 1}
      BY <1>1, <1>3 DEF DoFlushes, n
    <2> QED
      BY <1>2, <1>3, <2>1, DoFlushesFinite, FS_AddElement
  <1>4. CASE t # "doFlush"
    <2>1. DoFlushes(Append(ts, t)) = DoFlushes(ts)
      BY <1>1, <1>4 DEF DoFlushes, n
    <2> QED
      BY <1>4, <2>1, DoFlushesFinite
  <1> QED
    BY <1>3, <1>4

\* Running the first task counts one less if it is a doFlush.
LEMMA DoFlushesTail ==
    ASSUME NEW S, NEW ts \in Seq(S), ts # <<>>
    PROVE  Cardinality(DoFlushes(Tail(ts))) =
               Cardinality(DoFlushes(ts)) - (IF Head(ts) = "doFlush" THEN 1 ELSE 0)
  <1> DEFINE A == DoFlushes(Tail(ts))
             B == DoFlushes(ts) \ {1}
             shift == [i \in A |-> i + 1]
  <1>1. /\ Len(ts) \in Nat \ {0}
        /\ Tail(ts) \in Seq(S)
        /\ Len(Tail(ts)) = Len(ts) - 1
        /\ \A i \in 1..Len(Tail(ts)) : Tail(ts)[i] = ts[i + 1]
        /\ Head(ts) = ts[1]
    BY EmptySeq, HeadTailProperties
  <1>2. shift \in Bijection(A, B)
    <2>1. \A i \in A : i \in Nat /\ i + 1 \in B
      BY <1>1 DEF DoFlushes
    <2>2. \A j \in B : j - 1 \in A /\ (j - 1) + 1 = j
      BY <1>1 DEF DoFlushes
    <2>3. shift \in [A -> B]
      BY <2>1
    <2>4. \A i, j \in A : shift[i] = shift[j] => i = j
      BY <2>1
    <2>5. \A j \in B : \E i \in A : shift[i] = j
      BY <2>2
    <2> HIDE DEF A, B, shift
    <2> QED
      BY <2>3, <2>4, <2>5, Fun_IsBij
  <1>3. /\ IsFiniteSet(A) /\ IsFiniteSet(DoFlushes(ts))
        /\ Cardinality(DoFlushes(ts)) \in Nat
    BY <1>1, DoFlushesFinite
  <1>4. Cardinality(B) = Cardinality(A)
    BY <1>2, <1>3, FS_Bijection DEF ExistsBijection
  <1>5. 1 \in DoFlushes(ts) <=> Head(ts) = "doFlush"
    BY <1>1 DEF DoFlushes
  <1>6. Cardinality(B) = IF 1 \in DoFlushes(ts)
                          THEN Cardinality(DoFlushes(ts)) - 1
                          ELSE Cardinality(DoFlushes(ts))
    BY <1>3, FS_RemoveElement
  <1> QED
    BY <1>3, <1>4, <1>5, <1>6
-----------------------------------------------------------------------------
\* Appending to the second of two sequences appends to their concatenation.
LEMMA ConcatAppend ==
    ASSUME NEW S, NEW s \in Seq(S), NEW q \in Seq(S), NEW m \in S
    PROVE  s \o Append(q, m) = Append(s \o q, m)
  <1>1. <<m>> \in Seq(S) /\ s \o q \in Seq(S)
    BY ConcatProperties
  <1>2. Append(q, m) = q \o <<m>> /\ Append(s \o q, m) = (s \o q) \o <<m>>
    BY <1>1, AppendIsConcat
  <1> QED
    BY <1>1, <1>2, ConcatAssociative

\* Moving the head of the second sequence to the end of the first changes nothing.
LEMMA ConcatMove ==
    ASSUME NEW S, NEW s \in Seq(S), NEW q \in Seq(S), q # <<>>
    PROVE  Append(s, Head(q)) \o Tail(q) = s \o q
  <1>1. /\ Head(q) \in S /\ Tail(q) \in Seq(S) /\ Len(Tail(q)) = Len(q) - 1
        /\ \A i \in 1..Len(Tail(q)) : Tail(q)[i] = q[i + 1]
        /\ Head(q) = q[1] /\ Len(q) \in Nat \ {0}
        /\ <<Head(q)>> \in Seq(S)
    BY HeadTailProperties, EmptySeq
  <1>2. <<Head(q)>> \o Tail(q) = q
    <2>1. /\ <<Head(q)>> \o Tail(q) \in Seq(S)
          /\ Len(<<Head(q)>> \o Tail(q)) = 1 + Len(Tail(q))
          /\ \A i \in 1..1 + Len(Tail(q)) :
                 (<<Head(q)>> \o Tail(q))[i] =
                     IF i <= 1 THEN <<Head(q)>>[i] ELSE Tail(q)[i - 1]
      BY <1>1, ConcatProperties
    <2>2. \A i \in 1..Len(q) : (<<Head(q)>> \o Tail(q))[i] = q[i]
      BY <1>1, <2>1
    <2> QED
      BY <1>1, <2>1, <2>2, SeqEqual
  <1>3. Append(s, Head(q)) = s \o <<Head(q)>>
    BY <1>1, AppendIsConcat
  <1> QED
    BY <1>1, <1>2, <1>3, ConcatAssociative

\* Accepting an item that was not accepted before keeps the items distinct.
LEMMA Accepted ==
    ASSUME TypeOK, IsInjective(committed), AcceptedTold,
           NEW m \in Items, result[m] \notin {"true", "false"},
           NEW v \in {"true", "false"},
           committed' = Append(committed, m), result' = [result EXCEPT ![m] = v]
    PROVE  /\ committed' \in Seq(Items)
           /\ IsInjective(committed')
           /\ AcceptedTold'
  <1>1. /\ committed \in Seq(Items) /\ Len(committed) \in Nat
        /\ DOMAIN committed = 1..Len(committed)
        /\ \A i \in 1..Len(committed) : committed[i] \in Items
    BY LenProperties, ElementOfSeq DEF TypeOK
  <1>2. /\ committed' \in Seq(Items) /\ Len(committed') = Len(committed) + 1
        /\ \A i \in 1..Len(committed) : committed'[i] = committed[i]
        /\ committed'[Len(committed) + 1] = m
    BY <1>1, AppendProperties
  <1>3. DOMAIN committed' = 1..Len(committed) + 1
    BY <1>2, LenProperties
  <1>4. \A i \in 1..Len(committed) : committed[i] # m
    BY DEF AcceptedTold
  <1>5. IsInjective(committed')
    BY <1>1, <1>2, <1>3, <1>4 DEF IsInjective
  <1>6. AcceptedTold'
    BY <1>1, <1>2, <1>4 DEF AcceptedTold, TypeOK
  <1> QED
    BY <1>2, <1>5, <1>6

\* Settling an item otherwise does not change what was told of accepted ones.
LEMMA NotAccepted ==
    ASSUME TypeOK, AcceptedTold, NEW m \in Items, result[m] \notin {"true", "false"}, NEW v,
           UNCHANGED committed, result' = [result EXCEPT ![m] = v]
    PROVE  AcceptedTold'
  <1>1. \A i \in 1..Len(committed) : committed[i] \in Items /\ committed[i] # m
    BY ElementOfSeq DEF TypeOK, AcceptedTold
  <1> QED
    BY <1>1 DEF AcceptedTold, TypeOK

-----------------------------------------------------------------------------
\* The frame on top of the stack.
LEMMA TopFrame ==
    ASSUME TypeOK, stack # <<>>
    PROVE  /\ Len(stack) \in Nat \ {0}
           /\ Active = stack[Len(stack)]
           /\ Active \in Frames
           /\ Active.item # NoItem => Active.item \in Items
           /\ \A i \in 1..Len(stack) : stack[i] \in Frames
           /\ Front(stack) \in Seq(Frames)
           /\ Len(Front(stack)) = Len(stack) - 1
           /\ \A i \in 1..Len(stack) - 1 : Front(stack)[i] = stack[i]
  <1>1. stack \in Seq(Frames)
    BY DEF TypeOK
  <1>2. \A i \in 1..Len(stack) : stack[i] \in Frames
    BY <1>1, ElementOfSeq
  <1> QED
    BY <1>1, <1>2, FrontLast DEF Active, Frames

\* A call that settles its item, or a flush, returns or goes to the callback at
\* its end: the other frames are as before.
LEMMA FrameEnds ==
    ASSUME TypeOK, FramesCall, In("no"),
           \/ stack' = Front(stack)
           \/ stack' = Append(Front(stack), Frame(Active.item, "exit")),
           \/ result' = result
           \/ \E v : result' = [result EXCEPT ![Active.item] = v]
    PROVE  stack' \in Seq(Frames) /\ FramesCall'
  <1> DEFINE n == Len(stack)
  <1>1. /\ stack # <<>> /\ n \in Nat \ {0} /\ Active = stack[n] /\ Active.cb = "no"
        /\ Active \in Frames /\ stack \in Seq(Frames)
        /\ \A i \in 1..n : stack[i] \in Frames
    BY TopFrame DEF In, TypeOK
  <1>2. Frame(Active.item, "exit") \in Frames
    BY <1>1 DEF Frame, Frames
  <1>3. /\ stack' \in Seq(Frames)
        /\ \/ Len(stack') = n - 1
           \/ Len(stack') = n /\ ~Pending(stack'[n])
        /\ \A i \in 1..n - 1 : stack'[i] = stack[i]
    <2>1. CASE stack' = Front(stack)
      BY <1>1, <2>1, TopFrame
    <2>2. CASE stack' = Append(Front(stack), Frame(Active.item, "exit"))
      BY <1>1, <1>2, <2>2, ReplaceLast DEF Pending, Frame
    <2> QED
      BY <2>1, <2>2
  <1>4. \A i \in 1..Len(stack') : Pending(stack'[i]) => i \in 1..n - 1
    BY <1>1, <1>3
  <1>5. ASSUME NEW i \in 1..n - 1, Pending(stack[i])
        PROVE  /\ stack[i].item \in Items
               /\ Active.item # stack[i].item
               /\ result'[stack[i].item] = "calling"
    <2>1. i \in 1..n /\ n \in 1..n /\ i # n
      BY <1>1
    <2>2. stack[i].item \in Items /\ result[stack[i].item] = "calling"
      BY <1>1, <1>5, <2>1 DEF FramesCall, Frames, Pending
    <2>3. Active.item # stack[i].item
      BY <1>1, <1>5, <2>1 DEF FramesCall, Pending
    <2> QED
      BY <2>2, <2>3 DEF TypeOK
  <1>6. \A i \in 1..Len(stack') : Pending(stack'[i]) => result'[stack'[i].item] = "calling"
    BY <1>3, <1>4, <1>5
  <1>7. ASSUME NEW i \in 1..Len(stack'), NEW j \in 1..Len(stack'),
               Pending(stack'[i]), Pending(stack'[j]), stack'[i].item = stack'[j].item
        PROVE  i = j
    <2>1. i \in 1..n - 1 /\ j \in 1..n - 1
      BY <1>4, <1>7
    <2>2. i \in 1..n /\ j \in 1..n /\ stack'[i] = stack[i] /\ stack'[j] = stack[j]
      BY <1>1, <1>3, <2>1
    <2> QED
      BY <1>7, <2>2 DEF FramesCall
  <1> QED
    BY <1>3, <1>6, <1>7 DEF FramesCall, Pending

\* The top frame stays the frame of the same call, which has not settled.
LEMMA FrameGoesOn ==
    ASSUME TypeOK, FramesCall, stack # <<>>, NEW c \in {"no", "loop"},
           Active.cb # "exit",
           stack' = stack \/ stack' = Append(Front(stack), Frame(Active.item, c)),
           UNCHANGED result
    PROVE  stack' \in Seq(Frames) /\ FramesCall'
  <1> DEFINE n == Len(stack)
  <1>1. /\ n \in Nat \ {0} /\ Active = stack[n] /\ Active \in Frames
        /\ stack \in Seq(Frames)
    BY TopFrame DEF TypeOK
  <1>2. CASE stack' = stack
    BY <1>1, <1>2 DEF FramesCall
  <1>3. CASE stack' = Append(Front(stack), Frame(Active.item, c))
    <2>1. Frame(Active.item, c) \in Frames
      BY <1>1 DEF Frame, Frames
    <2>2. /\ stack' \in Seq(Frames)
          /\ Len(stack') = n
          /\ \A i \in 1..n - 1 : stack'[i] = stack[i]
          /\ stack'[n] = Frame(Active.item, c)
      BY <1>1, <1>3, <2>1, ReplaceLast
    <2>3. \A i \in 1..n : /\ stack'[i].item = stack[i].item
                          /\ Pending(stack'[i]) <=> Pending(stack[i])
      <3>1. \A i \in 1..n - 1 : stack'[i] = stack[i]
        BY <2>2
      <3>2. Frame(Active.item, c).item = Active.item /\ Frame(Active.item, c).cb # "exit"
        BY DEF Frame
      <3>3. /\ stack'[n].item = stack[n].item
            /\ Pending(stack'[n]) <=> Pending(stack[n])
        BY <1>1, <2>2, <3>2 DEF Pending
      <3>4. \A i \in 1..n : i = n \/ i \in 1..n - 1
        BY <1>1
      <3> HIDE DEF n
      <3> QED
        BY <3>1, <3>3, <3>4
    <2>4. \A i \in 1..n : Pending(stack'[i]) => result'[stack'[i].item] = "calling"
      BY <2>3 DEF FramesCall
    <2>5. \A i, j \in 1..n :
              Pending(stack'[i]) /\ Pending(stack'[j]) /\ stack'[i].item = stack'[j].item
                  => i = j
      BY <2>3 DEF FramesCall
    <2> QED
      BY <2>2, <2>4, <2>5 DEF FramesCall, Pending
  <1> QED
    BY <1>2, <1>3
-----------------------------------------------------------------------------
\* The initial state satisfies the invariant.
LEMMA InvInit == Init => Inv
  <1> SUFFICES ASSUME Init PROVE Inv
    OBVIOUS
  <1> USE DEF Init
  <1>1. TypeOK
    <2>1. /\ <<>> \in Seq(Items) /\ <<>> \in Seq(Frames)
          /\ <<>> \in Seq(Items \ Resets) /\ <<>> \in Seq({"flush", "doFlush"})
      BY EmptySeq
    <2>2. {stopped, mSendShutdown, closing} \subseteq BOOLEAN
      BY Zenon
    <2> QED
      BY <2>1, <2>2 DEF TypeOK
  <1>2. WireOrder
    <2>1. <<>> \o <<>> = <<>>
      BY ConcatEmptySeq, EmptySeq
    <2>2. IsInjective(<<>>)
      BY DEF IsInjective
    <2> QED
      BY <2>1, <2>2 DEF WireOrder
  <1>3. FlushesCounted
    <2>1. DoFlushes(tasks) = {}
      BY DEF DoFlushes
    <2> QED
      BY <2>1, FS_EmptySet DEF FlushesCounted
  <1>4. ShutdownBehindQueue /\ FramesCall /\ AcceptedTold
    BY DEF ShutdownBehindQueue, FramesCall, AcceptedTold
  <1> QED
    BY <1>1, <1>2, <1>3, <1>4 DEF Inv

\* send() begins: refused at once, or with a frame of its own.
LEMMA SendInvariant == ASSUME NEW m \in Items PROVE Inv /\ Send(m) => Inv'
  <1> SUFFICES ASSUME Inv, Send(m) PROVE Inv'
    OBVIOUS
  <1> USE DEF Inv, Send, usrsctp, close
  <1>1. m # NoItem
    BY ItemAssumption
  <1>2. AcceptedTold'
    <2>1. CASE result' = [result EXCEPT ![m] = "refused"]
      BY <2>1, NotAccepted
    <2>2. CASE result' = [result EXCEPT ![m] = "calling"]
      BY <2>2, NotAccepted
    <2> QED
      BY <2>1, <2>2
  <1>3. \A i \in 1..Len(stack) : Pending(stack[i]) => stack[i].item # m
    BY DEF FramesCall
  <1>4. /\ stack \in Seq(Frames) /\ Len(stack) \in Nat
        /\ \A i \in 1..Len(stack) : stack[i] \in Frames
    BY LenProperties, ElementOfSeq DEF TypeOK
  <1>5. stack' \in Seq(Frames) /\ FramesCall'
    <2>1. CASE UNCHANGED stack /\ result' = [result EXCEPT ![m] = "refused"]
      <3>1. \A i \in 1..Len(stack) : Pending(stack[i]) =>
                result'[stack[i].item] = "calling"
        BY <1>3, <1>4, <2>1 DEF FramesCall, TypeOK, Frames, Pending
      <3> QED
        BY <1>4, <2>1, <3>1 DEF FramesCall
    <2>2. CASE /\ stack' = Append(stack, Frame(m, "no"))
               /\ result' = [result EXCEPT ![m] = "calling"]
      <3>1. Frame(m, "no") \in Frames
        BY DEF Frame, Frames
      <3>2. /\ stack' \in Seq(Frames) /\ Len(stack') = Len(stack) + 1
            /\ \A i \in 1..Len(stack) : stack'[i] = stack[i]
            /\ stack'[Len(stack) + 1].item = m
        BY <1>4, <2>2, <3>1, AppendProperties DEF Frame
      <3>3. \A i \in 1..Len(stack') : Pending(stack'[i]) =>
                result'[stack'[i].item] = "calling"
        BY <1>3, <1>4, <2>2, <3>2 DEF FramesCall, TypeOK, Frames, Pending
      <3>4. \A i, j \in 1..Len(stack') :
                Pending(stack'[i]) /\ Pending(stack'[j]) /\ stack'[i].item = stack'[j].item
                    => i = j
        BY <1>3, <1>4, <3>2 DEF FramesCall
      <3> QED
        BY <3>2, <3>3, <3>4 DEF FramesCall, Pending
    <2> QED
      BY <2>1, <2>2
  <1>6. TypeOK'
    BY <1>5 DEF TypeOK
  <1> QED
    BY <1>2, <1>5, <1>6 DEF WireOrder, ShutdownBehindQueue, FlushesCounted

\* The callback returns.
LEMMA CallbackReturnInvariant == Inv /\ CallbackReturn => Inv'
  <1> SUFFICES ASSUME Inv, CallbackReturn PROVE Inv'
    OBVIOUS
  <1> USE DEF Inv, CallbackReturn, usrsctp, close
  <1>1. stack' \in Seq(Frames) /\ FramesCall'
    <2>1. CASE In("loop") /\ stack' = Append(Front(stack), Frame(Active.item, "no"))
      BY <2>1, FrameGoesOn DEF In
    <2>2. CASE In("exit") /\ Return
      <3>1. /\ Len(stack) \in Nat \ {0}
            /\ Front(stack) \in Seq(Frames) /\ Len(Front(stack)) = Len(stack) - 1
            /\ \A i \in 1..Len(stack) - 1 : Front(stack)[i] = stack[i]
        BY <2>2, TopFrame DEF In
      <3> QED
        BY <2>2, <3>1 DEF Return, FramesCall, Pending
    <2> QED
      BY <2>1, <2>2
  <1>2. TypeOK'
    BY <1>1 DEF TypeOK
  <1> QED
    BY <1>1, <1>2 DEF WireOrder, ShutdownBehindQueue, FlushesCounted, AcceptedTold

\* A change of the amount keeps it a natural number.
LEMMA AmountType ==
    ASSUME TypeOK, NEW m \in Items, NEW d \in Int,
           mBufferedAmount' = [mBufferedAmount EXCEPT
                                  ![StreamOf[m]] = IF @ + d < 0 THEN 0 ELSE @ + d]
    PROVE  mBufferedAmount' \in [Streams -> Nat]
  <1>1. StreamOf[m] \in Streams
    BY DEF Streams
  <1>2. mBufferedAmount[StreamOf[m]] \in Nat
    BY <1>1 DEF TypeOK
  <1> QED
    BY <1>1, <1>2 DEF TypeOK

\* What usrsctp takes goes to the end of the wire.
LEMMA TransmitType ==
    ASSUME TypeOK, NEW m \in Items, Transmit(m)
    PROVE  wire' \in Seq(Items) /\ sndbuf' \in Seq(Items \ Resets)
  <1>1. wire' \in Seq(Items)
    BY AppendProperties DEF TypeOK, Transmit
  <1>2. CASE m \in Resets
    BY <1>1, <1>2 DEF TypeOK, Transmit
  <1>3. CASE m \notin Resets
    BY <1>1, <1>3, AppendProperties DEF TypeOK, Transmit
  <1> QED
    BY <1>2, <1>3
\* trySendQueue moves the head of the queue to the end of the wire.
LEMMA LoopSendInvariant == Inv /\ LoopSend => Inv'
  <1> SUFFICES ASSUME Inv, LoopSend PROVE Inv'
    OBVIOUS
  <1> DEFINE m == Head(mSendQueue)
  <1> USE DEF Inv, LoopSend, close
  <1>1. m \in Items /\ Tail(mSendQueue) \in Seq(Items)
    BY HeadTailProperties DEF TypeOK
  <1>2. stack' \in Seq(Frames) /\ FramesCall'
    <2>1. stack' = stack \/ stack' = Append(Front(stack), Frame(Active.item, "loop"))
      BY DEF UpdateBufferedAmount
    <2> QED
      BY <2>1, FrameGoesOn DEF In
  <1>3. TypeOK'
    <2>1. wire' \in Seq(Items) /\ sndbuf' \in Seq(Items \ Resets)
      BY <1>1, TransmitType
    <2>2. mBufferedAmount' \in [Streams -> Nat]
      <3>1. -SizeOf[m] \in Int
        BY <1>1, ItemAssumption
      <3> QED
        BY <1>1, <3>1, AmountType DEF UpdateBufferedAmount
    <2> QED
      BY <1>1, <1>2, <2>1, <2>2 DEF TypeOK
  <1>4. WireOrder'
    <2>1. wire' \o mSendQueue' = wire \o mSendQueue
      BY ConcatMove DEF TypeOK, Transmit
    <2> QED
      BY <2>1 DEF WireOrder
  <1>5. ShutdownBehindQueue'
    BY DEF ShutdownBehindQueue
  <1> QED
    BY <1>2, <1>3, <1>4, <1>5 DEF FlushesCounted, AcceptedTold

\* send() queues its message, or loses it when the queue was stopped.
LEMMA EnqueueProperties ==
    ASSUME Inv, In("no"), Active.item # NoItem, Enqueue(Active.item), UNCHANGED wire
    PROVE  /\ mSendQueue' \in Seq(Items)
           /\ mBufferedAmount' \in [Streams -> Nat]
           /\ stack' \in Seq(Frames)
           /\ committed' \in Seq(Items)
           /\ result' \in [Items -> {"none", "calling", "true", "false", "refused",
                                     "dropped", "thrown"}]
           /\ WireOrder' /\ FramesCall' /\ AcceptedTold'
  <1> DEFINE m == Active.item
  <1> USE DEF Inv
  <1>1. m \in Items /\ result[m] = "calling"
    <2>1. /\ Len(stack) \in 1..Len(stack) /\ Active = stack[Len(stack)]
          /\ m \in Items
      BY TopFrame DEF In
    <2> QED
      BY <2>1 DEF FramesCall, Pending, In
  <1>2. stack' \in Seq(Frames) /\ FramesCall'
    <2>1. \E v : result' = [result EXCEPT ![m] = v]
      BY DEF Enqueue
    <2>2. \/ stack' = Front(stack)
          \/ stack' = Append(Front(stack), Frame(m, "exit"))
      BY DEF Enqueue, UpdateBufferedAmount
    <2> HIDE DEF Inv
    <2> QED
      BY <2>1, <2>2, FrameEnds DEF Inv
  <1>3. mBufferedAmount' \in [Streams -> Nat]
    <2>1. SizeOf[m] \in Int
      BY <1>1, ItemAssumption
    <2> QED
      BY <1>1, <2>1, AmountType DEF Enqueue, UpdateBufferedAmount
  <1>4. CASE stopped
    <2>1. /\ result' = [result EXCEPT ![m] = "dropped"]
          /\ UNCHANGED <<mSendQueue, committed>>
      BY <1>4 DEF Enqueue
    <2>2. AcceptedTold'
      BY <1>1, <2>1, NotAccepted
    <2>3. WireOrder'
      BY <2>1 DEF WireOrder
    <2> QED
      BY <1>1, <1>2, <1>3, <2>1, <2>2, <2>3 DEF TypeOK
  <1>5. CASE ~stopped
    <2>1. /\ mSendQueue' = Append(mSendQueue, m)
          /\ committed' = Append(committed, m)
          /\ result' = [result EXCEPT ![m] = "false"]
      BY <1>5 DEF Enqueue
    <2>2. mSendQueue' \in Seq(Items)
      BY <1>1, <2>1, AppendProperties DEF TypeOK
    <2>3. committed' \in Seq(Items) /\ IsInjective(committed') /\ AcceptedTold'
      BY <1>1, <2>1, Accepted DEF WireOrder
    <2>4. wire' \o mSendQueue' = committed'
      <3>1. wire \in Seq(Items) /\ mSendQueue \in Seq(Items) /\ wire \o mSendQueue = committed
        BY DEF TypeOK, WireOrder
      <3>2. wire \o Append(mSendQueue, m) = Append(wire \o mSendQueue, m)
        BY <1>1, <3>1, ConcatAppend
      <3> QED
        BY <2>1, <3>1, <3>2
    <2> QED
      BY <1>1, <1>2, <1>3, <2>1, <2>2, <2>3, <2>4 DEF TypeOK, WireOrder
  <1> QED
    BY <1>4, <1>5

\* trySendQueue fails: a flush returns, send() queues.
LEMMA LoopBlockedInvariant == Inv /\ LoopBlocked => Inv'
  <1> SUFFICES ASSUME Inv, LoopBlocked PROVE Inv'
    OBVIOUS
  <1> USE DEF LoopBlocked, usrsctp, close
  <1>1. CASE Active.item = NoItem
    <2>1. stack' = Front(stack) /\ UNCHANGED <<mSendQueue, mBufferedAmount, committed, result>>
      BY <1>1 DEF Return
    <2>2. stack' \in Seq(Frames) /\ FramesCall'
      BY <2>1, FrameEnds DEF Inv
    <2>3. TypeOK'
      BY <2>1, <2>2 DEF Inv, TypeOK
    <2> QED
      BY <2>1, <2>2, <2>3
         DEF Inv, WireOrder, ShutdownBehindQueue, FlushesCounted, AcceptedTold
  <1>2. CASE Active.item # NoItem
    <2>1. Enqueue(Active.item)
      BY <1>2
    <2>2. /\ mSendQueue' \in Seq(Items)
          /\ mBufferedAmount' \in [Streams -> Nat]
          /\ stack' \in Seq(Frames)
          /\ committed' \in Seq(Items)
          /\ result' \in [Items -> {"none", "calling", "true", "false", "refused",
                                    "dropped", "thrown"}]
          /\ WireOrder' /\ FramesCall' /\ AcceptedTold'
      BY <1>2, <2>1, EnqueueProperties
    <2>3. TypeOK'
      BY <2>2 DEF Inv, TypeOK
    <2>4. ShutdownBehindQueue' /\ FlushesCounted'
      BY DEF Inv, ShutdownBehindQueue, FlushesCounted
    <2> QED
      BY <2>2, <2>3, <2>4 DEF Inv
  <1> QED
    BY <1>1, <1>2

\* The queue is empty: a stopped association shuts down, a flush returns, and
\* send() hands its message over, queues it or throws.
LEMMA LoopDoneInvariant == Inv /\ LoopDone => Inv'
  <1> SUFFICES ASSUME Inv, LoopDone PROVE Inv'
    OBVIOUS
  <1> DEFINE m == Active.item
  <1> USE DEF LoopDone, close
  <1>1. FlushesCounted'
    BY DEF Inv, FlushesCounted
  <1>2. mSendShutdown' \in BOOLEAN /\ (mSendShutdown' => stopped)
    BY DEF Inv, TypeOK, ShutdownBehindQueue
  <1>3. m # NoItem => m \in Items /\ result[m] = "calling"
    <2>1. /\ Len(stack) \in 1..Len(stack) /\ Active = stack[Len(stack)]
          /\ m # NoItem => m \in Items
      BY TopFrame DEF Inv, In
    <2> QED
      BY <2>1 DEF Inv, FramesCall, Pending, In
  <1>4. CASE /\ m = NoItem /\ Return
             /\ UNCHANGED <<mSendQueue, mBufferedAmount, sndbuf, wire, committed, result>>
    <2>1. stack' \in Seq(Frames) /\ FramesCall'
      BY <1>4, FrameEnds DEF Inv, Return
    <2>2. TypeOK'
      BY <1>2, <1>4, <2>1 DEF Inv, TypeOK
    <2> QED
      BY <1>1, <1>2, <1>4, <2>1, <2>2
         DEF Inv, WireOrder, ShutdownBehindQueue, AcceptedTold
  <1>5. CASE /\ m # NoItem /\ Return
             /\ result' = [result EXCEPT ![m] = "thrown"]
             /\ UNCHANGED <<mSendQueue, mBufferedAmount, sndbuf, wire, committed>>
    <2>1. stack' \in Seq(Frames) /\ FramesCall'
      BY <1>5, FrameEnds DEF Inv, Return
    <2>2. AcceptedTold'
      BY <1>3, <1>5, NotAccepted DEF Inv
    <2>3. TypeOK'
      BY <1>2, <1>5, <2>1 DEF Inv, TypeOK
    <2> QED
      BY <1>1, <1>2, <1>5, <2>1, <2>2, <2>3 DEF Inv, WireOrder, ShutdownBehindQueue
  <1>6. CASE /\ m # NoItem /\ Return /\ Transmit(m)
             /\ committed' = Append(committed, m)
             /\ result' = [result EXCEPT ![m] = "true"]
             /\ UNCHANGED <<mSendQueue, mBufferedAmount>>
    <2>1. stack' \in Seq(Frames) /\ FramesCall'
      BY <1>6, FrameEnds DEF Inv, Return
    <2>2. committed' \in Seq(Items) /\ IsInjective(committed') /\ AcceptedTold'
      BY <1>3, <1>6, Accepted DEF Inv, WireOrder
    <2>3. wire' \in Seq(Items) /\ sndbuf' \in Seq(Items \ Resets)
      BY <1>3, <1>6, TransmitType DEF Inv
    <2>4. TypeOK'
      BY <1>2, <1>6, <2>1, <2>2, <2>3 DEF Inv, TypeOK
    <2>5. WireOrder'
      <3>1. wire = committed /\ wire' = Append(wire, m)
        BY <1>6, ConcatEmptySeq DEF Inv, TypeOK, WireOrder, Transmit
      <3>2. wire' \o mSendQueue' = committed'
        BY <1>6, <2>3, <3>1, ConcatEmptySeq
      <3> QED
        BY <2>2, <3>2 DEF WireOrder
    <2> QED
      BY <1>1, <1>2, <1>6, <2>1, <2>2, <2>4, <2>5 DEF Inv, ShutdownBehindQueue
  <1>7. CASE m # NoItem /\ Enqueue(m) /\ UNCHANGED <<sndbuf, wire>>
    <2>1. /\ mSendQueue' \in Seq(Items)
          /\ mBufferedAmount' \in [Streams -> Nat]
          /\ stack' \in Seq(Frames)
          /\ committed' \in Seq(Items)
          /\ result' \in [Items -> {"none", "calling", "true", "false", "refused",
                                    "dropped", "thrown"}]
          /\ WireOrder' /\ FramesCall' /\ AcceptedTold'
      BY <1>7, EnqueueProperties
    <2>2. TypeOK'
      BY <1>2, <1>7, <2>1 DEF Inv, TypeOK
    <2>3. ShutdownBehindQueue'
      BY <1>2, <1>7 DEF ShutdownBehindQueue, Enqueue
    <2> QED
      BY <1>1, <2>1, <2>2, <2>3 DEF Inv
  <1> QED
    BY <1>4, <1>5, <1>6, <1>7
\* closeStream queues a reset and enqueues a flush.
LEMMA CloseStreamInvariant == ASSUME NEW r \in Items PROVE Inv /\ CloseStream(r) => Inv'
  <1> SUFFICES ASSUME Inv, CloseStream(r) PROVE Inv'
    OBVIOUS
  <1> USE DEF CloseStream, usrsctp, close
  <1>1. tasks' \in Seq({"flush", "doFlush"}) /\ FlushesCounted'
    <2>1. /\ tasks \in Seq({"flush", "doFlush"})
          /\ mPendingFlushCount = Cardinality(DoFlushes(tasks))
          /\ tasks' = Append(tasks, "flush")
      BY DEF Inv, TypeOK, FlushesCounted
    <2>2. Cardinality(DoFlushes(tasks')) = Cardinality(DoFlushes(tasks))
      BY <2>1, DoFlushesAppend, DoFlushesFinite
    <2> QED
      BY <2>1, <2>2, AppendProperties DEF FlushesCounted
  <1>2. FramesCall'
    BY DEF Inv, FramesCall
  <1>3. CASE stopped
    <2>1. /\ result' = [result EXCEPT ![r] = "dropped"]
          /\ UNCHANGED <<mSendQueue, committed>>
      BY <1>3
    <2>2. AcceptedTold'
      BY <2>1, NotAccepted DEF Inv
    <2>3. TypeOK'
      BY <1>1, <2>1 DEF Inv, TypeOK
    <2> QED
      BY <1>1, <1>2, <2>1, <2>2, <2>3 DEF Inv, WireOrder, ShutdownBehindQueue
  <1>4. CASE ~stopped
    <2>1. /\ mSendQueue' = Append(mSendQueue, r)
          /\ committed' = Append(committed, r)
          /\ result' = [result EXCEPT ![r] = "false"]
      BY <1>4
    <2>2. committed' \in Seq(Items) /\ IsInjective(committed') /\ AcceptedTold'
      BY <2>1, Accepted DEF Inv, WireOrder
    <2>3. wire' \o mSendQueue' = committed'
      <3>1. wire \in Seq(Items) /\ mSendQueue \in Seq(Items) /\ wire \o mSendQueue = committed
        BY DEF Inv, TypeOK, WireOrder
      <3>2. wire \o Append(mSendQueue, r) = Append(wire \o mSendQueue, r)
        BY <3>1, ConcatAppend
      <3> QED
        BY <2>1, <3>1, <3>2
    <2>4. mSendQueue' \in Seq(Items)
      BY <2>1, AppendProperties DEF Inv, TypeOK
    <2>5. TypeOK'
      BY <1>1, <2>1, <2>2, <2>4 DEF Inv, TypeOK
    <2> QED
      BY <1>1, <1>2, <1>4, <2>2, <2>3, <2>5 DEF Inv, WireOrder, ShutdownBehindQueue
  <1> QED
    BY <1>3, <1>4

\* The processor runs a flush; a doFlush is counted down.
LEMMA RunFlushInvariant == Inv /\ RunFlush => Inv'
  <1> SUFFICES ASSUME Inv, RunFlush PROVE Inv'
    OBVIOUS
  <1> USE DEF RunFlush, usrsctp, close
  <1> DEFINE doFlush == Head(tasks) = "doFlush"
  <1>1. /\ tasks \in Seq({"flush", "doFlush"}) /\ tasks # <<>> /\ tasks' = Tail(tasks)
        /\ mPendingFlushCount = Cardinality(DoFlushes(tasks))
    BY DEF Inv, TypeOK, FlushesCounted
  <1>2. /\ tasks' \in Seq({"flush", "doFlush"})
        /\ Cardinality(DoFlushes(tasks')) =
               mPendingFlushCount - (IF doFlush THEN 1 ELSE 0)
        /\ Cardinality(DoFlushes(tasks')) \in Nat
    BY <1>1, HeadTailProperties, DoFlushesTail, DoFlushesFinite
  <1>3. mPendingFlushCount' = mPendingFlushCount - (IF doFlush THEN 1 ELSE 0)
    BY DEF Inv, TypeOK
  <1>4. stack' \in Seq(Frames) /\ FramesCall'
    <2>1. stack' = <<>> \/ stack' = <<Frame(NoItem, "no")>>
      BY DEF Inv
    <2>2. Frame(NoItem, "no") \in Frames
      BY DEF Frame, Frames
    <2>3. stack' \in Seq(Frames)
      <3>1. <<>> \in Seq(Frames)
        BY EmptySeq
      <3>2. <<Frame(NoItem, "no")>> \in Seq(Frames)
        BY <2>2
      <3> QED
        BY <2>1, <3>1, <3>2
    <2>4. \A i \in 1..Len(stack') : stack'[i].item = NoItem
      BY <2>1 DEF Frame
    <2> QED
      BY <2>3, <2>4 DEF FramesCall, Pending
  <1>5. TypeOK'
    BY <1>2, <1>3, <1>4 DEF Inv, TypeOK
  <1> QED
    BY <1>2, <1>3, <1>4, <1>5
       DEF Inv, WireOrder, ShutdownBehindQueue, FlushesCounted, AcceptedTold

\* enqueueFlush counts and enqueues.
LEMMA UpcallEnqueueInvariant == \A u \in Upcallers : Inv /\ UpcallEnqueue(u) => Inv'
  <1> SUFFICES ASSUME NEW u \in Upcallers, Inv, UpcallEnqueue(u) PROVE Inv'
    OBVIOUS
  <1> USE DEF UpcallEnqueue, close
  <1>1. /\ tasks \in Seq({"flush", "doFlush"}) /\ tasks' = Append(tasks, "doFlush")
        /\ mPendingFlushCount \in Nat /\ mPendingFlushCount' = mPendingFlushCount + 1
        /\ mPendingFlushCount = Cardinality(DoFlushes(tasks))
    BY DEF Inv, TypeOK, FlushesCounted
  <1>2. /\ tasks' \in Seq({"flush", "doFlush"})
        /\ mPendingFlushCount' = Cardinality(DoFlushes(tasks'))
    BY <1>1, AppendProperties, DoFlushesAppend
  <1>3. TypeOK'
    BY <1>1, <1>2 DEF Inv, TypeOK
  <1> QED
    BY <1>2, <1>3
       DEF Inv, WireOrder, ShutdownBehindQueue, FlushesCounted, FramesCall, AcceptedTold

\* The steps that touch neither the queue nor the frames.
LEMMA OtherInvariant ==
    ASSUME Inv,
           \/ CloseStop \/ Acknowledge \/ Connect \/ Disconnect
           \/ \E u \in Upcallers : UpcallCheck(u)
           \/ UNCHANGED vars
    PROVE  Inv'
  <1> USE DEF usrsctp, close
  <1>1. /\ UNCHANGED <<mSendQueue, mSendShutdown, mPendingFlushCount, tasks, stack, wire,
                       committed, result>>
        /\ stopped => stopped'
    BY DEF CloseStop, Acknowledge, Connect, Disconnect, UpcallCheck, vars
  <1>2. TypeOK'
    <2>1. CASE CloseStop \/ Connect \/ Disconnect \/ UNCHANGED vars
      BY <2>1 DEF Inv, TypeOK, CloseStop, Connect, Disconnect, vars
    <2>2. CASE Acknowledge
      <3>1. sndbuf' \in Seq(Items \ Resets)
        BY <2>2, HeadTailProperties DEF Inv, TypeOK, Acknowledge
      <3> QED
        BY <2>2, <3>1 DEF Inv, TypeOK, Acknowledge
    <2>3. CASE \E u \in Upcallers : UpcallCheck(u)
      BY <2>3 DEF Inv, TypeOK, UpcallCheck
    <2> QED
      BY <2>1, <2>2, <2>3
  <1> QED
    BY <1>1, <1>2
       DEF Inv, WireOrder, ShutdownBehindQueue, FlushesCounted, FramesCall, AcceptedTold

\* close(), its second statement, may enqueue a flush.
LEMMA CloseFlushInvariant == Inv /\ CloseFlush => Inv'
  <1> SUFFICES ASSUME Inv, CloseFlush PROVE Inv'
    OBVIOUS
  <1> USE DEF CloseFlush, usrsctp
  <1>1. tasks \in Seq({"flush", "doFlush"}) /\ (tasks' = tasks \/ tasks' = Append(tasks, "flush"))
    BY DEF Inv, TypeOK
  <1>2. /\ tasks' \in Seq({"flush", "doFlush"})
        /\ Cardinality(DoFlushes(tasks')) = Cardinality(DoFlushes(tasks))
    BY <1>1, AppendProperties, DoFlushesAppend, DoFlushesFinite
  <1>3. TypeOK'
    BY <1>2 DEF Inv, TypeOK
  <1> QED
    BY <1>2, <1>3
       DEF Inv, WireOrder, ShutdownBehindQueue, FlushesCounted, FramesCall, AcceptedTold

\* Every step preserves the invariant.
LEMMA InvNext == Inv /\ [Next]_vars => Inv'
  <1> SUFFICES ASSUME Inv, [Next]_vars PROVE Inv'
    OBVIOUS
  <1>1. CASE \E m \in Items : Send(m) \/ CloseStream(m)
    BY <1>1, SendInvariant, CloseStreamInvariant
  <1>2. CASE SenderStep
    BY <1>2, CallbackReturnInvariant, LoopSendInvariant, LoopBlockedInvariant,
       LoopDoneInvariant DEF SenderStep
  <1>3. CASE CloseFlush
    BY <1>3, CloseFlushInvariant
  <1>4. CASE RunFlush
    BY <1>4, RunFlushInvariant
  <1>5. CASE \E u \in Upcallers : UpcallEnqueue(u)
    BY <1>5, UpcallEnqueueInvariant
  <1>6. CASE \/ CloseStop \/ Acknowledge \/ Connect \/ Disconnect
             \/ \E u \in Upcallers : UpcallCheck(u)
             \/ UNCHANGED vars
    BY <1>6, OtherInvariant
  <1> QED
    BY <1>1, <1>2, <1>3, <1>4, <1>5, <1>6 DEF Next

-----------------------------------------------------------------------------
\* The inductive invariant holds of every reachable state.
THEOREM Invariance == Spec => []Inv
  BY InvInit, InvNext, PTL DEF Spec

\* Items reach usrsctp in the order in which they were accepted and each once,
\* however the sends, the callbacks and the flushes interleave; and the
\* association is shut down only behind an empty queue.
THEOREM SendsInOrder == Spec => []SendInv
  <1>1. Inv => SendInv
    BY DEF Inv, SendInv, ShutdownBehindQueue, ShutdownDrained
  <1> QED
    BY <1>1, Invariance, PTL

\* The test of enqueueFlush() is not atomic with its count, and yet the count is
\* always the number of doFlush() tasks that wait: it cannot wrap below zero and
\* suppress the flushes that follow.
THEOREM FlushCountExact == Spec => []FlushesCounted
  <1>1. Inv => FlushesCounted
    BY DEF Inv
  <1> QED
    BY <1>1, Invariance, PTL

-----------------------------------------------------------------------------
\* A set of natural numbers has a least element.
LEMMA Least ==
    ASSUME NEW S \in SUBSET Nat, S # {}
    PROVE  \E x \in S : \A y \in S : x <= y
  <1> DEFINE R == {ss \in Nat \X Nat : ss[1] < ss[2]}
  <1>1. IsWellFoundedOn(R, Nat)
    BY NatLessThanWellFounded DEF OpToRel
  <1>2. \E x \in S : \A y \in S : <<y, x>> \notin R
    <2> HIDE DEF R
    <2> QED
      BY <1>1, WFMin
  <1>3. \A x, y \in S : <<y, x>> \notin R => x <= y
    OBVIOUS
  <1> QED
    BY <1>2, <1>3

\* What holds at 0 and is passed on up to N holds up to N.
LEMMA Climb ==
    ASSUME NEW N \in Nat, NEW G, 0 \in G, \A n \in 0..N - 1 : n \in G => n + 1 \in G
    PROVE  \A n \in 0..N : n \in G
  <1> DEFINE Out == {n \in 0..N : n \notin G}
  <1> SUFFICES ASSUME Out # {}
               PROVE  FALSE
    OBVIOUS
  <1>1. PICK x \in Out : \A y \in Out : x <= y
    <2>1. Out \in SUBSET Nat
      OBVIOUS
    <2> HIDE DEF Out
    <2> QED
      BY <2>1, Least
  <1>2. x - 1 \in 0..N - 1 /\ x - 1 \in G
    BY <1>1
  <1> QED
    BY <1>1, <1>2


\* The function that MapThenSumSet builds on the subsets of a set: the size of what CHOOSE
\* takes from a set, and the sum of the rest.
Pick(t) == CHOOSE x \in t : TRUE
Summed(f, t) == IF t = {} THEN 0 ELSE SizeOf[Pick(t)] + f[t \ {Pick(t)}]
Sums(f, S) == f = [t \in SUBSET S |-> Summed(f, t)]
Of(s, ms) == {m \in ms : StreamOf[m] = s}

\* Sum is such a function, applied to the items of the stream.
LEMMA SumOf ==
    ASSUME NEW s, NEW ms
    PROVE  Sum(s, ms) = (CHOOSE f : Sums(f, Of(s, ms)))[Of(s, ms)]
  BY DEF Sum, MapThenSumSet, MapThenFoldSet, Sums, Summed, Pick, Of

\* What is taken from a set leaves a smaller one.
LEMMA Smaller ==
    ASSUME NEW S, IsFiniteSet(S), NEW t \in SUBSET S, NEW x \in t
    PROVE  /\ t \ {x} \in SUBSET S
           /\ Cardinality(t) \in Nat \ {0} /\ Cardinality(t) <= Cardinality(S)
           /\ Cardinality(t \ {x}) = Cardinality(t) - 1
  <1>1. IsFiniteSet(t) /\ Cardinality(t) <= Cardinality(S)
    BY FS_Subset
  <1> QED
    BY <1>1, FS_RemoveElement, FS_CardinalityType, FS_EmptySet

\* A claim about the subsets of a finite set holds for all of them when it holds for
\* each whose smaller ones it holds for.
LEMMA BySize ==
    ASSUME NEW S, IsFiniteSet(S), NEW G,
           \A t \in SUBSET S : (\A x \in t : t \ {x} \in G) => t \in G
    PROVE  \A t \in SUBSET S : t \in G
  <1> DEFINE H == {n \in Nat : \A t \in SUBSET S : Cardinality(t) = n => t \in G}
             N == Cardinality(S)
  <1>1. N \in Nat
    BY FS_CardinalityType
  <1>2. 0 \in H
    <2>1. ASSUME NEW t \in SUBSET S, Cardinality(t) = 0
          PROVE  t \in G
      <3>1. t = {}
        BY <2>1, FS_Subset, FS_EmptySet
      <3> QED
        BY <3>1
    <2> QED
      BY <2>1
  <1>3. ASSUME NEW n \in 0..N - 1, n \in H
        PROVE  n + 1 \in H
    <2>1. ASSUME NEW t \in SUBSET S, Cardinality(t) = n + 1
          PROVE  t \in G
      <3>1. \A x \in t : t \ {x} \in SUBSET S /\ Cardinality(t \ {x}) = n
        BY <2>1, Smaller
      <3> QED
        BY <1>3, <3>1
    <2> QED
      BY <1>3, <2>1
  <1>4. \A n \in 0..N : n \in H
    <2> HIDE DEF H, N
    <2> QED
      BY <1>1, <1>2, <1>3, Climb
  <1> SUFFICES ASSUME NEW t \in SUBSET S PROVE t \in G
    OBVIOUS
  <1>5. Cardinality(t) \in 0..N
    BY <1>1, FS_Subset, FS_CardinalityType
  <1> QED
    BY <1>4, <1>5

\* The function exists.
LEMMA SumExists ==
    ASSUME NEW S, IsFiniteSet(S)
    PROVE  \E f : Sums(f, S)
  <1> DEFINE Right(f, n) == /\ \E g : f = [t \in SUBSET S |-> g[t]]
                            /\ \A t \in SUBSET S : Cardinality(t) <= n => f[t] = Summed(f, t)
             G == {n \in Nat : \E f : Right(f, n)}
             N == Cardinality(S)
  <1>1. N \in Nat
    BY FS_CardinalityType
  <1>2. \A t \in SUBSET S : Cardinality(t) \in Nat /\ Cardinality(t) <= N /\ IsFiniteSet(t)
    BY <1>1, FS_Subset, FS_CardinalityType
  <1>3. 0 \in G
    <2> DEFINE g == [t \in SUBSET S |-> 0]
    <2>1. ASSUME NEW t \in SUBSET S, Cardinality(t) <= 0
          PROVE  g[t] = Summed(g, t)
      <3>1. t = {}
        BY <1>2, <2>1, FS_EmptySet
      <3> QED
        BY <3>1 DEF Summed
    <2>2. g = [t \in SUBSET S |-> g[t]]
      OBVIOUS
    <2> HIDE DEF g
    <2> QED
      BY <2>1, <2>2
  <1>4. ASSUME NEW n \in 0..N - 1, n \in G
        PROVE  n + 1 \in G
    <2>1. PICK f : Right(f, n)
      BY <1>4
    <2> DEFINE g == [t \in SUBSET S |-> Summed(f, t)]
    <2>2. \A t \in SUBSET S : Cardinality(t) <= n => g[t] = f[t]
      BY <2>1
    <2>3. \A t \in SUBSET S : g[t] = Summed(f, t)
      OBVIOUS
    <2>4. g = [t \in SUBSET S |-> g[t]]
      OBVIOUS
    <2> HIDE DEF g
    <2>5. ASSUME NEW t \in SUBSET S, Cardinality(t) <= n + 1
          PROVE  g[t] = Summed(g, t)
      <3>1. CASE t = {}
        BY <2>3, <3>1 DEF Summed
      <3>2. CASE t # {}
        <4>1. Pick(t) \in t
          BY <3>2 DEF Pick
        <4>2. /\ t \ {Pick(t)} \in SUBSET S
              /\ Cardinality(t \ {Pick(t)}) = Cardinality(t) - 1 /\ Cardinality(t) \in Nat
          BY <4>1, Smaller
        <4>3. g[t \ {Pick(t)}] = f[t \ {Pick(t)}]
          BY <2>2, <2>5, <4>2
        <4> QED
          BY <2>3, <3>2, <4>3 DEF Summed
      <3> QED
        BY <3>1, <3>2
    <2>6. Right(g, n + 1)
      BY <2>4, <2>5
    <2> HIDE DEF Right
    <2> QED
      BY <1>4, <2>6
  <1>5. N \in G
    <2> HIDE DEF G, N
    <2> QED
      BY <1>1, <1>3, <1>4, Climb
  <1>6. PICK f : Right(f, N)
    BY <1>5
  <1>7. f = [t \in SUBSET S |-> Summed(f, t)]
    <2>1. \A t \in SUBSET S : f[t] = Summed(f, t)
      BY <1>2, <1>6
    <2>2. PICK g : f = [t \in SUBSET S |-> g[t]]
      BY <1>6
    <2> QED
      BY <2>1, <2>2
  <1> QED
    BY <1>7 DEF Sums

\* On the subsets of a finite set of items the sum does not depend on the order, nor on
\* the set whose subsets they are.
LEMMA SumLaws ==
    ASSUME NEW S \in SUBSET Items, IsFiniteSet(S), NEW f, Sums(f, S)
    PROVE  /\ \A t \in SUBSET S : f[t] \in Nat
           /\ f[{}] = 0
           /\ \A t \in SUBSET S : \A x \in t : f[t] = SizeOf[x] + f[t \ {x}]
           /\ \A T \in SUBSET S : \A g : Sums(g, T) => g[T] = f[T]
  <1>1. \A t \in SUBSET S : f[t] = Summed(f, t)
    BY DEF Sums
  <1>2. \A t \in SUBSET S : t # {} =>
            /\ Pick(t) \in t /\ t \ {Pick(t)} \in SUBSET S
            /\ f[t] = SizeOf[Pick(t)] + f[t \ {Pick(t)}]
    BY <1>1 DEF Summed, Pick
  <1>3. f[{}] = 0
    BY <1>1 DEF Summed
  <1>4. \A x \in S : SizeOf[x] \in Nat
    BY ItemAssumption
  <1>5. \A t \in SUBSET S : f[t] \in Nat
    <2> DEFINE G == {t \in SUBSET S : f[t] \in Nat}
    <2>1. ASSUME NEW t \in SUBSET S, \A x \in t : t \ {x} \in G
          PROVE  t \in G
      <3>1. CASE t = {}
        BY <1>3, <3>1
      <3>2. CASE t # {}
        <4>1. Pick(t) \in t /\ f[t] = SizeOf[Pick(t)] + f[t \ {Pick(t)}]
          BY <1>2, <3>2
        <4>2. f[t \ {Pick(t)}] \in Nat /\ SizeOf[Pick(t)] \in Nat
          BY <1>4, <2>1, <4>1
        <4> QED
          BY <4>1, <4>2
      <3> QED
        BY <3>1, <3>2
    <2>2. \A t \in SUBSET S : t \in G
      <3> HIDE DEF G
      <3> QED
        BY <2>1, BySize
    <2> QED
      BY <2>2
  <1>6. \A t \in SUBSET S : \A x \in t : f[t] = SizeOf[x] + f[t \ {x}]
    <2> DEFINE G == {t \in SUBSET S : \A x \in t : f[t] = SizeOf[x] + f[t \ {x}]}
    <2>1. ASSUME NEW t \in SUBSET S, \A x \in t : t \ {x} \in G
          PROVE  t \in G
      <3> SUFFICES ASSUME NEW x \in t, x # Pick(t)
                   PROVE  f[t] = SizeOf[x] + f[t \ {x}]
        BY <1>2
      <3> DEFINE p == Pick(t)
                 u == t \ {p}
                 v == t \ {x}
                 w == t \ {p, x}
      <3>1. p \in t /\ f[t] = SizeOf[p] + f[u]
        BY <1>2
      <3>2. u \in G /\ v \in G /\ x \in u /\ p \in v
        BY <2>1, <3>1
      <3>3. u \ {x} = w /\ v \ {p} = w
        OBVIOUS
      <3>4. f[u] = SizeOf[x] + f[w] /\ f[v] = SizeOf[p] + f[w]
        BY <3>2, <3>3
      <3>5. f[w] \in Nat /\ SizeOf[x] \in Nat /\ SizeOf[p] \in Nat
        BY <1>4, <1>5, <3>1
      <3> HIDE DEF p, u, w
      <3>6. f[t] = SizeOf[x] + f[v]
        BY <3>1, <3>4, <3>5
      <3> QED
        BY <3>6
    <2>2. \A t \in SUBSET S : t \in G
      <3> HIDE DEF G
      <3> QED
        BY <2>1, BySize
    <2> QED
      BY <2>2
  <1>7. ASSUME NEW T \in SUBSET S, NEW g, Sums(g, T)
        PROVE  g[T] = f[T]
    <2> DEFINE G == {t \in SUBSET T : g[t] = f[t]}
    <2>1. ASSUME NEW t \in SUBSET T, \A x \in t : t \ {x} \in G
          PROVE  t \in G
      <3>1. g[t] = Summed(g, t) /\ f[t] = Summed(f, t)
        BY <1>1, <1>7 DEF Sums
      <3>2. t # {} => g[t \ {Pick(t)}] = f[t \ {Pick(t)}]
        BY <2>1 DEF Pick
      <3> QED
        BY <3>1, <3>2 DEF Summed
    <2>2. IsFiniteSet(T)
      BY FS_Subset
    <2>3. T \in G
      <3> HIDE DEF G
      <3> QED
        BY <2>1, <2>2, BySize
    <2> QED
      BY <2>3
  <1> QED
    BY <1>3, <1>5, <1>6, <1>7

\* The sum of a stream is a natural number, and an item adds its size to that of its stream.
LEMMA SumAdds ==
    ASSUME NEW ms \in SUBSET Items, IsFiniteSet(ms), NEW m \in Items, m \notin ms, NEW s
    PROVE  /\ Sum(s, ms) \in Nat
           /\ Sum(s, ms \cup {m}) = Sum(s, ms) + (IF StreamOf[m] = s THEN SizeOf[m] ELSE 0)
  <1> DEFINE S == Of(s, ms)
             T == Of(s, ms \cup {m})
  <1>1. /\ S \in SUBSET Items /\ T \in SUBSET Items /\ S \in SUBSET T
        /\ T = IF StreamOf[m] = s THEN S \cup {m} ELSE S
    BY DEF Of
  <1>2. IsFiniteSet(S) /\ IsFiniteSet(T)
    <2>1. IsFiniteSet(ms \cup {m}) /\ S \in SUBSET ms /\ T \in SUBSET (ms \cup {m})
      BY FS_AddElement DEF Of
    <2> QED
      BY <2>1, FS_Subset
  <1>3. m \notin S
    BY DEF Of
  <1> DEFINE f == CHOOSE h : Sums(h, T)
             g == CHOOSE h : Sums(h, S)
  <1>4. Sum(s, ms) = g[S] /\ Sum(s, ms \cup {m}) = f[T]
    BY SumOf
  <1> HIDE DEF S, T
  <1>5. Sums(f, T) /\ Sums(g, S)
    BY <1>2, SumExists
  <1> HIDE DEF f, g
  <1>6. /\ f[S] \in Nat /\ g[S] = f[S]
        /\ \A x \in T : f[T] = SizeOf[x] + f[T \ {x}]
    BY <1>1, <1>2, <1>5, SumLaws
  <1>7. CASE StreamOf[m] = s
    <2>1. m \in T /\ T \ {m} = S
      BY <1>1, <1>3, <1>7
    <2>2. SizeOf[m] \in Nat
      BY ItemAssumption
    <2>3. f[T] = SizeOf[m] + f[S]
      BY <1>6, <2>1
    <2>4. f[T] = f[S] + SizeOf[m]
      BY <1>6, <2>2, <2>3
    <2> QED
      BY <1>4, <1>6, <1>7, <2>4
  <1>8. CASE StreamOf[m] # s
    BY <1>1, <1>4, <1>6, <1>8
  <1> QED
    BY <1>7, <1>8

\* Nothing has no size.
LEMMA SumNone ==
    ASSUME NEW s
    PROVE  Sum(s, {}) = 0
  <1>1. Of(s, {}) = {} /\ {} \in SUBSET Items /\ IsFiniteSet({})
    BY FS_EmptySet DEF Of
  <1> DEFINE f == CHOOSE h : Sums(h, {})
  <1>2. Sums(f, {})
    BY <1>1, SumExists
  <1>3. Sum(s, {}) = f[{}]
    BY <1>1, SumOf
  <1> HIDE DEF f
  <1> QED
    BY <1>1, <1>2, <1>3, SumLaws

-----------------------------------------------------------------------------
\* The messages that were sent after close() had stopped the queue.
Lost == {m \in Items \ Resets : result[m] = "dropped"}

\* What mBufferedAmount counts: these and what is queued.
Counted == ToSet(mSendQueue) \cup Lost

\* The inductive invariant: besides, finitely many messages are lost, so that their sizes
\* have a sum, and a reset is never the item of a call of send().
Accounted ==
    /\ BufferedAccounted /\ IsFiniteSet(Lost)
    /\ \A r \in Resets : result[r] # "calling"

\* The elements of a queue, when one is pushed.
LEMMA Pushed ==
    ASSUME NEW q \in Seq(Items), NEW m \in Items
    PROVE  ToSet(Append(q, m)) = ToSet(q) \cup {m}
  <1>1. /\ Append(q, m) \in Seq(Items) /\ Len(q) \in Nat
        /\ Len(Append(q, m)) = Len(q) + 1
        /\ \A i \in 1..Len(q) : Append(q, m)[i] = q[i]
        /\ Append(q, m)[Len(q) + 1] = m
    BY AppendProperties, LenProperties
  <1>2. DOMAIN q = 1..Len(q) /\ DOMAIN Append(q, m) = 1..Len(q) + 1
    BY <1>1, LenProperties
  <1> DEFINE u == Append(q, m)
  <1> HIDE DEF u
  <1> QED
    BY <1>1, <1>2 DEF ToSet, u

\* The elements of a queue of distinct items, when the first is popped.
LEMMA Popped ==
    ASSUME NEW q \in Seq(Items), q # <<>>,
           \A i, j \in 1..Len(q) : q[i] = q[j] => i = j
    PROVE  /\ Head(q) \in ToSet(q)
           /\ ToSet(Tail(q)) = ToSet(q) \ {Head(q)}
  <1>1. /\ Tail(q) \in Seq(Items) /\ Len(q) \in Nat \ {0} /\ Head(q) = q[1]
        /\ Len(Tail(q)) = Len(q) - 1
        /\ \A i \in 1..Len(q) - 1 : Tail(q)[i] = q[i + 1]
    BY HeadTailProperties, EmptySeq
  <1>2. DOMAIN q = 1..Len(q) /\ DOMAIN Tail(q) = 1..Len(q) - 1
    BY <1>1, LenProperties
  <1> DEFINE u == Tail(q)
  <1> HIDE DEF u
  <1>3. \A x : x \in ToSet(u) <=> \E i \in 1..Len(q) - 1 : x = q[i + 1]
    <2>1. DOMAIN u = 1..Len(q) - 1 /\ \A i \in 1..Len(q) - 1 : u[i] = q[i + 1]
      BY <1>1, <1>2 DEF u
    <2>2. \A x : x \in ToSet(u) <=> \E i \in DOMAIN u : x = u[i]
      BY DEF ToSet
    <2> DEFINE n == Len(q) - 1
    <2> HIDE DEF n
    <2>3. ASSUME NEW x
          PROVE  (\E i \in DOMAIN u : x = u[i]) <=> (\E i \in 1..n : x = q[i + 1])
      BY <2>1 DEF n
    <2> QED
      BY <2>2, <2>3 DEF n
  <1>4. \A x : x \in ToSet(q) <=> \E i \in 1..Len(q) : x = q[i]
    BY <1>2 DEF ToSet
  <1>5. Head(q) \in ToSet(q)
    BY <1>1, <1>4
  <1>6. ASSUME NEW x \in ToSet(u)
        PROVE  x \in ToSet(q) /\ x # Head(q)
    <2>1. PICK i \in 1..Len(q) - 1 : x = q[i + 1]
      BY <1>3
    <2>2. i + 1 \in 1..Len(q) /\ 1 \in 1..Len(q) /\ i + 1 # 1
      BY <1>1
    <2> QED
      BY <1>1, <1>4, <2>1, <2>2
  <1>7. ASSUME NEW x \in ToSet(q), x # Head(q)
        PROVE  x \in ToSet(u)
    <2>1. PICK i \in 1..Len(q) : x = q[i]
      BY <1>4
    <2>2. i - 1 \in 1..Len(q) - 1 /\ i = (i - 1) + 1
      BY <1>1, <1>7, <2>1
    <2> QED
      BY <1>3, <2>1, <2>2
  <1>8. ToSet(u) = ToSet(q) \ {Head(q)}
    BY <1>6, <1>7
  <1> QED
    BY <1>5, <1>8 DEF u

\* What is counted was accepted, or lost; it is finite, and nothing is queued twice.
LEMMA CountedProperties ==
    ASSUME Inv, IsFiniteSet(Lost)
    PROVE  /\ Counted \in SUBSET Items /\ IsFiniteSet(Counted)
           /\ \A m \in Counted : result[m] \in {"true", "false", "dropped"}
           /\ \A m \in ToSet(mSendQueue) : m \notin Lost
           /\ \A i, j \in 1..Len(mSendQueue) : mSendQueue[i] = mSendQueue[j] => i = j
  <1>1. mSendQueue \in Seq(Items) /\ wire \in Seq(Items) /\ wire \o mSendQueue = committed
    BY DEF Inv, TypeOK, WireOrder
  <1>2. /\ Len(wire) \in Nat /\ Len(mSendQueue) \in Nat /\ DOMAIN mSendQueue = 1..Len(mSendQueue)
        /\ \A i \in 1..Len(mSendQueue) : mSendQueue[i] \in Items
    BY <1>1, LenProperties, ElementOfSeq
  <1>3. /\ Len(committed) = Len(wire) + Len(mSendQueue) /\ committed \in Seq(Items)
        /\ \A i \in 1..Len(wire) + Len(mSendQueue) :
               committed[i] = IF i <= Len(wire) THEN wire[i] ELSE mSendQueue[i - Len(wire)]
    BY <1>1, ConcatProperties
  <1>4. ASSUME NEW i \in 1..Len(mSendQueue)
        PROVE  i + Len(wire) \in 1..Len(committed) /\ committed[i + Len(wire)] = mSendQueue[i]
    <2>1. /\ i + Len(wire) \in 1..Len(wire) + Len(mSendQueue)
          /\ ~(i + Len(wire) <= Len(wire)) /\ (i + Len(wire)) - Len(wire) = i
      BY <1>2
    <2> QED
      BY <1>3, <2>1
  <1>5. \A i \in 1..Len(mSendQueue) : result[mSendQueue[i]] \in {"true", "false"}
    BY <1>4 DEF Inv, AcceptedTold
  <1>6. \A i, j \in 1..Len(mSendQueue) : mSendQueue[i] = mSendQueue[j] => i = j
    <2>1. DOMAIN committed = 1..Len(committed)
      BY <1>3, LenProperties
    <2>2. \A i, j \in 1..Len(mSendQueue) : mSendQueue[i] = mSendQueue[j] => i + Len(wire) = j + Len(wire)
      BY <1>4, <2>1 DEF Inv, WireOrder, IsInjective
    <2> QED
      BY <1>2, <2>2
  <1>7. \A x : x \in ToSet(mSendQueue) <=> \E i \in 1..Len(mSendQueue) : x = mSendQueue[i]
    BY <1>2 DEF ToSet
  <1>8. IsFiniteSet(ToSet(mSendQueue))
    <2>1. ToSet(mSendQueue) = {mSendQueue[i] : i \in 1..Len(mSendQueue)}
      BY <1>2 DEF ToSet
    <2>2. mSendQueue \in Surjection(1..Len(mSendQueue), ToSet(mSendQueue))
      BY <1>1, <1>2, <2>1, SeqDef DEF Surjection
    <2> QED
      BY <1>2, <2>2, FS_Interval, FS_Surjection
  <1>9. IsFiniteSet(Counted)
    BY <1>8, FS_Union DEF Counted
  <1> QED
    BY <1>2, <1>5, <1>6, <1>7, <1>9 DEF Counted, Lost

\* Something is counted.
LEMMA CountAdd ==
    ASSUME Inv, Accounted, NEW m \in Items, m \notin Counted, Counted' = Counted \cup {m},
           \A s \in Streams : mBufferedAmount'[s] =
               mBufferedAmount[s] + (IF StreamOf[m] = s THEN SizeOf[m] ELSE 0)
    PROVE  BufferedAccounted'
  <1> SUFFICES ASSUME NEW s \in Streams
               PROVE  mBufferedAmount'[s] = Sum(s, Counted')
    BY DEF BufferedAccounted, Counted, Lost
  <1>1. mBufferedAmount[s] = Sum(s, Counted)
    BY DEF Accounted, BufferedAccounted, Counted, Lost
  <1>2. Counted \in SUBSET Items /\ IsFiniteSet(Counted)
    BY CountedProperties DEF Accounted
  <1>3. Sum(s, Counted \cup {m}) = Sum(s, Counted) + (IF StreamOf[m] = s THEN SizeOf[m] ELSE 0)
    BY <1>2, SumAdds
  <1> QED
    BY <1>1, <1>3

\* Something is no longer counted.
LEMMA CountTake ==
    ASSUME Inv, Accounted, NEW m \in Counted, Counted' = Counted \ {m},
           \A s \in Streams : mBufferedAmount'[s] =
               IF StreamOf[m] # s THEN mBufferedAmount[s]
               ELSE IF mBufferedAmount[s] - SizeOf[m] < 0 THEN 0 ELSE mBufferedAmount[s] - SizeOf[m]
    PROVE  BufferedAccounted'
  <1> SUFFICES ASSUME NEW s \in Streams
               PROVE  mBufferedAmount'[s] = Sum(s, Counted')
    BY DEF BufferedAccounted, Counted, Lost
  <1>1. mBufferedAmount[s] = Sum(s, Counted)
    BY DEF Accounted, BufferedAccounted, Counted, Lost
  <1>2. Counted \in SUBSET Items /\ IsFiniteSet(Counted)
    BY CountedProperties DEF Accounted
  <1> DEFINE rest == Counted \ {m}
  <1>3. /\ rest \in SUBSET Items /\ IsFiniteSet(rest) /\ m \in Items /\ m \notin rest
        /\ Counted = rest \cup {m} /\ SizeOf[m] \in Nat
    BY <1>2, FS_Subset, ItemAssumption
  <1> HIDE DEF rest
  <1>4. /\ Sum(s, rest) \in Nat
        /\ Sum(s, rest \cup {m}) = Sum(s, rest) + (IF StreamOf[m] = s THEN SizeOf[m] ELSE 0)
    BY <1>3, SumAdds
  <1>5. mBufferedAmount[s] = Sum(s, rest) + (IF StreamOf[m] = s THEN SizeOf[m] ELSE 0)
    BY <1>1, <1>3, <1>4
  <1>6. mBufferedAmount'[s] = Sum(s, rest)
    BY <1>3, <1>4, <1>5
  <1> QED
    BY <1>6 DEF rest

\* What is counted stays.
LEMMA CountStay ==
    ASSUME Accounted, Counted' = Counted, UNCHANGED mBufferedAmount
    PROVE  BufferedAccounted'
  BY DEF Accounted, BufferedAccounted, Counted, Lost

-----------------------------------------------------------------------------
\* The amounts are zero at first.
LEMMA AccountedInit == Init => Accounted
  <1> SUFFICES ASSUME Init PROVE Accounted
    OBVIOUS
  <1>1. Lost = {} /\ ToSet(mSendQueue) = {}
    BY DEF Init, Lost, ToSet
  <1>2. \A s \in Streams : mBufferedAmount[s] = 0
    BY DEF Init
  <1>3. ToSet(mSendQueue) \cup {m \in Items \ Resets : result[m] = "dropped"} = {}
    BY <1>1 DEF Lost
  <1>4. \A r \in Resets : result[r] # "calling"
    BY ItemAssumption DEF Init
  <1> QED
    BY <1>1, <1>2, <1>3, <1>4, SumNone, FS_EmptySet DEF Accounted, BufferedAccounted

\* An item whose send ends otherwise than dropped changes nothing that is lost.
LEMMA NotLost ==
    ASSUME Inv, NEW m \in Items, result[m] # "dropped", NEW v, v # "dropped",
           result' = [result EXCEPT ![m] = v]
    PROVE  Lost' = Lost
  BY DEF Inv, TypeOK, Lost

\* Settling an item leaves no reset calling.
LEMMA NoResetCalls ==
    ASSUME Inv, Accounted, NEW m \in Items, NEW v, v = "calling" => m \notin Resets,
           result' = [result EXCEPT ![m] = v]
    PROVE  \A r \in Resets : result'[r] # "calling"
  BY ItemAssumption DEF Inv, TypeOK, Accounted

\* The item of a call in progress is not counted yet.
LEMMA CallingNotCounted ==
    ASSUME Inv, Accounted, In("no"), Active.item # NoItem
    PROVE  /\ Active.item \in Items /\ result[Active.item] = "calling"
           /\ Active.item \notin Counted
  <1>1. Active.item \in Items /\ result[Active.item] = "calling"
    <2>1. /\ Len(stack) \in 1..Len(stack) /\ Active = stack[Len(stack)]
          /\ Active.item \in Items
      BY TopFrame DEF Inv, In
    <2> QED
      BY <2>1 DEF Inv, FramesCall, Pending, In
  <1> QED
    BY <1>1, CountedProperties DEF Accounted

\* send() counts its message, whether it is queued or lost.
LEMMA EnqueueAccounted ==
    ASSUME Inv, Accounted, In("no"), Active.item # NoItem, Enqueue(Active.item)
    PROVE  Accounted'
  <1> DEFINE m == Active.item
  <1>1. m \in Items /\ result[m] = "calling" /\ m \notin Counted
    BY CallingNotCounted
  <1> HIDE DEF m
  <1>2. Enqueue(m) /\ SizeOf[m] \in Nat
    BY <1>1, ItemAssumption DEF m
  <1>3. \A s \in Streams : mBufferedAmount'[s] =
            mBufferedAmount[s] + (IF StreamOf[m] = s THEN SizeOf[m] ELSE 0)
    <2>1. \A s \in Streams : mBufferedAmount[s] \in Nat
      BY DEF Inv, TypeOK
    <2>2. mBufferedAmount' = [mBufferedAmount EXCEPT
              ![StreamOf[m]] = IF @ + SizeOf[m] < 0 THEN 0 ELSE @ + SizeOf[m]]
      BY <1>2 DEF Enqueue, UpdateBufferedAmount
    <2>3. mBufferedAmount \in [Streams -> Nat]
      BY DEF Inv, TypeOK
    <2> QED
      BY <1>2, <2>1, <2>2, <2>3
  <1>4. /\ IsFiniteSet(Lost')
        /\ Counted' = Counted \cup {m}
    <2>1. CASE stopped
      <3>1. result' = [result EXCEPT ![m] = "dropped"] /\ UNCHANGED mSendQueue
        BY <1>2, <2>1 DEF Enqueue
      <3>2. m \notin Resets
        BY <1>1 DEF Accounted
      <3>3. Lost' = Lost \cup {m}
        BY <1>1, <3>1, <3>2 DEF Inv, TypeOK, Lost
      <3> QED
        BY <3>1, <3>3, FS_AddElement DEF Accounted, Counted
    <2>2. CASE ~stopped
      <3>1. mSendQueue' = Append(mSendQueue, m) /\ result' = [result EXCEPT ![m] = "false"]
        BY <1>2, <2>2 DEF Enqueue
      <3>2. Lost' = Lost
        BY <1>1, <3>1, NotLost
      <3>3. mSendQueue \in Seq(Items)
        BY DEF Inv, TypeOK
      <3>4. ToSet(mSendQueue') = ToSet(mSendQueue) \cup {m}
        BY <1>1, <3>1, <3>3, Pushed
      <3> QED
        BY <3>2, <3>4 DEF Accounted, Counted
    <2> QED
      BY <2>1, <2>2
  <1>5. \A r \in Resets : result'[r] # "calling"
    <2>1. \E v : v # "calling" /\ result' = [result EXCEPT ![m] = v]
      BY <1>2 DEF Enqueue
    <2> QED
      BY <1>1, <2>1, NoResetCalls
  <1> QED
    BY <1>1, <1>3, <1>4, <1>5, CountAdd DEF Accounted

\* A step that sends, queues and loses nothing.
LEMMA NothingCounted ==
    ASSUME Accounted, UNCHANGED <<mSendQueue, mBufferedAmount, result>>
    PROVE  Accounted'
  BY DEF Accounted, BufferedAccounted, Lost

\* send() begins.
LEMMA SendAccounted ==
    ASSUME Inv, Accounted, NEW m \in Items, Send(m)
    PROVE  Accounted'
  <1>1. /\ m \notin Resets /\ result[m] # "dropped" /\ UNCHANGED <<mSendQueue, mBufferedAmount>>
        /\ \/ result' = [result EXCEPT ![m] = "refused"]
           \/ result' = [result EXCEPT ![m] = "calling"]
    BY DEF Send
  <1>2. Lost' = Lost /\ \A r \in Resets : result'[r] # "calling"
    BY <1>1, NotLost, NoResetCalls
  <1> QED
    BY <1>1, <1>2, CountStay DEF Accounted, Counted

\* trySendQueue takes the size of the head off the amount, which includes it.
LEMMA LoopSendAccounted ==
    ASSUME Inv, Accounted, LoopSend
    PROVE  Accounted'
  <1> DEFINE m == Head(mSendQueue)
  <1>1. mSendQueue \in Seq(Items) /\ mSendQueue # <<>> /\ mSendQueue' = Tail(mSendQueue)
    BY DEF Inv, TypeOK, LoopSend
  <1>2. m \in ToSet(mSendQueue) /\ ToSet(mSendQueue') = ToSet(mSendQueue) \ {m}
    BY <1>1, CountedProperties, Popped DEF Accounted
  <1>3. m \in Counted /\ m \notin Lost /\ m \in Items /\ SizeOf[m] \in Nat
    BY <1>2, CountedProperties, ItemAssumption DEF Accounted, Counted
  <1>4. UNCHANGED result /\ Lost' = Lost
    BY DEF LoopSend, Lost
  <1>5. mBufferedAmount' = [mBufferedAmount EXCEPT
            ![StreamOf[m]] = IF @ + (-SizeOf[m]) < 0 THEN 0 ELSE @ + (-SizeOf[m])]
    BY DEF LoopSend, UpdateBufferedAmount
  <1> HIDE DEF m
  <1>6. Counted' = Counted \ {m}
    BY <1>2, <1>3, <1>4 DEF Counted
  <1>7. \A s \in Streams : mBufferedAmount'[s] =
            IF StreamOf[m] # s THEN mBufferedAmount[s]
            ELSE IF mBufferedAmount[s] - SizeOf[m] < 0 THEN 0 ELSE mBufferedAmount[s] - SizeOf[m]
    <2>1. mBufferedAmount \in [Streams -> Nat]
      BY DEF Inv, TypeOK
    <2> QED
      BY <1>3, <1>5, <2>1
  <1> QED
    BY <1>3, <1>4, <1>6, <1>7, CountTake DEF Accounted

\* trySendQueue fails.
LEMMA LoopBlockedAccounted ==
    ASSUME Inv, Accounted, LoopBlocked
    PROVE  Accounted'
  <1>1. CASE Active.item = NoItem
    BY <1>1, NothingCounted DEF LoopBlocked
  <1>2. CASE Active.item # NoItem
    BY <1>2, EnqueueAccounted DEF LoopBlocked
  <1> QED
    BY <1>1, <1>2

\* The queue is empty: a direct send counts nothing.
LEMMA LoopDoneAccounted ==
    ASSUME Inv, Accounted, LoopDone
    PROVE  Accounted'
  <1> DEFINE m == Active.item
  <1>1. CASE Active.item = NoItem
    BY <1>1, NothingCounted DEF LoopDone
  <1>2. CASE /\ m # NoItem /\ UNCHANGED <<mSendQueue, mBufferedAmount>>
             /\ \/ result' = [result EXCEPT ![m] = "thrown"]
                \/ result' = [result EXCEPT ![m] = "true"]
    <2>1. m \in Items /\ result[m] = "calling"
      BY <1>2, CallingNotCounted DEF LoopDone
    <2> HIDE DEF m
    <2>2. Lost' = Lost /\ \A r \in Resets : result'[r] # "calling"
      BY <1>2, <2>1, NotLost, NoResetCalls
    <2> QED
      BY <1>2, <2>2, CountStay DEF Accounted, Counted
  <1>3. CASE m # NoItem /\ Enqueue(m)
    BY <1>3, EnqueueAccounted DEF LoopDone
  <1> QED
    BY <1>1, <1>2, <1>3 DEF LoopDone

\* closeStream queues a reset, which has no size.
LEMMA CloseStreamAccounted ==
    ASSUME Inv, Accounted, NEW r \in Items, CloseStream(r)
    PROVE  Accounted'
  <1>1. r \in Resets /\ result[r] = "none" /\ SizeOf[r] = 0 /\ UNCHANGED mBufferedAmount
    BY ItemAssumption DEF CloseStream
  <1>2. r \notin Counted
    BY <1>1, CountedProperties DEF Accounted
  <1>3. CASE /\ result' = [result EXCEPT ![r] = "dropped"]
             /\ UNCHANGED mSendQueue
    <2>1. Lost' = Lost
      BY <1>1, <1>3 DEF Inv, TypeOK, Lost
    <2>2. \A x \in Resets : result'[x] # "calling"
      BY <1>3, NoResetCalls
    <2> QED
      BY <1>1, <1>3, <2>1, <2>2, CountStay DEF Accounted, Counted
  <1>4. CASE /\ result' = [result EXCEPT ![r] = "false"]
             /\ mSendQueue' = Append(mSendQueue, r)
    <2>1. Lost' = Lost /\ \A x \in Resets : result'[x] # "calling"
      BY <1>1, <1>4, NotLost, NoResetCalls
    <2>2. mSendQueue \in Seq(Items) /\ mBufferedAmount \in [Streams -> Nat]
      BY DEF Inv, TypeOK
    <2>3. Counted' = Counted \cup {r}
      BY <1>4, <2>1, <2>2, Pushed DEF Counted
    <2>4. \A s \in Streams : mBufferedAmount'[s] =
              mBufferedAmount[s] + (IF StreamOf[r] = s THEN SizeOf[r] ELSE 0)
      BY <1>1, <2>2
    <2> QED
      BY <1>2, <2>1, <2>3, <2>4, CountAdd DEF Accounted
  <1> QED
    BY <1>3, <1>4 DEF CloseStream

\* Every step keeps the amounts exact.
LEMMA AccountedNext ==
    ASSUME Inv, Accounted, [Next]_vars
    PROVE  Accounted'
  <1>1. CASE \E m \in Items : Send(m) \/ CloseStream(m)
    BY <1>1, SendAccounted, CloseStreamAccounted
  <1>2. CASE SenderStep
    <2>1. CallbackReturn => UNCHANGED <<mSendQueue, mBufferedAmount, result>>
      BY DEF CallbackReturn
    <2> QED
      BY <1>2, <2>1, NothingCounted, LoopSendAccounted, LoopBlockedAccounted,
         LoopDoneAccounted DEF SenderStep
  <1>3. CASE \/ CloseStop \/ CloseFlush \/ RunFlush \/ Acknowledge \/ Connect \/ Disconnect
             \/ \E u \in Upcallers : UpcallCheck(u) \/ UpcallEnqueue(u)
             \/ UNCHANGED vars
    <2>1. UNCHANGED <<mSendQueue, mBufferedAmount, result>>
      BY <1>3 DEF CloseStop, CloseFlush, RunFlush, Acknowledge, Connect, Disconnect,
                  UpcallCheck, UpcallEnqueue, vars
    <2> QED
      BY <2>1, NothingCounted
  <1> QED
    BY <1>1, <1>2, <1>3 DEF Next

\* bufferedAmount() is the size of what is queued, and of what was sent after close(): it
\* never drifts, and what updateBufferedAmount() clamps at zero never was below.
THEOREM AmountExact == Spec => []BufferedAccounted
  <1>1. Accounted => BufferedAccounted
    BY DEF Accounted
  <1> QED
    BY <1>1, AccountedInit, AccountedNext, Invariance, PTL DEF Spec
-----------------------------------------------------------------------------
\* The gate.

\* The flag is set by a write or by the destructor, and by nothing else.
FlagExplained ==
    /\ written => mWrittenOnce
    /\ mWrittenOnce => written \/ dtor # "no"

\* The lower thread decides to wait only while nothing was written, and a write
\* cannot complete until it waits, for it holds mWriteMutex until then.
DecisionHolds == lower = "decided" => ~written

\* Nobody can come back once the destructor has unregistered incoming().
ClosedForGood == dtor = "closed" => ~registered /\ ~inWrite

\* The inductive invariant.
GateInv ==
    /\ GateTypeOK
    /\ FlagExplained
    /\ DecisionHolds
    /\ ClosedForGood
    /\ InputAfterWrite
    /\ WriteWakes

\* The initial state satisfies the invariant.
LEMMA GateInvInit == GateInit => GateInv
  <1> SUFFICES ASSUME GateInit PROVE GateInv
    OBVIOUS
  <1>1. GateTypeOK
    <2>1. {mWrittenOnce, written, inWrite, registered} \subseteq BOOLEAN
      BY Zenon DEF GateInit
    <2>2. received \in 0..Packets
      BY PacketsAssumption DEF GateInit
    <2> QED
      BY <2>1, <2>2 DEF GateInit, GateTypeOK, LowerPhases
  <1> QED
    BY <1>1
       DEF GateInit, GateInv, FlagExplained, DecisionHolds, ClosedForGood, InputAfterWrite,
           WriteWakes

\* Every step preserves it.
LEMMA GateInvNext == GateInv /\ [GateNext]_gateVars => GateInv'
  <1> SUFFICES ASSUME GateInv, [GateNext]_gateVars PROVE GateInv'
    OBVIOUS
  <1> USE PacketsAssumption
      DEF GateInv, GateTypeOK, LowerPhases, FlagExplained, DecisionHolds, ClosedForGood,
          InputAfterWrite, WriteWakes
  <1>1. CASE Receive
    BY <1>1 DEF Receive
  <1>2. CASE TestOnce
    BY <1>2 DEF TestOnce
  <1>3. CASE Evaluate
    BY <1>3 DEF Evaluate, MutexFree
  <1>4. CASE Block
    BY <1>4 DEF Block
  <1>5. CASE Input
    BY <1>5 DEF Input
  <1>6. CASE WriteBegin
    BY <1>6 DEF WriteBegin, MutexFree
  <1>7. CASE WriteEnd
    <2>1. lower # "decided" /\ dtor # "closed"
      BY <1>7 DEF WriteEnd
    <2>2. CASE UNCHANGED <<mWrittenOnce, written, lower>>
      BY <1>7, <2>1, <2>2 DEF WriteEnd
    <2>3. CASE mWrittenOnce' = TRUE /\ written' = TRUE /\ NotifyAll
      <3>1. lower' \in LowerPhases \ {"waiting", "decided"}
        BY <2>1, <2>3 DEF NotifyAll
      <3> QED
        BY <1>7, <2>1, <2>3, <3>1 DEF WriteEnd, NotifyAll
    <2> QED
      BY <1>7, <2>2, <2>3 DEF WriteEnd
  <1>8. CASE CommUp \/ CommEnd \/ CommEndNotify
    BY <1>8 DEF CommUp, CommEnd, CommEndNotify, NotifyAll
  <1>9. CASE CloseBegin \/ CloseFail \/ CloseNotify
    BY <1>9 DEF CloseBegin, CloseFail, CloseNotify, NotifyAll
  <1>10. CASE DtorFlag \/ DtorNotify
    <2>1. CASE DtorFlag
      BY <2>1 DEF DtorFlag
    <2>2. CASE DtorNotify
      <3>1. lower' = lower \/ (lower = "waiting" /\ lower' = "woken")
        BY <2>2 DEF DtorNotify, NotifyAll
      <3> QED
        BY <2>2, <3>1 DEF DtorNotify
    <2> QED
      BY <1>10, <2>1, <2>2
  <1>11. CASE DtorUnregister
    BY <1>11 DEF DtorUnregister
  <1>12. CASE UNCHANGED gateVars
    BY <1>12 DEF gateVars
  <1> QED
    BY <1>1, <1>2, <1>3, <1>4, <1>5, <1>6, <1>7, <1>8, <1>9, <1>10, <1>11, <1>12
       DEF GateNext, LowerStep

\* The inductive invariant holds of every reachable state.
THEOREM GateInvariance == GateSpec => []GateInv
  BY GateInvInit, GateInvNext, PTL DEF GateSpec

\* The variables keep their types, and mWriteMutex excludes.
THEOREM GateTypeCorrect == GateSpec => []GateTypeOK
  <1>1. GateInv => GateTypeOK
    BY DEF GateInv
  <1> QED
    BY <1>1, GateInvariance, PTL

\* No packet reaches usrsctp before something was written on our side, unless the
\* association failed or the transport is being destroyed.
THEOREM GateHolds == GateSpec => []InputAfterWrite
  <1>1. GateInv => InputAfterWrite
    BY DEF GateInv
  <1> QED
    BY <1>1, GateInvariance, PTL

\* The first write wakes whoever waits for it: a thread is never left waiting for
\* something that has happened.
THEOREM NoLostWakeup == GateSpec => []WriteWakes
  <1>1. GateInv => WriteWakes
    BY DEF GateInv
  <1> QED
    BY <1>1, GateInvariance, PTL

-----------------------------------------------------------------------------

\* The count is that of the enqueued doRecv tasks, less one for every call of a
\* timer that has begun: timers are counted down without being counted up.
CountExact == mPendingRecvCount = pooled + fired - timeouts

\* A thread that is about to enqueue has read a count of zero or less, and only
\* one thread is: stop() first waits for the lower layer to leave incoming().
CountBounded ==
    /\ timeouts <= MaxTimeouts
    /\ mPendingRecvCount <= 1
    /\ ice = "checked" \/ stopper = "checked" => mPendingRecvCount <= 0
    /\ stopper # "out" => ice = "out"

\* The queue holds datagrams in the order of their arrival, ...
QueueInOrder ==
    /\ Len(kind) <= Datagrams
    /\ \A i \in 1..Len(mIncomingQueue) : mIncomingQueue[i] <= Len(kind)
    /\ \A i, j \in 1..Len(mIncomingQueue) : i < j => mIncomingQueue[i] < mIncomingQueue[j]

\* ... and all of them arrived after those that were delivered.
QueueAfterDelivered ==
    /\ \A i \in 1..Len(delivered) : delivered[i] <= Len(kind)
    /\ \A i \in 1..Len(delivered), j \in 1..Len(mIncomingQueue) :
           delivered[i] < mIncomingQueue[j]

\* A doRecv() gets past its first test only while the transport is connecting or
\* connected, and nothing but itself changes that state.
RecvWhileAlive ==
    /\ recv # "none" => dtlsState \in {"Connecting", "Connected"}
    /\ starter \in {"new", "registered"} => dtlsState = "Disconnected" /\ recv = "none"

\* A connected transport is finished because its queue was stopped and is empty,
\* or because the peer has closed.
FinishReason ==
    recv = "finish" /\ dtlsState = "Connected" =>
        "close" \in ToSet(kind) \/ (mStopping /\ mIncomingQueue = <<>>)

\* After the end nothing begins again.
EndedForGood ==
    ended # 0 => dtlsState = "Disconnected" /\ starter \notin {"new", "registered"}

\* The inductive invariant.
DtlsInv ==
    /\ DtlsTypeOK
    /\ CountExact
    /\ CountBounded
    /\ QueueInOrder
    /\ QueueAfterDelivered
    /\ DeliveredInOrder
    /\ RecvWhileAlive
    /\ FinishReason
    /\ EndedForGood
-----------------------------------------------------------------------------
\* The initial state satisfies the invariant.
LEMMA DtlsInvInit == DtlsInit => DtlsInv
  <1> SUFFICES ASSUME DtlsInit PROVE DtlsInv
    OBVIOUS
  <1> USE DatagramAssumption DEF DtlsInit
  <1>1. DtlsTypeOK
    <2>1. /\ kind \in Seq(Kinds) /\ mIncomingQueue \in Seq(1..Datagrams)
          /\ delivered \in Seq(1..Datagrams)
      BY EmptySeq
    <2>2. mPendingRecvCount \in -MaxTimeouts..1
      OBVIOUS
    <2>3. mStopping \in BOOLEAN
      BY Zenon
    <2> QED
      BY <2>1, <2>2, <2>3 DEF DtlsTypeOK
  <1>2. CountExact /\ CountBounded
    BY DEF CountExact, CountBounded
  <1>3. QueueInOrder /\ QueueAfterDelivered /\ DeliveredInOrder
    BY DEF QueueInOrder, QueueAfterDelivered, DeliveredInOrder
  <1>4. RecvWhileAlive /\ FinishReason /\ EndedForGood
    BY DEF RecvWhileAlive, FinishReason, EndedForGood
  <1> QED
    BY <1>1, <1>2, <1>3, <1>4 DEF DtlsInv

\* The range of a count that is exact and bounded.
LEMMA CountRange ==
    ASSUME NEW p \in Nat, NEW f \in Nat, NEW t \in Nat, NEW m \in Nat, NEW c \in Int,
           c = p + f - t, t <= m, c <= 1
    PROVE  c \in -m..1
  OBVIOUS

\* The steps that change no datagram, no state and no doRecv(): start(), stop()
\* and the lower thread apart from the arrival, and the timers.
LEMMA ThreadsInv ==
    ASSUME DtlsInv,
           \/ StartRegister \/ StartHandshake \/ StopAgain
           \/ LowerCheck \/ LowerEnqueue
           \/ StopUnregister \/ StopQueue \/ StopCheck \/ StopEnqueue
           \/ TimerFires
    PROVE  DtlsInv'
  <1> USE DatagramAssumption
      DEF StartRegister, StartHandshake, StopAgain, LowerCheck, LowerEnqueue,
          StopUnregister, StopQueue, StopCheck, StopEnqueue, TimerFires,
          EnqueueDoRecv, HandleTimeout, queue, counts, clock, threads, upper
  <1>1. UNCHANGED <<dtlsState, kind, mIncomingQueue, recv, flights, delivered, ended>>
    OBVIOUS
  <1>2. /\ mStopping' \in BOOLEAN /\ (mStopping => mStopping')
        /\ starter' \in {"new", "registered"} => starter \in {"new", "registered"}
    BY DEF DtlsInv, DtlsTypeOK
  <1>3. /\ pooled \in Nat /\ fired \in Nat /\ timers \in Nat /\ timeouts \in Nat
        /\ mPendingRecvCount \in Int
        /\ MaxTimeouts \in Nat
    BY DEF DtlsInv, DtlsTypeOK
  <1>4. /\ CountExact /\ CountBounded
        /\ ice \in {"out", "pushed", "checked"}
        /\ stopper \in {"out", "unregistered", "stopped", "checked", "done"}
    BY DEF DtlsInv, DtlsTypeOK
  <1>5. /\ pooled' \in Nat /\ fired' \in Nat /\ timers' \in Nat /\ timeouts' \in Nat
        /\ mPendingRecvCount' \in Int
        /\ CountExact' /\ CountBounded'
    <2> USE <1>3, <1>4 DEF CountExact, CountBounded
    <2>1. CASE StartRegister \/ StartHandshake \/ StopAgain
      BY <2>1
    <2>2. CASE LowerCheck \/ StopUnregister \/ StopQueue \/ StopCheck
      BY <2>2
    <2>3. CASE LowerEnqueue \/ StopEnqueue
      BY <2>3
    <2>4. CASE TimerFires
      BY <2>4
    <2> QED
      BY <2>1, <2>2, <2>3, <2>4
  <1>6. /\ starter' \in {"new", "registered", "connecting", "stopping", "done"}
        /\ ice' \in {"out", "pushed", "checked"}
        /\ stopper' \in {"out", "unregistered", "stopped", "checked", "done"}
    BY DEF DtlsInv, DtlsTypeOK
  <1> HIDE DEF StartRegister, StartHandshake, StopAgain, LowerCheck, LowerEnqueue,
               StopUnregister, StopQueue, StopCheck, StopEnqueue, TimerFires
  <1>7. mPendingRecvCount' \in -MaxTimeouts..1
    <2>1. /\ mPendingRecvCount' = pooled' + fired' - timeouts'
          /\ timeouts' <= MaxTimeouts /\ mPendingRecvCount' <= 1
      BY <1>5 DEF CountExact, CountBounded
    <2> QED
      BY <1>3, <1>5, <2>1, CountRange
  <1>8. DtlsTypeOK'
    BY <1>1, <1>2, <1>5, <1>6, <1>7 DEF DtlsInv, DtlsTypeOK
  <1>9. QueueInOrder' /\ QueueAfterDelivered' /\ DeliveredInOrder'
    BY <1>1 DEF DtlsInv, QueueInOrder, QueueAfterDelivered, DeliveredInOrder
  <1>10. RecvWhileAlive' /\ FinishReason' /\ EndedForGood'
    BY <1>1, <1>2 DEF DtlsInv, RecvWhileAlive, FinishReason, EndedForGood
  <1> QED
    BY <1>5, <1>8, <1>9, <1>10 DEF DtlsInv

\* start() makes the transport connecting before any doRecv() can do something.
LEMMA StartConnectingInv == DtlsInv /\ StartConnecting => DtlsInv'
  <1> SUFFICES ASSUME DtlsInv, StartConnecting PROVE DtlsInv'
    OBVIOUS
  <1> USE DEF StartConnecting, queue, counts, clock, upper
  <1>1. dtlsState = "Disconnected" /\ recv = "none" /\ ended = 0
    BY DEF DtlsInv, RecvWhileAlive, EndedForGood
  <1>2. DtlsTypeOK'
    BY DEF DtlsInv, DtlsTypeOK
  <1>3. CountExact' /\ CountBounded' /\ QueueInOrder' /\ QueueAfterDelivered' /\ DeliveredInOrder'
    BY DEF DtlsInv, CountExact, CountBounded, QueueInOrder, QueueAfterDelivered, DeliveredInOrder
  <1> QED
    BY <1>1, <1>2, <1>3 DEF DtlsInv, RecvWhileAlive, FinishReason, EndedForGood

\* A datagram that arrives gets the next number, and the last place in the queue.
LEMMA IncomingInv == ASSUME NEW k \in Kinds PROVE DtlsInv /\ Incoming(k) => DtlsInv'
  <1> SUFFICES ASSUME DtlsInv, Incoming(k) PROVE DtlsInv'
    OBVIOUS
  <1> DEFINE n == Len(kind) + 1
  <1>1. /\ kind \in Seq(Kinds) /\ Len(kind) \in Nat /\ n \in 1..Datagrams
        /\ mIncomingQueue \in Seq(1..Datagrams) /\ Len(mIncomingQueue) \in Nat
        /\ delivered \in Seq(1..Datagrams) /\ Len(delivered) \in Nat
    BY LenProperties, DatagramAssumption DEF DtlsInv, DtlsTypeOK, Incoming
  <1>2. /\ kind' \in Seq(Kinds) /\ Len(kind') = n
        /\ \A i \in 1..Len(kind) : kind'[i] = kind[i]
        /\ DOMAIN kind = 1..Len(kind) /\ DOMAIN kind' = 1..n
    BY <1>1, AppendProperties, LenProperties DEF Incoming
  <1>3. \/ mStopping /\ UNCHANGED mIncomingQueue
        \/ /\ ~mStopping
           /\ mIncomingQueue' \in Seq(1..Datagrams)
           /\ Len(mIncomingQueue') = Len(mIncomingQueue) + 1
           /\ \A i \in 1..Len(mIncomingQueue) : mIncomingQueue'[i] = mIncomingQueue[i]
           /\ mIncomingQueue'[Len(mIncomingQueue) + 1] = n
    <2>1. CASE mStopping
      BY <2>1 DEF Incoming
    <2>2. CASE ~mStopping
      <3>1. mIncomingQueue' = Append(mIncomingQueue, n)
        BY <2>2 DEF Incoming
      <3> HIDE DEF n
      <3> QED
        BY <1>1, <2>2, <3>1, AppendProperties
    <2> QED
      BY <2>1, <2>2
  <1>4. /\ UNCHANGED <<dtlsState, mStopping, recv, flights, starter, stopper, delivered, ended,
                       mPendingRecvCount, pooled, fired, timers, timeouts>>
         /\ ice = "out" /\ stopper = "out" /\ ice' = "pushed" /\ starter # "new"
    BY DEF Incoming, counts, clock, upper
  <1>5. \A i \in 1..Len(mIncomingQueue) : mIncomingQueue[i] \in 1..Len(kind)
    <2>1. \A i \in 1..Len(mIncomingQueue) : mIncomingQueue[i] \in 1..Datagrams
      BY <1>1, ElementOfSeq
    <2>2. \A i \in 1..Len(mIncomingQueue) : mIncomingQueue[i] <= Len(kind)
      BY DEF DtlsInv, QueueInOrder
    <2> QED
      BY <1>1, <2>1, <2>2
  <1>6. QueueInOrder'
    <2>1. CASE UNCHANGED mIncomingQueue
      <3>1. \A i \in 1..Len(mIncomingQueue) : mIncomingQueue[i] <= n
        BY <1>1, <1>5
      <3> QED
        BY <1>1, <1>2, <2>1, <3>1 DEF DtlsInv, QueueInOrder
    <2>2. CASE ~UNCHANGED mIncomingQueue
      <3>1. \A i \in 1..Len(mIncomingQueue') :
                mIncomingQueue'[i] = IF i <= Len(mIncomingQueue) THEN mIncomingQueue[i] ELSE n
        BY <1>1, <1>3, <2>2
      <3>2. \A i \in 1..Len(mIncomingQueue') : mIncomingQueue'[i] <= n
        BY <1>1, <1>3, <1>5, <2>2, <3>1
      <3>3. \A i, j \in 1..Len(mIncomingQueue') :
                i < j => mIncomingQueue'[i] < mIncomingQueue'[j]
        <4>1. \A i, j \in 1..Len(mIncomingQueue) :
                  i < j => mIncomingQueue[i] < mIncomingQueue[j]
          BY DEF DtlsInv, QueueInOrder
        <4>2. \A i \in 1..Len(mIncomingQueue) : mIncomingQueue[i] < n
          BY <1>1, <1>5
        <4> QED
          BY <1>1, <1>3, <2>2, <3>1, <4>1, <4>2
      <3> QED
        BY <1>1, <1>2, <3>2, <3>3 DEF QueueInOrder
    <2> QED
      BY <2>1, <2>2
  <1>7. \A i \in 1..Len(delivered) : delivered[i] \in 1..Len(kind)
    <2>1. \A i \in 1..Len(delivered) : delivered[i] \in 1..Datagrams
      BY <1>1, ElementOfSeq
    <2>2. \A i \in 1..Len(delivered) : delivered[i] <= Len(kind)
      BY DEF DtlsInv, QueueAfterDelivered
    <2> QED
      BY <1>1, <2>1, <2>2
  <1>8. QueueAfterDelivered'
    BY <1>1, <1>2, <1>3, <1>4, <1>5, <1>7 DEF DtlsInv, QueueAfterDelivered
  <1>9. DtlsTypeOK'
    BY <1>1, <1>2, <1>3, <1>4 DEF DtlsInv, DtlsTypeOK
  <1>10. FinishReason'
    BY <1>1, <1>2, <1>3, <1>4 DEF DtlsInv, FinishReason, ToSet
  <1> QED
    BY <1>4, <1>6, <1>8, <1>9, <1>10
       DEF DtlsInv, CountExact, CountBounded, DeliveredInOrder, RecvWhileAlive, EndedForGood
\* doRecv() takes the lock, counts itself down, and goes on while the transport
\* is connecting or connected.
LEMMA RecvBeginInv == DtlsInv /\ RecvBegin => DtlsInv'
  <1> SUFFICES ASSUME DtlsInv, RecvBegin PROVE DtlsInv'
    OBVIOUS
  <1>1. /\ UNCHANGED <<dtlsState, kind, mIncomingQueue, mStopping, timers, timeouts, flights,
                       ice, starter, stopper, delivered, ended>>
        /\ recv = "none"
        /\ recv' = IF dtlsState \in {"Connecting", "Connected"} THEN "test" ELSE "none"
    BY DEF RecvBegin, queue, clock, threads, upper
  <1>2. /\ pooled \in Nat /\ fired \in Nat /\ timeouts \in Nat /\ mPendingRecvCount \in Int
        /\ MaxTimeouts \in Nat
        /\ mPendingRecvCount = pooled + fired - timeouts
        /\ timeouts <= MaxTimeouts
        /\ mPendingRecvCount <= 1
    BY DatagramAssumption DEF DtlsInv, DtlsTypeOK, CountExact, CountBounded
  <1>3. /\ pooled' \in Nat /\ fired' \in Nat /\ mPendingRecvCount' \in Int
        /\ mPendingRecvCount' = pooled' + fired' - timeouts'
        /\ mPendingRecvCount' <= 0
        /\ mPendingRecvCount' <= 1
    BY <1>1, <1>2 DEF RecvBegin
  <1>4. mPendingRecvCount' \in -MaxTimeouts..1
    BY <1>1, <1>2, <1>3, CountRange
  <1>5. DtlsTypeOK'
    BY <1>1, <1>3, <1>4 DEF DtlsInv, DtlsTypeOK
  <1>6. CountExact' /\ CountBounded'
    <2>1. stopper # "out" => ice = "out"
      BY DEF DtlsInv, CountBounded
    <2> QED
      BY <1>1, <1>2, <1>3, <2>1 DEF CountExact, CountBounded
  <1> QED
    BY <1>1, <1>5, <1>6
       DEF DtlsInv, QueueInOrder, QueueAfterDelivered, DeliveredInOrder, RecvWhileAlive,
           FinishReason, EndedForGood

\* The loop finishes a queue that is stopped and empty, and gives up for now, or
\* for good when the handshake expires, on one that is only empty.
LEMMA RecvTestEmptyInv == DtlsInv /\ (RecvTest \/ RecvEmpty) => DtlsInv'
  <1> SUFFICES ASSUME DtlsInv, RecvTest \/ RecvEmpty PROVE DtlsInv'
    OBVIOUS
  <1>1. /\ UNCHANGED <<dtlsState, kind, mIncomingQueue, mStopping, mPendingRecvCount, pooled, fired,
                       timeouts, flights, ice, starter, stopper, delivered, ended>>
        /\ timers' \in {timers, timers + 1}
        /\ recv # "none"
        /\ recv' \in {"none", "pop", "finish"}
        /\ recv' = "finish" =>
               dtlsState = "Connecting" \/ (mStopping /\ mIncomingQueue = <<>>)
    BY DEF RecvTest, RecvEmpty, Running, HandleTimeout, queue, counts, clock, threads, upper
  <1>2. timers' \in Nat
    BY <1>1 DEF DtlsInv, DtlsTypeOK
  <1>3. DtlsTypeOK'
    BY <1>1, <1>2 DEF DtlsInv, DtlsTypeOK
  <1> QED
    BY <1>1, <1>3
       DEF DtlsInv, CountExact, CountBounded, QueueInOrder, QueueAfterDelivered,
           DeliveredInOrder, RecvWhileAlive, FinishReason, EndedForGood

\* What Head and Tail are of a sequence that is not empty.
LEMMA HeadTail ==
    ASSUME NEW S, NEW s \in Seq(S), s # <<>>
    PROVE  /\ Len(s) \in Nat \ {0}
           /\ Head(s) = s[1] /\ Head(s) \in S
           /\ Tail(s) \in Seq(S)
           /\ Len(Tail(s)) = Len(s) - 1
           /\ \A i \in 1..Len(Tail(s)) : Tail(s)[i] = s[i + 1]
  BY EmptySeq, HeadTailProperties

\* What popping the oldest datagram leaves: the rest of the queue, all of which
\* arrived later.
LEMMA PopProperties ==
    ASSUME DtlsInv, mIncomingQueue # <<>>
    PROVE  /\ Tail(mIncomingQueue) \in Seq(1..Datagrams)
           /\ Len(mIncomingQueue) \in Nat \ {0}
           /\ Len(Tail(mIncomingQueue)) = Len(mIncomingQueue) - 1
           /\ \A i \in 1..Len(Tail(mIncomingQueue)) :
                  Tail(mIncomingQueue)[i] = mIncomingQueue[i + 1]
           /\ Head(mIncomingQueue) = mIncomingQueue[1]
           /\ Head(mIncomingQueue) \in 1..Len(kind)
           /\ Head(mIncomingQueue) \in 1..Datagrams
           /\ \A i \in 1..Len(Tail(mIncomingQueue)) :
                  Head(mIncomingQueue) < Tail(mIncomingQueue)[i]
  <1>1. mIncomingQueue \in Seq(1..Datagrams) /\ kind \in Seq(Kinds) /\ Len(kind) \in Nat
    BY LenProperties DEF DtlsInv, DtlsTypeOK
  <1>2. /\ Tail(mIncomingQueue) \in Seq(1..Datagrams)
        /\ Len(mIncomingQueue) \in Nat \ {0}
        /\ Len(Tail(mIncomingQueue)) = Len(mIncomingQueue) - 1
        /\ \A i \in 1..Len(Tail(mIncomingQueue)) :
               Tail(mIncomingQueue)[i] = mIncomingQueue[i + 1]
        /\ Head(mIncomingQueue) = mIncomingQueue[1]
        /\ Head(mIncomingQueue) \in 1..Datagrams
    BY <1>1, HeadTail
  <1>3. /\ 1 \in 1..Len(mIncomingQueue)
        /\ \A i \in 1..Len(Tail(mIncomingQueue)) : i + 1 \in 1..Len(mIncomingQueue) /\ 1 < i + 1
    BY <1>2
  <1>4. mIncomingQueue[1] <= Len(kind)
    BY <1>3 DEF DtlsInv, QueueInOrder
  <1>5. \A i \in 1..Len(Tail(mIncomingQueue)) : mIncomingQueue[1] < mIncomingQueue[i + 1]
    BY <1>3 DEF DtlsInv, QueueInOrder
  <1>6. Head(mIncomingQueue) \in 1..Len(kind)
    BY <1>1, <1>2, <1>4
  <1> QED
    BY <1>2, <1>5, <1>6

\* The oldest datagram goes through OpenSSL; data is delivered.
LEMMA RecvPopInv == DtlsInv /\ RecvPop => DtlsInv'
  <1> SUFFICES ASSUME DtlsInv, RecvPop PROVE DtlsInv'
    OBVIOUS
  <1> DEFINE n == Head(mIncomingQueue)
             rest == Tail(mIncomingQueue)
  <1>1. /\ UNCHANGED <<kind, mPendingRecvCount, pooled, fired, timers, timeouts, ice,
                       starter, stopper, ended>>
        /\ recv = "pop" /\ mIncomingQueue # <<>> /\ mIncomingQueue' = rest
        /\ delivered' \in {delivered, Append(delivered, n)}
        /\ dtlsState' \in {dtlsState, "Connected"}
        /\ mStopping' \in {mStopping, TRUE}
        /\ flights' \in {flights, flights + 1}
        /\ recv' \in {"test", "finish"}
        /\ recv' = "finish" /\ dtlsState' = "Connected" => kind[n] = "close"
    BY DEF RecvPop, RecvHandshake, RecvData, RecvClose, RecvBad, counts, clock, threads, upper
  <1>2. /\ rest \in Seq(1..Datagrams)
        /\ Len(mIncomingQueue) \in Nat \ {0}
        /\ Len(rest) = Len(mIncomingQueue) - 1
        /\ \A i \in 1..Len(rest) : rest[i] = mIncomingQueue[i + 1]
        /\ n = mIncomingQueue[1]
        /\ n \in 1..Len(kind) /\ n \in 1..Datagrams
        /\ \A i \in 1..Len(rest) : n < rest[i]
    BY <1>1, PopProperties
  <1>3. /\ delivered \in Seq(1..Datagrams) /\ Len(delivered) \in Nat
        /\ \A i \in 1..Len(delivered) : delivered[i] \in 1..Datagrams /\ delivered[i] < n
    <2>1. delivered \in Seq(1..Datagrams) /\ Len(delivered) \in Nat
      BY LenProperties DEF DtlsInv, DtlsTypeOK
    <2>2. \A i \in 1..Len(delivered) : delivered[i] \in 1..Datagrams
      BY <2>1, ElementOfSeq
    <2>3. 1 \in 1..Len(mIncomingQueue)
      BY <1>2
    <2> QED
      BY <1>2, <2>1, <2>2, <2>3 DEF DtlsInv, QueueAfterDelivered
  <1>4. /\ delivered' \in Seq(1..Datagrams)
        /\ \/ UNCHANGED delivered
           \/ /\ Len(delivered') = Len(delivered) + 1
              /\ \A i \in 1..Len(delivered) : delivered'[i] = delivered[i]
              /\ delivered'[Len(delivered) + 1] = n
    <2>1. CASE delivered' = delivered
      BY <1>3, <2>1
    <2>2. CASE delivered' = Append(delivered, n)
      <3> HIDE DEF n
      <3> QED
        BY <1>2, <1>3, <2>2, AppendProperties
    <2> QED
      BY <1>1, <2>1, <2>2
  <1> HIDE DEF n, rest
  <1>5. QueueInOrder'
    <2>1. \A i \in 1..Len(rest) : i + 1 \in 1..Len(mIncomingQueue)
      BY <1>2
    <2>2. \A i \in 1..Len(rest) : rest[i] <= Len(kind)
      BY <1>2, <2>1 DEF DtlsInv, QueueInOrder
    <2>3. \A i, j \in 1..Len(rest) : i < j => rest[i] < rest[j]
      <3> SUFFICES ASSUME NEW i \in 1..Len(rest), NEW j \in 1..Len(rest), i < j
                   PROVE  rest[i] < rest[j]
        OBVIOUS
      <3>1. i + 1 < j + 1
        OBVIOUS
      <3> QED
        BY <1>1, <1>2, <2>1, <3>1 DEF DtlsInv, QueueInOrder
    <2> QED
      BY <1>1, <2>2, <2>3 DEF DtlsInv, QueueInOrder
  <1>6. QueueAfterDelivered'
    <2>1. \A i \in 1..Len(rest) : i + 1 \in 1..Len(mIncomingQueue)
      BY <1>2
    <2>2. \A i \in 1..Len(delivered), j \in 1..Len(rest) : delivered[i] < rest[j]
      BY <1>2, <2>1 DEF DtlsInv, QueueAfterDelivered
    <2>3. \A i \in 1..Len(delivered) : delivered[i] <= Len(kind)
      BY DEF DtlsInv, QueueAfterDelivered
    <2>4. CASE UNCHANGED delivered
      BY <1>1, <2>2, <2>3, <2>4 DEF QueueAfterDelivered
    <2>5. CASE ~UNCHANGED delivered
      <3>1. \A i \in 1..Len(delivered') :
                delivered'[i] = IF i <= Len(delivered) THEN delivered[i] ELSE n
        BY <1>3, <1>4, <2>5
      <3>2. Len(delivered') = Len(delivered) + 1 /\ n <= Len(kind)
        BY <1>2, <1>4, <2>5
      <3>3. \A i \in 1..Len(delivered') : delivered'[i] <= Len(kind)
        BY <1>3, <2>3, <3>1, <3>2
      <3>4. \A i \in 1..Len(delivered'), j \in 1..Len(rest) : delivered'[i] < rest[j]
        BY <1>2, <1>3, <2>2, <3>1, <3>2
      <3> QED
        BY <1>1, <3>3, <3>4 DEF QueueAfterDelivered
    <2> QED
      BY <2>4, <2>5
  <1>7. DeliveredInOrder'
    <2>1. CASE UNCHANGED delivered
      BY <2>1 DEF DtlsInv, DeliveredInOrder
    <2>2. CASE ~UNCHANGED delivered
      <3> SUFFICES ASSUME NEW i \in 1..Len(delivered)
                   PROVE  delivered'[i] < delivered'[i + 1]
        BY <1>3, <1>4, <2>2 DEF DeliveredInOrder
      <3>1. CASE i = Len(delivered)
        BY <1>3, <1>4, <2>2, <3>1
      <3>2. CASE i # Len(delivered)
        <4>1. i \in 1..Len(delivered) - 1 /\ i + 1 \in 1..Len(delivered)
          BY <1>3, <3>2
        <4> QED
          BY <1>4, <2>2, <4>1 DEF DtlsInv, DeliveredInOrder
      <3> QED
        BY <3>1, <3>2
    <2> QED
      BY <2>1, <2>2
  <1>8. /\ dtlsState \in {"Connecting", "Connected"} /\ dtlsState' \in {"Connecting", "Connected"}
        /\ starter \notin {"new", "registered"} /\ ended = 0
    BY <1>1 DEF DtlsInv, RecvWhileAlive, EndedForGood
  <1>9. DtlsTypeOK'
    <2>1. flights' \in Nat
      BY <1>1 DEF DtlsInv, DtlsTypeOK
    <2>2. mStopping' \in BOOLEAN
      BY <1>1, Zenon DEF DtlsInv, DtlsTypeOK
    <2> QED
      BY <1>1, <1>2, <1>4, <1>8, <2>1, <2>2 DEF DtlsInv, DtlsTypeOK
  <1>10. FinishReason'
    <2>1. kind[n] = "close" => "close" \in ToSet(kind)
      BY <1>2, LenProperties DEF ToSet, DtlsInv, DtlsTypeOK
    <2> QED
      BY <1>1, <2>1 DEF FinishReason
  <1> QED
    BY <1>1, <1>5, <1>6, <1>7, <1>8, <1>9, <1>10
       DEF DtlsInv, CountExact, CountBounded, RecvWhileAlive, EndedForGood

\* The transport ends, or has failed.
LEMMA RecvFinishInv == DtlsInv /\ RecvFinish => DtlsInv'
  <1> SUFFICES ASSUME DtlsInv, RecvFinish PROVE DtlsInv'
    OBVIOUS
  <1>1. /\ UNCHANGED <<kind, mIncomingQueue, mStopping, mPendingRecvCount, pooled, fired, timers,
                       timeouts, flights, ice, starter, stopper, delivered>>
        /\ recv = "finish" /\ recv' = "none"
        /\ \/ dtlsState' = "Disconnected" /\ ended' = ended + 1
           \/ dtlsState' = "Failed" /\ ended' = ended
    BY DEF RecvFinish, queue, counts, clock, threads
  <1>2. starter \notin {"new", "registered"} /\ ended = 0
    BY <1>1 DEF DtlsInv, RecvWhileAlive, EndedForGood
  <1>3. DtlsTypeOK'
    BY <1>1, <1>2 DEF DtlsInv, DtlsTypeOK
  <1> QED
    BY <1>1, <1>2, <1>3
       DEF DtlsInv, CountExact, CountBounded, QueueInOrder, QueueAfterDelivered,
           DeliveredInOrder, RecvWhileAlive, FinishReason, EndedForGood

\* Every step preserves the invariant.
LEMMA DtlsInvNext == DtlsInv /\ [DtlsNext]_dtlsVars => DtlsInv'
  <1> SUFFICES ASSUME DtlsInv, [DtlsNext]_dtlsVars PROVE DtlsInv'
    OBVIOUS
  <1>1. CASE \/ StartRegister \/ StartHandshake \/ StopAgain
             \/ LowerCheck \/ LowerEnqueue
             \/ StopUnregister \/ StopQueue \/ StopCheck \/ StopEnqueue
             \/ TimerFires
    BY <1>1, ThreadsInv
  <1>2. CASE StartConnecting
    BY <1>2, StartConnectingInv
  <1>3. CASE \E k \in Kinds : Incoming(k)
    BY <1>3, IncomingInv
  <1>4. CASE RecvBegin
    BY <1>4, RecvBeginInv
  <1>5. CASE RecvStep
    BY <1>5, RecvTestEmptyInv, RecvPopInv, RecvFinishInv DEF RecvStep
  <1>6. CASE UNCHANGED dtlsVars
    BY <1>6
       DEF dtlsVars, DtlsInv, DtlsTypeOK, CountExact, CountBounded, QueueInOrder,
           QueueAfterDelivered,
           DeliveredInOrder, RecvWhileAlive, FinishReason, EndedForGood
  <1> QED
    BY <1>1, <1>2, <1>3, <1>4, <1>5, <1>6 DEF DtlsNext

-----------------------------------------------------------------------------
\* The inductive invariant holds of every reachable state.
THEOREM DtlsInvariance == DtlsSpec => []DtlsInv
  BY DtlsInvInit, DtlsInvNext, PTL DEF DtlsSpec

\* Workers of the pool and timers process the queue, and never out of order or
\* twice.
THEOREM DeliversInOrder == DtlsSpec => []RecvInv
  <1>1. DtlsInv => RecvInv
    BY DEF DtlsInv, RecvInv
  <1> QED
    BY <1>1, DtlsInvariance, PTL

\* recv(nullptr) is called once; unless the peer has closed, the queue is stopped
\* and empty by then; and nothing is delivered after it.
THEOREM EndComesLast == DtlsSpec => EndDrains
  <1> DEFINE End == /\ ended' # ended =>
                          /\ ended = 0
                          /\ "close" \notin ToSet(kind) => mStopping /\ mIncomingQueue = <<>>
                    /\ ended # 0 => delivered' = delivered
  <1>1. DtlsInv /\ [DtlsNext]_dtlsVars => [End]_dtlsVars
    <2> SUFFICES ASSUME DtlsInv, DtlsNext PROVE End
      OBVIOUS
    <2>1. CASE RecvFinish
      <3>1. UNCHANGED delivered /\ recv = "finish"
        BY <2>1 DEF RecvFinish
      <3>2. CASE dtlsState = "Connected"
        BY <3>1, <3>2 DEF DtlsInv, FinishReason, EndedForGood
      <3>3. CASE dtlsState # "Connected"
        BY <2>1, <3>1, <3>3 DEF RecvFinish
      <3> QED
        BY <3>2, <3>3
    <2>2. CASE RecvPop
      <3>1. ended = 0 /\ UNCHANGED ended
        BY <2>2
           DEF DtlsInv, RecvWhileAlive, EndedForGood, RecvPop, RecvHandshake, RecvData, RecvClose,
               RecvBad, upper
      <3> QED
        BY <3>1
    <2>3. CASE ~RecvFinish /\ ~RecvPop
      <3>1. UNCHANGED <<delivered, ended>>
        BY <2>3
           DEF DtlsNext, RecvStep, StartRegister, StartConnecting, StartHandshake, StopAgain,
               Incoming, LowerCheck, LowerEnqueue, StopUnregister, StopQueue, StopCheck,
               StopEnqueue, TimerFires, RecvBegin, RecvTest, RecvEmpty, upper
      <3> QED
        BY <3>1
    <2> QED
      BY <2>1, <2>2, <2>3
  <1> QED
    BY <1>1, DtlsInvariance, PTL DEF DtlsSpec, EndDrains

\* mPendingRecvCount may be below zero, for timers run doRecv() uncounted, but
\* never by more than the timers that fired, and never above one.
THEOREM CountNeverStuck == DtlsSpec => [](CountExact /\ CountBounded)
  <1>1. DtlsInv => CountExact /\ CountBounded
    BY DEF DtlsInv
  <1> QED
    BY <1>1, DtlsInvariance, PTL
=============================================================================
