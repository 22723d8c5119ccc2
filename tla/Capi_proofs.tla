---------------------------- MODULE Capi_proofs ----------------------------
(***************************************************************************)
(* Proofs about Capi, for any objects, application threads, calls they and *)
(* their callbacks make, and events: an object is under one handle and a   *)
(* handle in one table, everything kept under a handle is of an object     *)
(* that has it, whoever has a handle was told it, and no callback starts   *)
(* after the rtcDelete*() of its object has returned.  What it tells of    *)
(* the reliability of a channel is what the creator asked for, and sizes   *)
(* of buffers it tells are enough.                                         *)
(*                                                                         *)
(* A handle is emplaced, told, and erased by steps of several threads, and *)
(* the tables agree only because of what each thread will still do: the    *)
(* invariant says, frame by frame, where the frames of a call come from    *)
(* (Stacks), that an object is announced once and by one thread (Once),    *)
(* that what is still to be kept under a handle is kept before the handle  *)
(* goes (Disciplined, from DisciplineAssumption), and that a server whose  *)
(* handle goes announces nothing any more (Erasing).                       *)
(***************************************************************************)
EXTENDS Capi, SequenceTheorems, FiniteSetTheorems, FunctionTheorems, TLAPS

\* Sequences of anything.
LEMMA SeqIs ==
    ASSUME NEW S, NEW s \in Seq(S)
    PROVE  IsSeq(s) /\ Len(s) \in Nat /\ DOMAIN s = 1..Len(s)
  BY LenProperties DEF IsSeq

\* A function with the domain of a sequence is one, of that length.
LEMMA MadeIs ==
    ASSUME NEW n \in Nat, NEW f, f = [i \in 1..n |-> f[i]]
    PROVE  IsSeq(f) /\ Len(f) = n
  <1> DEFINE S == {f[i] : i \in 1..n}
  <1>1. \A i \in 1..n : f[i] \in S
    OBVIOUS
  <1> HIDE DEF S
  <1>2. f \in [1..n -> S]
    BY <1>1
  <1>3. f \in Seq(S)
    BY <1>2, SeqDef
  <1>4. IsSeq(f) /\ Len(f) \in Nat /\ DOMAIN f = 1..Len(f)
    BY <1>3, SeqIs
  <1>5. DOMAIN f = 1..n
    BY <1>2
  <1>6. \A i \in Int : i \in 1..n <=> i \in 1..Len(f)
    BY <1>4, <1>5
  <1>7. Len(f) = n
    BY <1>4, <1>6
  <1> QED
    BY <1>4, <1>7

\* They are sequences over the set of their elements.
LEMMA IsSeqOf ==
    ASSUME NEW s, IsSeq(s)
    PROVE  s \in Seq({s[i] : i \in 1..Len(s)})
  <1> DEFINE S == {s[i] : i \in 1..Len(s)}
  <1>1. \A i \in 1..Len(s) : s[i] \in S
    OBVIOUS
  <1> HIDE DEF S
  <1>2. Len(s) \in Nat /\ s = [i \in 1..Len(s) |-> s[i]]
    BY DEF IsSeq
  <1>3. s \in [1..Len(s) -> S]
    BY <1>1, <1>2
  <1>4. s \in Seq(S)
    BY <1>2, <1>3, SeqDef
  <1> QED
    BY <1>4 DEF S

\* The empty sequence, and one that is not.
LEMMA EmptyIs == IsSeq(<<>>) /\ Len(<<>>) = 0
  BY SeqIs, EmptySeq

\* A sequence has elements unless it is the empty one.
LEMMA NonEmptyIs == ASSUME NEW s, IsSeq(s) PROVE s # <<>> <=> Len(s) > 0
  <1> DEFINE S == {s[i] : i \in 1..Len(s)}
  <1>1. s \in Seq(S)
    BY IsSeqOf
  <1> HIDE DEF S
  <1> QED
    BY <1>1, EmptySeq, SeqIs

\* An element of a concatenation is one of the first part or of the second.
LEMMA ConcatIs ==
    ASSUME NEW s, NEW r, IsSeq(s), IsSeq(r)
    PROVE  /\ IsSeq(s \o r)
           /\ Len(s) \in Nat /\ Len(r) \in Nat
           /\ Len(s \o r) = Len(s) + Len(r)
           /\ \A i \in 1..Len(s) : (s \o r)[i] = s[i]
           /\ \A i \in 1..Len(r) : (s \o r)[Len(s) + i] = r[i]
           /\ \A i \in 1..Len(s \o r) :
                 \/ i \in 1..Len(s) /\ (s \o r)[i] = s[i]
                 \/ i > Len(s) /\ i - Len(s) \in 1..Len(r) /\ (s \o r)[i] = r[i - Len(s)]
  <1> DEFINE S == {s[i] : i \in 1..Len(s)} \cup {r[i] : i \in 1..Len(r)}
  <1>1. s \in Seq(S) /\ r \in Seq(S)
    <2>1. s \in Seq({s[i] : i \in 1..Len(s)}) /\ r \in Seq({r[i] : i \in 1..Len(r)})
      BY IsSeqOf
    <2> QED
      BY <2>1, SeqMonotonic
  <1> HIDE DEF S
  <1>2. s \o r \in Seq(S) /\ Len(s \o r) = Len(s) + Len(r)
    BY <1>1, ConcatProperties
  <1>3. IsSeq(s \o r)
    BY <1>2, SeqIs
  <1>4. Len(s) \in Nat /\ Len(r) \in Nat
    BY <1>1, SeqIs
  <1>5. \A i \in 1..Len(s) + Len(r) : (s \o r)[i] = IF i <= Len(s) THEN s[i] ELSE r[i - Len(s)]
    BY <1>1, ConcatProperties
  <1>6. \A i \in 1..Len(s) : (s \o r)[i] = s[i]
    BY <1>4, <1>5
  <1>7. \A i \in 1..Len(r) : (s \o r)[Len(s) + i] = r[i]
    <2> TAKE i \in 1..Len(r)
    <2>1. Len(s) + i \in 1..Len(s) + Len(r) /\ ~(Len(s) + i <= Len(s)) /\ (Len(s) + i) - Len(s) = i
      BY <1>4
    <2> QED
      BY <1>5, <2>1
  <1>8. ASSUME NEW i \in 1..Len(s \o r)
        PROVE  \/ i \in 1..Len(s) /\ (s \o r)[i] = s[i]
               \/ i > Len(s) /\ i - Len(s) \in 1..Len(r) /\ (s \o r)[i] = r[i - Len(s)]
    BY <1>2, <1>4, <1>5
  <1> QED
    BY <1>2, <1>3, <1>4, <1>6, <1>7, <1>8

\* The tail has the elements of a sequence but the first.
LEMMA TailIs ==
    ASSUME NEW s, IsSeq(s), s # <<>>
    PROVE  /\ IsSeq(Tail(s))
           /\ Len(s) \in Nat \ {0}
           /\ Len(Tail(s)) = Len(s) - 1
           /\ Head(s) = s[1]
           /\ \A i \in 1..Len(s) - 1 : Tail(s)[i] = s[i + 1]
  <1> DEFINE S == {s[i] : i \in 1..Len(s)}
  <1>1. s \in Seq(S)
    BY IsSeqOf
  <1> HIDE DEF S
  <1>2. Tail(s) \in Seq(S) /\ Len(Tail(s)) = Len(s) - 1 /\ Head(s) = s[1]
        /\ \A i \in 1..Len(Tail(s)) : Tail(s)[i] = s[i + 1]
    BY <1>1, HeadTailProperties
  <1>3. IsSeq(Tail(s))
    BY <1>2, SeqIs
  <1>4. Len(s) \in Nat \ {0}
    BY <1>1, SeqIs, EmptySeq
  <1> QED
    BY <1>2, <1>3, <1>4

\* Appending keeps the elements, and adds one at the end.
LEMMA AppendIs ==
    ASSUME NEW s, IsSeq(s), NEW e
    PROVE  /\ IsSeq(Append(s, e)) /\ Len(s) \in Nat
           /\ Len(Append(s, e)) = Len(s) + 1
           /\ \A i \in 1..Len(s) : Append(s, e)[i] = s[i]
           /\ Append(s, e)[Len(s) + 1] = e
  <1> DEFINE S == {s[i] : i \in 1..Len(s)} \cup {e}
  <1>1. s \in Seq(S) /\ e \in S
    <2>1. s \in Seq({s[i] : i \in 1..Len(s)})
      BY IsSeqOf
    <2> QED
      BY <2>1, SeqMonotonic
  <1> HIDE DEF S
  <1>2. /\ Append(s, e) \in Seq(S) /\ Len(Append(s, e)) = Len(s) + 1
        /\ \A i \in 1..Len(s) : Append(s, e)[i] = s[i]
        /\ Append(s, e)[Len(s) + 1] = e
    BY <1>1, AppendProperties
  <1>3. IsSeq(Append(s, e))
    BY <1>2, SeqIs
  <1>4. Len(s) \in Nat
    BY <1>1, SeqIs
  <1> QED
    BY <1>2, <1>3, <1>4

\* An element replaced.
LEMMA ExceptIs ==
    ASSUME NEW s, IsSeq(s), NEW e
    PROVE  IsSeq([s EXCEPT ![1] = e]) /\ Len([s EXCEPT ![1] = e]) = Len(s)
  <1>1. Len(s) \in Nat /\ s = [i \in 1..Len(s) |-> s[i]]
    BY DEF IsSeq
  <1> DEFINE r == [s EXCEPT ![1] = e]
  <1>2. r = [i \in 1..Len(s) |-> r[i]]
    BY <1>1
  <1> HIDE DEF r
  <1>3. IsSeq(r) /\ Len(r) = Len(s)
    BY <1>1, <1>2, MadeIs
  <1> QED
    BY <1>3 DEF r

\* Sequences of one, two, three and four elements.
LEMMA OneIs == ASSUME NEW a PROVE IsSeq(<<a>>) /\ Len(<<a>>) = 1 /\ <<a>>[1] = a
  <1>1. <<a>> \in Seq({a})
    OBVIOUS
  <1> QED
    BY <1>1, SeqIs

\* A sequence of two elements.
LEMMA TwoIs ==
    ASSUME NEW a, NEW b
    PROVE  IsSeq(<<a, b>>) /\ Len(<<a, b>>) = 2 /\ <<a, b>>[1] = a /\ <<a, b>>[2] = b
  <1>1. <<a, b>> \in Seq({a, b})
    OBVIOUS
  <1> QED
    BY <1>1, SeqIs

\* A sequence of three elements.
LEMMA ThreeIs ==
    ASSUME NEW a, NEW b, NEW c
    PROVE  /\ IsSeq(<<a, b, c>>) /\ Len(<<a, b, c>>) = 3
           /\ <<a, b, c>>[1] = a /\ <<a, b, c>>[2] = b /\ <<a, b, c>>[3] = c
  <1>1. <<a, b, c>> \in Seq({a, b, c})
    OBVIOUS
  <1> QED
    BY <1>1, SeqIs

\* A sequence of four elements.
LEMMA FourIs ==
    ASSUME NEW a, NEW b, NEW c, NEW d
    PROVE  /\ IsSeq(<<a, b, c, d>>) /\ Len(<<a, b, c, d>>) = 4
           /\ <<a, b, c, d>>[1] = a /\ <<a, b, c, d>>[2] = b /\ <<a, b, c, d>>[3] = c /\ <<a, b, c, d>>[4] = d
  <1>1. <<a, b, c, d>> \in Seq({a, b, c, d})
    OBVIOUS
  <1> QED
    BY <1>1, SeqIs

\* The frames of a stack, and those below the innermost.
FramesIn(t) == {stack[t][i] : i \in 1..Len(stack[t])}
Lower(t) == {stack[t][i] : i \in 2..Len(stack[t])}

\* A callback that announces an object, and the frames that give it to the application.
Announcing(f) == f.op \in {"trigger", "closure"} /\ f.ev = "announce"
Naming(f) == f.op \in {"find", "inherit"}
\* Frames that nothing is ever called from: they are innermost.
Late(f) == Announcing(f) \/ Naming(f) \/ f.op \in {"create", "packetize", "chain", "eraseAll"}

\* What the fields of a frame are.
FrameOK(f) ==
    /\ f = [op |-> f.op, o |-> f.o, ev |-> f.ev, x |-> f.x, rest |-> f.rest]
    /\ f.op = "body" => IsSeq(f.rest) /\ f.rest # <<>>
    /\ f.op \notin {"body", "eraseAll", "erasedAll"} => f.o \in Objects
    /\ f.op = "trigger" => f.ev \in ToSet(Slots(KindOf[f.o]))
    /\ Announcing(f) => f.x \in Objects /\ Owner[f.x] = f.o /\ f.o # f.x /\ KindOf[f.x] # "track"
    /\ Naming(f) => Owner[f.o] # f.o
    /\ f.op = "create" => Owner[f.o] = f.o \/ KindOf[Owner[f.o]] = "pc"
    /\ f.op \in {"discard", "loop", "flush", "available", "opened", "peek"} => f.o \in Channels
    /\ f.op = "assign" => f.ev \in ToSet(Slots(KindOf[f.o])) /\ f.x \in {None, "app"}
    /\ f.op \in {"packetize", "chain"} => KindOf[f.o] = "track"

\* Tasks of mProcessor are of a peer connection.
TaskOK(e) ==
    e[1] \in {"announce", "state", "closeChannels"} /\ e[2] \in Objects /\ KindOf[e[2]] = "pc"

\* Values that the steps rely on.
DataTyped ==
    /\ plan \in Plans
    /\ IsSeq(net) /\ \A i \in 1..Len(net) : EventOK(net[i])
    /\ IsSeq(tasks)
    /\ \A i \in 1..Len(tasks) : TaskOK(tasks[i])
    /\ mutex \in Threads \cup {None}
    /\ lastId \in Nat /\ id \in [Objects -> 0..lastId]
    /\ table \in [Kinds -> SUBSET (Nat \X Objects)]
    /\ media = [k \in Tables |-> media[k]]
    /\ known \subseteq 1..lastId
    /\ alive \in [Objects -> {"new", "alive", "gone"}]
    /\ init = [o \in Objects |-> init[o]]
    /\ mIsOpen \in [Objects -> BOOLEAN] /\ mIsClosed \in [Objects -> BOOLEAN]
SlotsTyped ==
    /\ cb = [o \in Objects |-> [ev \in ToSet(Slots(KindOf[o])) |-> cb[o][ev]]]
    /\ \A o \in Objects : \A ev \in ToSet(Slots(KindOf[o])) :
          cb[o][ev] \in {None, "app", "lib"} /\ (cb[o][ev] = "lib" => ev = "open" /\ KindOf[o] = "dc")
    /\ stored = [o \in Objects |-> stored[o]] /\ \A o \in Objects : "announce" \notin stored[o]
    /\ pending = [o \in Objects |-> pending[o]] /\ \A o \in Objects : IsSeq(pending[o])
    /\ mRecvQueue = [o \in Channels |-> mRecvQueue[o]]
    /\ \A o \in Channels : IsSeq(mRecvQueue[o]) /\ Len(mRecvQueue[o]) <= RecvQueueLimit

\* The calls of a thread: its own if it is of the application, and those of callbacks.
Mine(t, Test(_)) == Some(plan, {t} \cap App, Test)
\* What is left of a sequence of calls.
RestOf(r, s) ==
    /\ Len(r) <= Len(s)
    /\ \A i \in 1..Len(r) : r[i] = s[Len(s) - Len(r) + i]
Announced == \E i \in 1..Len(plan.net) : Announces(plan.net[i])

\* A body is what is left of the calls of its thread, and then nothing called it, or
\* of a callback.
BodyFrom(t, i) ==
    \/ t \in App /\ i = Len(stack[t]) /\ RestOf(stack[t][i].rest, plan.calls[t])
    \/ \E k \in DOMAIN plan.body : RestOf(stack[t][i].rest, plan.body[k])
\* Where a frame comes from.
FrameFrom(t, f) ==
    /\ f.op \in {"packetize", "chain"} => Mine(t, LAMBDA c : Keeps(c, f.o))
    /\ f.op = "create" => Mine(t, LAMBDA c : Makes(c, f.o))
    /\ f.op = "eraseAll" => Mine(t, Cleans)
    /\ Announcing(f) => Announced
    /\ Naming(f) => IF f.ev = "create" THEN Mine(t, Creates) ELSE Announced
    /\ Announcing(f) /\ KindOf[f.o] = "server" => t = Server
    /\ Naming(f) /\ KindOf[Owner[f.o]] = "server" => t = Server
Stacks ==
    /\ stack = [t \in Threads |-> stack[t]]
    /\ \A t \in Threads :
          /\ IsSeq(stack[t])
          /\ \A f \in FramesIn(t) : FrameOK(f) /\ FrameFrom(t, f)
          /\ \A f \in Lower(t) : ~Late(f)
          /\ \A i \in 1..Len(stack[t]) : stack[t][i].op = "body" => BodyFrom(t, i)
          /\ \A i \in 2..Len(stack[t]) :
                stack[t][i].op = "erase" /\ KindOf[stack[t][i].o] = "server" =>
                   stack[t][i - 1].op = "stop" /\ stack[t][i - 1].o = stack[t][i].o

\* One number for one object, and nothing under other numbers.
Numbered ==
    /\ \A o, q \in Objects : id[o] = id[q] /\ id[o] # 0 => o = q
    /\ \A k \in Kinds : \A e \in table[k] : KindOf[e[2]] = k /\ e[1] = id[e[2]] /\ id[e[2]] # 0
    /\ DOMAIN userPointer = {id[o] : o \in {q \in Objects : Registered(q)}}
    /\ \A m \in Tables : \A i \in DOMAIN media[m] :
          \E o \in Objects : KindOf[o] = "track" /\ Registered(o) /\ i = id[o]
\* An object with a handle is not a new one, nor is the one that owns it.
Handled ==
    /\ \A o \in Objects : id[o] # 0 =>
          alive[o] # "new" /\ id[Owner[o]] # 0 /\ (KindOf[o] = "dc" => init[o] # {})
    /\ \A o \in Objects : KindOf[o] \in {"pc", "server"} /\ (alive[o] # "new" \/ mIsOpen[o]) => id[o] # 0
    /\ \A t \in Threads : \A f \in FramesIn(t) :
          /\ f.op = "destroy" /\ KindOf[f.o] \in {"pc", "server"} => id[f.o] # 0
          /\ f.op = "create" /\ Owner[f.o] # f.o => id[Owner[f.o]] # 0
          /\ f.op \in {"packetize", "chain"} => id[f.o] # 0

\* A channel that its OPEN made, one that waits to be announced, one that is.
Offered(o) == KindOf[o] = "dc" /\ cb[o].open = "lib"
Waiting(o) == \E pc \in Objects : \E i \in 1..Len(pending[pc]) : pending[pc][i] = o
AnnouncedBy(t, o) == \E f \in FramesIn(t) : Announcing(f) /\ f.x = o
NamedBy(t, o) == \E f \in FramesIn(t) : Naming(f) /\ f.o = o
Coming(o) == Offered(o) \/ Waiting(o) \/ \E t \in Threads : AnnouncedBy(t, o)
\* Each is announced once.
Once ==
    /\ \A pc \in Objects : \A i \in 1..Len(pending[pc]) :
          /\ pending[pc][i] \in Objects
          /\ KindOf[pending[pc][i]] = "dc" /\ Owner[pending[pc][i]] = pc
          /\ \A j \in 1..Len(pending[pc]) : pending[pc][i] = pending[pc][j] => i = j
    /\ \A o \in Objects :
          /\ Coming(o) => /\ id[o] = 0 /\ id[Owner[o]] # 0 /\ Owner[o] # o
                          /\ KindOf[o] = "dc" => init[o] # {}
                          /\ Announced
          /\ Offered(o) => ~Waiting(o)
          /\ \A t \in Threads : AnnouncedBy(t, o) =>
                ~Offered(o) /\ ~Waiting(o) /\ \A u \in Threads : AnnouncedBy(u, o) => t = u
          /\ \A t \in Threads : NamedBy(t, o) =>
                /\ Registered(o) /\ id[o] \notin known
                /\ \A u \in Threads : NamedBy(u, o) => t = u
    /\ \A i \in 1..Len(net) : Announces(net[i]) => Announced

\* Nothing more is kept under a handle once it may be erased.
Ahead(o) ==
    \E t \in Threads : \E f \in FramesIn(t) :
       \/ f.op = "body" /\ In(f.rest, LAMBDA c : Keeps(c, o))
       \/ f.op \in {"packetize", "chain"} /\ f.o = o
Ending(f, o) == f.op = "eraseAll" \/ (f.op = "erase" /\ f.o = o)
Safe(o) == Ahead(o) \/ ~Some(plan, App, LAMBDA c : Ends(c, o))
Disciplined ==
    \A o \in Objects : Safe(o) =>
       /\ id[o] = 0 \/ Registered(o)
       /\ \A t \in Threads : \A f \in FramesIn(t) : ~Ending(f, o)

\* A server whose handle is about to be erased announces nothing any more.
Quiet(s) ==
    /\ mIsClosed[s]
    /\ \A f \in FramesIn(Server) : ~(Announcing(f) /\ f.o = s) /\ ~(Naming(f) /\ Owner[f.o] = s)
Erasing ==
    /\ \A t \in Threads : \A f \in FramesIn(t) :
          /\ f.op = "erase" => id[f.o] \in known
          /\ f.op = "return" /\ f.ev = "deleted" => id[f.o] # 0 /\ ~Registered(f.o)
          /\ f.op = "inherit" /\ KindOf[Owner[f.o]] = "server" => Registered(Owner[f.o])
    /\ \A t \in Threads : At(t, "erase") /\ KindOf[Top(t).o] = "server" => Quiet(Top(t).o)
    /\ deleted \subseteq Objects /\ \A o \in deleted : id[o] # 0 /\ ~Registered(o)

\* Who has a handle is told so.
ToldOf ==
    \A o \in Objects : Registered(o) =>
       id[o] \in known \/ (\E t \in Threads : NamedBy(t, o)) \/ ~Registered(Owner[o])

\* The inductive invariant.
Inv ==
    /\ DataTyped /\ SlotsTyped /\ Stacks
    /\ Numbered /\ Handled /\ Once /\ Disciplined /\ Erasing /\ ToldOf

\* A call that callbacks make is one of any threads.
LEMMA SomeGrows ==
    ASSUME NEW p, NEW T, NEW U, T \subseteq U, NEW Test(_), Some(p, T, Test)
    PROVE  Some(p, U, Test)
  BY DEF Some

\* What a callback keeps under a handle, no call ends: callbacks may run on any
\* thread, so that no order is known (DisciplineAssumption).
LEMMA DisciplineTest ==
    ASSUME NEW p \in Plans, NEW k \in DOMAIN p.body, NEW i \in 1..Len(p.body[k]), NEW o \in Objects,
           Keeps(p.body[k][i], o)
    PROVE  ~Some(p, App, LAMBDA c : Ends(c, o))
  <1>1. Some(p, App, LAMBDA c : Keeps(c, o))
    BY DEF Some, In
  <1>2. ASSUME NEW t \in App PROVE Some(p, App \ {t}, LAMBDA c : Keeps(c, o) \/ Ends(c, o))
    BY DEF Some, In
  <1> QED
    BY <1>1, <1>2, DisciplineAssumption

\* Put() changes one entry of a map, as the assignment to map[i] does.
LEMMA PutIs ==
    ASSUME NEW f, NEW i, NEW v
    PROVE  /\ DOMAIN Put(f, i, v) = DOMAIN f \cup {i} /\ Put(f, i, v)[i] = v
           /\ \A j \in DOMAIN f : j # i => Put(f, i, v)[j] = f[j]
  BY DEF Put

-----------------------------------------------------------------------------
\* Steps of a thread: it leaves its innermost frame for others.
Below(t) == IF stack[t] = <<>> THEN <<>> ELSE Tail(stack[t])
Moves(t, fs) == stack' = [stack EXCEPT ![t] = fs \o Below(t)]

\* The frames below the innermost are those of the stack, shifted by one.
LEMMA BelowIs ==
    ASSUME Stacks, NEW t \in Threads
    PROVE  /\ IsSeq(stack[t]) /\ Len(stack[t]) \in Nat
           /\ IsSeq(Below(t)) /\ Len(Below(t)) \in Nat
           /\ Len(Below(t)) = IF stack[t] = <<>> THEN 0 ELSE Len(stack[t]) - 1
           /\ \A i \in 1..Len(Below(t)) : i + 1 \in 2..Len(stack[t]) /\ Below(t)[i] = stack[t][i + 1]
           /\ stack[t] # <<>> => Top(t) = stack[t][1] /\ 1 \in 1..Len(stack[t])
           /\ stack[t] = <<>> => Len(stack[t]) = 0
  <1>1. IsSeq(stack[t])
    BY DEF Stacks
  <1>2. CASE stack[t] = <<>>
    BY <1>2, EmptyIs DEF Below
  <1>3. CASE stack[t] # <<>>
    <2>1. /\ IsSeq(Tail(stack[t])) /\ Len(stack[t]) \in Nat \ {0}
          /\ Len(Tail(stack[t])) = Len(stack[t]) - 1
          /\ Head(stack[t]) = stack[t][1]
          /\ \A i \in 1..Len(stack[t]) - 1 : Tail(stack[t])[i] = stack[t][i + 1]
      BY <1>1, <1>3, TailIs
    <2>2. Below(t) = Tail(stack[t])
      BY <1>3 DEF Below
    <2> QED
      BY <1>1, <1>3, <2>1, <2>2 DEF Top
  <1> QED
    BY <1>2, <1>3

\* After a step of a thread its frames are the new ones, and then those below.
LEMMA MovesIs ==
    ASSUME Stacks, NEW t \in Threads, NEW fs, IsSeq(fs), Moves(t, fs)
    PROVE  /\ stack' = [u \in Threads |-> stack'[u]]
           /\ \A u \in Threads \ {t} : stack'[u] = stack[u]
           /\ Len(fs) \in Nat
           /\ IsSeq(stack'[t]) /\ Len(stack'[t]) = Len(fs) + Len(Below(t))
           /\ \A i \in 1..Len(stack'[t]) :
                 \/ i \in 1..Len(fs) /\ stack'[t][i] = fs[i]
                 \/ /\ i > Len(fs) /\ i - Len(fs) + 1 \in 2..Len(stack[t])
                    /\ stack'[t][i] = stack[t][i - Len(fs) + 1]
           /\ \A i \in 1..Len(fs) : i \in 1..Len(stack'[t]) /\ stack'[t][i] = fs[i]
  <1>1. stack'[t] = fs \o Below(t) /\ \A u \in Threads \ {t} : stack'[u] = stack[u]
    BY DEF Moves, Stacks
  <1>2. stack' = [u \in Threads |-> stack'[u]]
    BY DEF Moves, Stacks
  <1>3. /\ IsSeq(Below(t)) /\ Len(Below(t)) \in Nat
        /\ \A i \in 1..Len(Below(t)) : i + 1 \in 2..Len(stack[t]) /\ Below(t)[i] = stack[t][i + 1]
    BY BelowIs
  <1> DEFINE r == fs \o Below(t)
  <1>4. /\ IsSeq(r) /\ Len(fs) \in Nat /\ Len(r) = Len(fs) + Len(Below(t))
        /\ \A i \in 1..Len(fs) : r[i] = fs[i]
        /\ \A i \in 1..Len(r) :
              \/ i \in 1..Len(fs) /\ r[i] = fs[i]
              \/ i > Len(fs) /\ i - Len(fs) \in 1..Len(Below(t)) /\ r[i] = Below(t)[i - Len(fs)]
    BY <1>3, ConcatIs
  <1> HIDE DEF r
  <1>5. stack'[t] = r
    BY <1>1 DEF r
  <1>6. ASSUME NEW i \in 1..Len(r), i > Len(fs), i - Len(fs) \in 1..Len(Below(t)),
               r[i] = Below(t)[i - Len(fs)]
        PROVE  i - Len(fs) + 1 \in 2..Len(stack[t]) /\ r[i] = stack[t][i - Len(fs) + 1]
    BY <1>3, <1>6
  <1>7. \A i \in 1..Len(fs) : i \in 1..Len(r)
    BY <1>3, <1>4
  <1> QED
    BY <1>1, <1>2, <1>4, <1>5, <1>6, <1>7

\* The frames after a step.
LEMMA MovedFrames ==
    ASSUME Stacks, NEW t \in Threads, NEW fs, IsSeq(fs), Moves(t, fs)
    PROVE  /\ \A u \in Threads \ {t} : FramesIn(u)' = FramesIn(u) /\ Lower(u)' = Lower(u)
           /\ \A f \in FramesIn(t)' : f \in FramesIn(t) \/ \E i \in 1..Len(fs) : f = fs[i]
           /\ \A f \in FramesIn(t)' : f \in Lower(t) \/ \E i \in 1..Len(fs) : f = fs[i]
           /\ \A f \in Lower(t)' : f \in Lower(t) \/ \E i \in 2..Len(fs) : f = fs[i]
           /\ Lower(t) \subseteq FramesIn(t)
           /\ \A f \in FramesIn(t) : f \in Lower(t) \/ (stack[t] # <<>> /\ f = Top(t))
           /\ Lower(t) \subseteq FramesIn(t)'
           /\ \A i \in 1..Len(fs) : fs[i] \in FramesIn(t)'
           /\ stack[t] # <<>> => Top(t) \in FramesIn(t)
  <1>1. /\ \A u \in Threads \ {t} : stack'[u] = stack[u]
        /\ Len(fs) \in Nat
        /\ IsSeq(stack'[t]) /\ Len(stack'[t]) = Len(fs) + Len(Below(t))
        /\ \A i \in 1..Len(stack'[t]) :
              \/ i \in 1..Len(fs) /\ stack'[t][i] = fs[i]
              \/ /\ i > Len(fs) /\ i - Len(fs) + 1 \in 2..Len(stack[t])
                 /\ stack'[t][i] = stack[t][i - Len(fs) + 1]
        /\ \A i \in 1..Len(fs) : i \in 1..Len(stack'[t]) /\ stack'[t][i] = fs[i]
    BY MovesIs
  <1>2. /\ Len(stack[t]) \in Nat /\ Len(Below(t)) \in Nat
        /\ Len(Below(t)) = IF stack[t] = <<>> THEN 0 ELSE Len(stack[t]) - 1
        /\ stack[t] # <<>> => Top(t) = stack[t][1] /\ 1 \in 1..Len(stack[t])
        /\ stack[t] = <<>> => Len(stack[t]) = 0
    BY BelowIs
  <1>3. \A u \in Threads \ {t} : FramesIn(u)' = FramesIn(u) /\ Lower(u)' = Lower(u)
    BY <1>1 DEF FramesIn, Lower
  <1>4. \A f \in FramesIn(t)' : f \in Lower(t) \/ \E i \in 1..Len(fs) : f = fs[i]
    BY <1>1 DEF FramesIn, Lower
  <1>5. Lower(t) \subseteq FramesIn(t)
    BY <1>2 DEF FramesIn, Lower
  <1>6. ASSUME NEW f \in Lower(t)' PROVE f \in Lower(t) \/ \E i \in 2..Len(fs) : f = fs[i]
    <2>1. PICK i \in 2..Len(stack'[t]) : f = stack'[t][i]
      BY <1>6 DEF Lower
    <2>2. i \in 1..Len(stack'[t])
      BY <1>1, <1>2, <2>1
    <2>3. CASE i \in 1..Len(fs) /\ stack'[t][i] = fs[i]
      BY <1>1, <2>1, <2>3
    <2>4. CASE i - Len(fs) + 1 \in 2..Len(stack[t]) /\ stack'[t][i] = stack[t][i - Len(fs) + 1]
      BY <2>1, <2>4 DEF Lower
    <2> QED
      BY <1>1, <2>2, <2>3, <2>4
  <1>7. \A f \in FramesIn(t) : f \in Lower(t) \/ (stack[t] # <<>> /\ f = Top(t))
    <2> TAKE f \in FramesIn(t)
    <2>1. PICK i \in 1..Len(stack[t]) : f = stack[t][i]
      BY DEF FramesIn
    <2>2. CASE i = 1
      BY <1>2, <2>1, <2>2
    <2>3. CASE i # 1
      BY <1>2, <2>1, <2>3 DEF Lower
    <2> QED
      BY <2>2, <2>3
  <1>8. ASSUME NEW f \in Lower(t) PROVE f \in FramesIn(t)'
    <2>1. PICK j \in 2..Len(stack[t]) : f = stack[t][j]
      BY <1>8 DEF Lower
    <2>2. stack[t] # <<>>
      BY <1>2, <2>1
    <2> DEFINE i == j - 1 + Len(fs)
    <2>3. i \in 1..Len(stack'[t]) /\ i - Len(fs) + 1 = j /\ ~(i \in 1..Len(fs))
      BY <1>1, <1>2, <2>1, <2>2
    <2>4. stack'[t][i] = stack[t][i - Len(fs) + 1]
      <3> HIDE DEF i
      <3> QED
        BY <1>1, <2>3
    <2>5. stack'[t][i] = f
      <3> HIDE DEF i
      <3> QED
        BY <2>1, <2>3, <2>4
    <2> HIDE DEF i
    <2> QED
      BY <2>3, <2>5 DEF FramesIn
  <1>9. \A i \in 1..Len(fs) : fs[i] \in FramesIn(t)'
    BY <1>1 DEF FramesIn
  <1>10. stack[t] # <<>> => Top(t) \in FramesIn(t)
    BY <1>2 DEF FramesIn
  <1> QED
    BY <1>3, <1>4, <1>5, <1>6, <1>7, <1>8, <1>9, <1>10

\* Where a frame stood before others took the place of the innermost.
LEMMA ShiftedIs ==
    ASSUME NEW n \in Nat, NEW l \in Nat, NEW m \in Int, m = n + l - 1,
           NEW i \in Int, i <= m, i - n + 1 \in 2..l
    PROVE  i - n + 1 \in 1..l /\ (i - n + 1 = l => i = m)
  OBVIOUS

\* What a thread may push.
PushOK(t, fs) ==
    /\ IsSeq(fs)
    /\ \A i \in 1..Len(fs) :
          /\ FrameOK(fs[i]) /\ FrameFrom(t, fs[i])
          /\ i \in 2..Len(fs) => ~Late(fs[i])
          /\ fs[i].op = "body" =>
                \/ /\ t \in App /\ i = Len(fs) /\ Len(stack[t]) <= 1
                   /\ RestOf(fs[i].rest, plan.calls[t])
                \/ \E k \in DOMAIN plan.body : RestOf(fs[i].rest, plan.body[k])
          /\ fs[i].op = "erase" /\ KindOf[fs[i].o] = "server" =>
                i \in 2..Len(fs) /\ fs[i - 1].op = "stop" /\ fs[i - 1].o = fs[i].o

\* Pushing frames that may be pushed preserves what is known of the stacks.
LEMMA StacksKept ==
    ASSUME Stacks, NEW t \in Threads, NEW fs, PushOK(t, fs), Moves(t, fs), plan' = plan,
           fs = <<>> \/ ~At(t, "stop")
    PROVE  Stacks'
  <1>1. IsSeq(fs)
    BY DEF PushOK
  <1>2. /\ stack' = [u \in Threads |-> stack'[u]]
        /\ \A u \in Threads \ {t} : stack'[u] = stack[u]
        /\ Len(fs) \in Nat
        /\ IsSeq(stack'[t]) /\ Len(stack'[t]) = Len(fs) + Len(Below(t))
        /\ \A i \in 1..Len(stack'[t]) :
              \/ i \in 1..Len(fs) /\ stack'[t][i] = fs[i]
              \/ /\ i > Len(fs) /\ i - Len(fs) + 1 \in 2..Len(stack[t])
                 /\ stack'[t][i] = stack[t][i - Len(fs) + 1]
    BY <1>1, MovesIs
  <1>3. /\ Len(stack[t]) \in Nat /\ Len(Below(t)) \in Nat
        /\ Len(Below(t)) = IF stack[t] = <<>> THEN 0 ELSE Len(stack[t]) - 1
        /\ stack[t] # <<>> => Top(t) = stack[t][1] /\ 1 \in 1..Len(stack[t])
        /\ stack[t] = <<>> => Len(stack[t]) = 0
    BY BelowIs
  <1>4. /\ \A u \in Threads \ {t} : FramesIn(u)' = FramesIn(u) /\ Lower(u)' = Lower(u)
        /\ \A f \in FramesIn(t)' : f \in FramesIn(t) \/ \E i \in 1..Len(fs) : f = fs[i]
        /\ \A f \in Lower(t)' : f \in Lower(t) \/ \E i \in 2..Len(fs) : f = fs[i]
    BY <1>1, MovedFrames
  <1>5. ASSUME NEW u \in Threads, NEW f \in FramesIn(u)' PROVE FrameOK(f) /\ FrameFrom(u, f)'
    <2>1. FrameFrom(u, f)' <=> FrameFrom(u, f)
      BY DEF FrameFrom, Mine, Some, In, Announced
    <2>2. CASE f \in FramesIn(u)
      BY <2>1, <2>2 DEF Stacks
    <2>3. CASE f \notin FramesIn(u)
      <3>1. u = t /\ \E i \in 1..Len(fs) : f = fs[i]
        BY <1>4, <1>5, <2>3
      <3> QED
        BY <2>1, <3>1 DEF PushOK
    <2> QED
      BY <2>2, <2>3
  <1>6. ASSUME NEW u \in Threads, NEW f \in Lower(u)' PROVE ~Late(f)
    <2>1. CASE f \in Lower(u)
      BY <2>1 DEF Stacks
    <2>2. CASE f \notin Lower(u)
      <3>1. u = t /\ \E i \in 2..Len(fs) : f = fs[i]
        BY <1>4, <1>6, <2>2
      <3>2. PICK i \in 2..Len(fs) : f = fs[i]
        BY <3>1
      <3>3. i \in 1..Len(fs)
        BY <1>2
      <3> QED
        BY <3>2, <3>3 DEF PushOK
    <2> QED
      BY <2>1, <2>2
  <1>7. ASSUME NEW i \in 1..Len(stack'[t]), stack'[t][i].op = "body" PROVE BodyFrom(t, i)'
    <2>1. CASE i \in 1..Len(fs) /\ stack'[t][i] = fs[i]
      <3>1. CASE /\ t \in App /\ i = Len(fs) /\ Len(stack[t]) <= 1
                 /\ RestOf(fs[i].rest, plan.calls[t])
        <4>1. i = Len(stack'[t])
          BY <1>2, <1>3, <3>1
        <4> QED
          BY <2>1, <3>1, <4>1 DEF BodyFrom
      <3>2. CASE \E k \in DOMAIN plan.body : RestOf(fs[i].rest, plan.body[k])
        BY <2>1, <3>2 DEF BodyFrom
      <3> QED
        BY <1>7, <2>1, <3>1, <3>2 DEF PushOK
    <2>2. CASE /\ i > Len(fs) /\ i - Len(fs) + 1 \in 2..Len(stack[t])
               /\ stack'[t][i] = stack[t][i - Len(fs) + 1]
      <3> DEFINE j == i - Len(fs) + 1
      <3>0. Len(stack[t]) >= 2 /\ stack[t] # <<>>
        BY <1>3, <2>2
      <3>1. j \in 1..Len(stack[t]) /\ (j = Len(stack[t]) => i = Len(stack'[t]))
        <4>1. Len(stack'[t]) = Len(fs) + Len(stack[t]) - 1 /\ Len(fs) \in Nat /\ Len(stack[t]) \in Nat
          BY <1>2, <1>3, <3>0
        <4>2. i \in Int /\ i <= Len(stack'[t])
          BY <1>2, <1>3
        <4>3. Len(stack'[t]) \in Int
          BY <4>1
        <4> QED
          BY <2>2, <4>1, <4>2, <4>3, ShiftedIs
      <3>2. BodyFrom(t, j)
        <4>1. stack[t][j].op = "body"
          BY <1>7, <2>2
        <4> HIDE DEF j
        <4> QED
          BY <3>1, <4>1 DEF Stacks
      <3>3. stack'[t][i] = stack[t][j]
        BY <2>2
      <3> HIDE DEF j
      <3> QED
        BY <3>1, <3>2, <3>3 DEF BodyFrom
    <2> QED
      BY <1>2, <2>1, <2>2
  <1>8. ASSUME NEW i \in 2..Len(stack'[t]), stack'[t][i].op = "erase", KindOf[stack'[t][i].o] = "server"
        PROVE  stack'[t][i - 1].op = "stop" /\ stack'[t][i - 1].o = stack'[t][i].o
    <2>0. i \in 1..Len(stack'[t]) /\ i - 1 \in 1..Len(stack'[t]) /\ Len(stack'[t]) \in Nat
      BY <1>2, <1>3
    <2>1. CASE i \in 1..Len(fs) /\ stack'[t][i] = fs[i]
      <3>1. fs[i - 1].op = "stop" /\ fs[i - 1].o = fs[i].o
        BY <1>8, <2>1 DEF PushOK
      <3>2. stack'[t][i - 1] = fs[i - 1]
        BY <1>2, <2>0, <2>1
      <3> QED
        BY <2>1, <3>1, <3>2
    <2>2. CASE /\ i > Len(fs) /\ i - Len(fs) + 1 \in 2..Len(stack[t])
               /\ stack'[t][i] = stack[t][i - Len(fs) + 1]
      <3> DEFINE j == i - Len(fs) + 1
      <3>1. j \in 2..Len(stack[t]) /\ stack'[t][i] = stack[t][j]
        BY <2>2
      <3>2. stack[t][j - 1].op = "stop" /\ stack[t][j - 1].o = stack[t][j].o
        <4> HIDE DEF j
        <4> QED
          BY <1>8, <3>1 DEF Stacks
      <3>3. CASE j = 2
        <4>1. stack[t] # <<>> /\ stack[t][1].op = "stop"
          <5>1. stack[t][1].op = "stop"
            <6>1. j - 1 = 1
              BY <3>3
            <6> HIDE DEF j
            <6> QED
              BY <3>2, <6>1
          <5>2. Len(stack[t]) # 0
            BY <1>3, <3>1, <3>3
          <5> QED
            BY <1>3, <5>1, <5>2
        <4>2. At(t, "stop")
          BY <1>3, <4>1 DEF At, Top
        <4>3. Len(fs) = 0
          BY <4>2, EmptyIs
        <4> QED
          BY <1>8, <2>2, <3>3, <4>3
      <3>4. CASE j > 2
        <4>1. i - 1 > Len(fs) /\ (i - 1) - Len(fs) + 1 = j - 1
          BY <1>2, <3>4
        <4>2. stack'[t][i - 1] = stack[t][j - 1]
          <5> HIDE DEF j
          <5> QED
            BY <1>2, <2>0, <4>1
        <4> HIDE DEF j
        <4> QED
          BY <3>1, <3>2, <4>2
      <3> QED
        BY <3>1, <3>3, <3>4
    <2> QED
      BY <1>2, <2>0, <2>1, <2>2
  <1>9. ASSUME NEW u \in Threads
        PROVE  /\ IsSeq(stack'[u])
               /\ \A i \in 1..Len(stack'[u]) : stack'[u][i].op = "body" => BodyFrom(u, i)'
               /\ \A i \in 2..Len(stack'[u]) :
                     stack'[u][i].op = "erase" /\ KindOf[stack'[u][i].o] = "server" =>
                        stack'[u][i - 1].op = "stop" /\ stack'[u][i - 1].o = stack'[u][i].o
    <2>1. CASE u = t
      BY <1>2, <1>7, <1>8, <2>1
    <2>2. CASE u # t
      <3>1. stack'[u] = stack[u]
        BY <1>2, <2>2
      <3>2. \A i \in 1..Len(stack'[u]) : BodyFrom(u, i)' <=> BodyFrom(u, i)
        BY <3>1 DEF BodyFrom
      <3> QED
        BY <3>1, <3>2 DEF Stacks
    <2> QED
      BY <2>1, <2>2
  <1> QED
    BY <1>2, <1>5, <1>6, <1>9 DEF Stacks

\* Frames that neither give handles, keep anything under them, nor end them.
Tame(f) ==
    /\ FrameOK(f) /\ ~Late(f) /\ f.op # "erase"
    /\ f.op = "destroy" /\ KindOf[f.o] \in {"pc", "server"} => id[f.o] # 0
    /\ f.op = "return" /\ f.ev = "deleted" => id[f.o] # 0 /\ ~Registered(f.o)
    /\ f.op = "body" => \E k \in DOMAIN plan.body : RestOf(f.rest, plan.body[k])

\* Tame frames may be pushed by any thread.
LEMMA TamePush ==
    ASSUME NEW t, NEW fs, IsSeq(fs), \A i \in 1..Len(fs) : Tame(fs[i])
    PROVE  PushOK(t, fs)
  <1>1. ASSUME NEW i \in 1..Len(fs)
        PROVE  /\ FrameOK(fs[i]) /\ ~Late(fs[i]) /\ FrameFrom(t, fs[i]) /\ fs[i].op # "erase"
               /\ fs[i].op = "body" => \E k \in DOMAIN plan.body : RestOf(fs[i].rest, plan.body[k])
    BY DEF Tame, FrameFrom, Late
  <1>2. \A i \in 2..Len(fs) : i \in 1..Len(fs)
    BY DEF IsSeq
  <1> QED
    BY <1>1, <1>2 DEF PushOK

\* A frame of a step that pushes tame ones is one of them, or was there.
LEMMA TameFrames ==
    ASSUME Stacks, NEW t \in Threads, NEW fs, IsSeq(fs), \A i \in 1..Len(fs) : Tame(fs[i]),
           Moves(t, fs), NEW u \in Threads, NEW f \in FramesIn(u)'
    PROVE  f \in FramesIn(u) \/ (u = t /\ Tame(f))
  BY MovedFrames

\* What a callback keeps under a handle stays there.
LEMMA BodyKeeps ==
    ASSUME DataTyped, NEW k \in DOMAIN plan.body, NEW r, RestOf(r, plan.body[k]), IsSeq(r),
           NEW o \in Objects, In(r, LAMBDA c : Keeps(c, o))
    PROVE  Safe(o)
  <1>1. plan \in Plans
    BY DEF DataTyped
  <1>2. PICK i \in 1..Len(r) : Keeps(r[i], o)
    BY DEF In
  <1>3. IsSeq(plan.body[k])
    BY <1>1, PlansAssumption
  <1> DEFINE j == Len(plan.body[k]) - Len(r) + i
  <1>4. j \in 1..Len(plan.body[k]) /\ r[i] = plan.body[k][j]
    BY <1>3 DEF RestOf, IsSeq
  <1> HIDE DEF j
  <1>5. ~Some(plan, App, LAMBDA c : Ends(c, o))
    BY <1>1, <1>2, <1>4, DisciplineTest
  <1> QED
    BY <1>5 DEF Safe

\* At the innermost frame a server is erased only when it has stopped.
LEMMA StoppedFirst ==
    ASSUME Stacks, NEW t \in Threads, Moves(t, <<>>), At(t, "erase")', KindOf[Top(t).o]' = "server"
    PROVE  At(t, "stop") /\ Top(t).o = Top(t)'.o
  <1>1. /\ IsSeq(stack'[t]) /\ Len(stack'[t]) = Len(<<>>) + Len(Below(t))
        /\ \A i \in 1..Len(stack'[t]) :
              \/ i \in 1..Len(<<>>) /\ stack'[t][i] = <<>>[i]
              \/ /\ i > Len(<<>>) /\ i - Len(<<>>) + 1 \in 2..Len(stack[t])
                 /\ stack'[t][i] = stack[t][i - Len(<<>>) + 1]
    <2> DEFINE fs == <<>>
    <2>1. IsSeq(fs) /\ Moves(t, fs)
      BY EmptyIs
    <2> HIDE DEF fs
    <2>2. /\ IsSeq(stack'[t]) /\ Len(stack'[t]) = Len(fs) + Len(Below(t))
          /\ \A i \in 1..Len(stack'[t]) :
                \/ i \in 1..Len(fs) /\ stack'[t][i] = fs[i]
                \/ /\ i > Len(fs) /\ i - Len(fs) + 1 \in 2..Len(stack[t])
                   /\ stack'[t][i] = stack[t][i - Len(fs) + 1]
      BY <2>1, MovesIs
    <2> QED
      BY <2>2 DEF fs
  <1>2. stack'[t] # <<>> /\ Top(t)' = stack'[t][1] /\ 1 \in 1..Len(stack'[t])
    <2>1. stack'[t] # <<>>
      BY DEF At
    <2>2. Head(stack'[t]) = stack'[t][1] /\ Len(stack'[t]) \in Nat \ {0}
      BY <1>1, <2>1, TailIs
    <2> QED
      BY <2>1, <2>2 DEF Top
  <1>3. 2 \in 2..Len(stack[t]) /\ stack'[t][1] = stack[t][2]
    BY <1>1, <1>2, EmptyIs
  <1>4. /\ Len(stack[t]) \in Nat
        /\ stack[t] # <<>> => Top(t) = stack[t][1]
        /\ stack[t] = <<>> => Len(stack[t]) = 0
    BY BelowIs
  <1>5. stack[t][2].op = "erase" /\ KindOf[stack[t][2].o] = "server"
    BY <1>2, <1>3 DEF At, Top
  <1>6. stack[t][2 - 1].op = "stop" /\ stack[t][2 - 1].o = stack[t][2].o
    BY <1>3, <1>5 DEF Stacks
  <1>7. stack[t] # <<>>
    BY <1>3, <1>4
  <1> QED
    BY <1>2, <1>3, <1>4, <1>6, <1>7 DEF At, Top

\* Announcements and names are innermost.
LEMMA LateOnTop ==
    ASSUME Stacks, NEW t \in Threads, NEW f \in FramesIn(t), Late(f)
    PROVE  stack[t] # <<>> /\ f = Top(t)
  <1>1. f \notin Lower(t)
    BY DEF Stacks
  <1>2. PICK i \in 1..Len(stack[t]) : f = stack[t][i]
    BY DEF FramesIn
  <1>3. i = 1
    BY <1>1, <1>2, BelowIs DEF Lower
  <1>4. /\ Len(stack[t]) \in Nat
        /\ stack[t] # <<>> => Top(t) = stack[t][1]
        /\ stack[t] = <<>> => Len(stack[t]) = 0
    BY BelowIs
  <1> QED
    BY <1>2, <1>3, <1>4

\* A step that pushes tame frames and leaves the tables alone preserves Inv.
LEMMA TameStep ==
    ASSUME Inv, NEW t \in Threads, NEW fs, IsSeq(fs), \A i \in 1..Len(fs) : Tame(fs[i]), Moves(t, fs),
           UNCHANGED <<plan, lastId, id, table, userPointer, media, known, init>>,
           \A o \in Objects : alive[o] # "new" => alive'[o] # "new",
           \A o \in Objects :
              KindOf[o] \in {"pc", "server"} /\ (alive'[o] # "new" \/ mIsOpen'[o]) => id[o] # 0,
           pending' = pending, \A o \in Objects : Offered(o)' => Offered(o),
           \A s \in Objects : mIsClosed[s] => mIsClosed'[s],
           deleted' \subseteq Objects, \A o \in deleted' : id[o] # 0 /\ ~Registered(o),
           \A i \in 1..Len(net') : Announces(net'[i]) => Announced,
           stack[t] = <<>> \/ ~Naming(Top(t)),
           At(t, "stop") => fs = <<>>,
           \A s \in Objects : At(t, "stop") /\ Top(t).o = s => Quiet(s)'
    PROVE  Stacks' /\ Numbered' /\ Handled' /\ Once' /\ Disciplined' /\ Erasing' /\ ToldOf'
  <1> USE DEF Inv
  <1>0. Registered(1)' = Registered(1) /\ \A o : Registered(o)' = Registered(o)
    BY DEF Registered
  <1>1. \A u \in Threads : \A f \in FramesIn(u)' : f \in FramesIn(u) \/ (u = t /\ Tame(f))
    BY TameFrames
  <1>2. Stacks'
    BY TamePush, StacksKept
  <1>3. Numbered'
    BY <1>0 DEF Numbered
  <1>4. Handled'
    <2>1. ASSUME NEW u \in Threads, NEW f \in FramesIn(u)'
          PROVE  /\ f.op = "destroy" /\ KindOf[f.o] \in {"pc", "server"} => id[f.o] # 0
                 /\ f.op = "create" /\ Owner[f.o] # f.o => id[Owner[f.o]] # 0
                 /\ f.op \in {"packetize", "chain"} => id[f.o] # 0
      BY <1>1 DEF Handled, Tame, Late
    <2> QED
      BY <2>1 DEF Handled
  <1>5. \A u \in Threads : \A o : /\ AnnouncedBy(u, o)' => AnnouncedBy(u, o)
                                  /\ NamedBy(u, o)' => NamedBy(u, o)
    BY <1>1 DEF AnnouncedBy, NamedBy, Tame, Late
  <1>6. Once'
    <2>1. \A o \in Objects : Waiting(o)' = Waiting(o)
      BY DEF Waiting
    <2>2. \A o \in Objects : Coming(o)' => Coming(o)
      BY <1>5, <2>1 DEF Coming
    <2>3. Announced' = Announced
      BY DEF Announced
    <2> QED
      BY <1>0, <1>5, <2>1, <2>2, <2>3 DEF Once
  <1>7. \A o \in Objects : Safe(o)' => Safe(o)
    <2> TAKE o \in Objects
    <2>1. ASSUME Ahead(o)' PROVE Safe(o)
      <3>1. PICK u \in Threads : \E f \in FramesIn(u)' :
               \/ f.op = "body" /\ In(f.rest, LAMBDA c : Keeps(c, o))
               \/ f.op \in {"packetize", "chain"} /\ f.o = o
        BY <2>1 DEF Ahead, In
      <3>2. PICK f \in FramesIn(u)' :
               \/ f.op = "body" /\ In(f.rest, LAMBDA c : Keeps(c, o))
               \/ f.op \in {"packetize", "chain"} /\ f.o = o
        BY <3>1
      <3>3. CASE f \in FramesIn(u)
        BY <3>2, <3>3 DEF Safe, Ahead
      <3>4. CASE Tame(f)
        <4>1. f.op = "body" /\ In(f.rest, LAMBDA c : Keeps(c, o)) /\ IsSeq(f.rest)
          BY <3>2, <3>4 DEF Tame, Late, FrameOK
        <4>2. PICK k \in DOMAIN plan.body : RestOf(f.rest, plan.body[k])
          BY <3>4, <4>1 DEF Tame
        <4> QED
          BY <4>1, <4>2, BodyKeeps
      <3> QED
        BY <1>1, <3>3, <3>4
    <2>2. Some(plan, App, LAMBDA c : Ends(c, o))' = Some(plan, App, LAMBDA c : Ends(c, o))
      BY DEF Some, In, Ends
    <2> QED
      BY <2>1, <2>2 DEF Safe
  <1>8. Disciplined'
    <2>1. ASSUME NEW o \in Objects, NEW u \in Threads, NEW f \in FramesIn(u)', Ending(f, o)
          PROVE  f \in FramesIn(u)
      BY <1>1, <2>1 DEF Ending, Tame, Late
    <2>2. \A o \in Objects : Safe(o)' =>
             /\ id[o] = 0 \/ Registered(o)
             /\ \A u \in Threads : \A f \in FramesIn(u) : ~Ending(f, o)
      BY <1>7 DEF Disciplined
    <2> QED
      BY <1>0, <2>1, <2>2 DEF Disciplined, Ending
  <1>9. \A s \in Objects : Quiet(s) => Quiet(s)'
    <2>1. Server \in Threads
      BY DEF Threads
    <2> QED
      BY <1>1, <2>1 DEF Quiet, Tame, Late
  <1>10. ASSUME NEW u \in Threads, At(u, "erase")', KindOf[Top(u).o]' = "server"
         PROVE  Quiet(Top(u).o)'
    <2>0. Top(u)' \in FramesIn(u)' /\ Top(u)'.o \in Objects
      <3>1. IsSeq(stack'[u]) /\ stack'[u] # <<>>
        BY <1>2, <1>10 DEF Stacks, At
      <3>2. Top(u)' = stack'[u][1] /\ 1 \in 1..Len(stack'[u])
        BY <3>1, TailIs DEF Top
      <3>3. Top(u)' \in FramesIn(u)'
        BY <3>2 DEF FramesIn
      <3>4. FrameOK(Top(u)') /\ Top(u)'.op = "erase"
        BY <1>2, <1>10, <3>3 DEF Stacks, At, Top
      <3> QED
        BY <3>3, <3>4 DEF FrameOK
    <2>1. CASE u # t
      <3>1. stack'[u] = stack[u]
        BY <2>1, MovesIs
      <3>2. Quiet(Top(u).o) /\ Top(u)' = Top(u)
        BY <1>10, <3>1 DEF Erasing, At, Top
      <3> QED
        BY <1>9, <2>0, <3>2
    <2>2. CASE u = t /\ fs # <<>>
      <3>1. Len(fs) > 0
        BY <2>2, NonEmptyIs
      <3>2. 1 \in 1..Len(fs) /\ stack'[t][1] = fs[1] /\ IsSeq(stack'[t]) /\ stack'[t] # <<>>
        BY <1>10, <2>2, <3>1, MovesIs DEF At
      <3>3. Top(t)' = fs[1]
        BY <3>2, TailIs DEF Top
      <3> QED
        BY <1>10, <2>2, <3>2, <3>3 DEF At, Top, Tame
    <2>3. CASE u = t /\ fs = <<>>
      <3>1. At(t, "stop") /\ Top(t).o = Top(t)'.o
        BY <1>10, <2>3, StoppedFirst
      <3>2. PICK s \in Objects : s = Top(t)'.o /\ s = Top(t).o
        BY <2>0, <2>3, <3>1
      <3>3. Quiet(s)'
        BY <3>1, <3>2
      <3> QED
        BY <2>3, <3>2, <3>3 DEF Quiet
    <2> QED
      BY <2>1, <2>2, <2>3
  <1>11. Erasing'
    <2>1. ASSUME NEW u \in Threads, NEW f \in FramesIn(u)'
          PROVE  /\ f.op = "erase" => id[f.o] \in known
                 /\ f.op = "return" /\ f.ev = "deleted" => id[f.o] # 0 /\ ~Registered(f.o)
                 /\ f.op = "inherit" /\ KindOf[Owner[f.o]] = "server" => Registered(Owner[f.o])
      BY <1>1 DEF Erasing, Tame, Late, Naming
    <2>2. \A u \in Threads : At(u, "erase")' /\ (KindOf[Top(u).o] = "server")' => Quiet(Top(u).o)'
      BY <1>10
    <2>3. \A u \in Threads : \A f \in FramesIn(u)' :
             /\ f.op = "erase" => id'[f.o] \in known'
             /\ f.op = "return" /\ f.ev = "deleted" => id'[f.o] # 0 /\ ~Registered(f.o)'
             /\ f.op = "inherit" /\ KindOf[Owner[f.o]] = "server" => Registered(Owner[f.o])'
      BY <1>0, <2>1
    <2>4. deleted' \subseteq Objects /\ \A o \in deleted' : id'[o] # 0 /\ ~Registered(o)'
      BY <1>0
    <2> QED
      BY <2>2, <2>3, <2>4 DEF Erasing
  <1>12. \A u \in Threads, o \in Objects : NamedBy(u, o) => NamedBy(u, o)'
    <2> TAKE u \in Threads, o \in Objects
    <2>1. CASE u # t
      BY <2>1, MovedFrames DEF NamedBy
    <2>2. CASE u = t
      <3>1. ASSUME NEW f \in FramesIn(t), Naming(f) PROVE FALSE
        BY <3>1, LateOnTop DEF Late
      <3> QED
        BY <2>2, <3>1 DEF NamedBy
    <2> QED
      BY <2>1, <2>2
  <1>13. ToldOf'
    BY <1>0, <1>12 DEF ToldOf
  <1> QED
    BY <1>2, <1>3, <1>4, <1>6, <1>8, <1>11, <1>13

-----------------------------------------------------------------------------
\* The steps.
LEMMA GoMoves ==
    ASSUME NEW t, NEW fs, Go(t, fs), stack[t] # <<>>
    PROVE  Moves(t, fs)
  BY DEF Go, Moves, Below

\* The innermost frame is one of the frames of its thread.
LEMMA TopIs ==
    ASSUME Inv, NEW t \in Threads, stack[t] # <<>>
    PROVE  Top(t) \in FramesIn(t) /\ FrameOK(Top(t)) /\ FrameFrom(t, Top(t))
  <1>1. Top(t) \in FramesIn(t)
    BY BelowIs DEF FramesIn, Inv
  <1> QED
    BY <1>1 DEF Inv, Stacks

\* The variables that tame steps keep.
tabled == <<plan, lastId, id, table, userPointer, media, known, init>>

\* The same for the steps that change no object's life either.
LEMMA TameInv ==
    ASSUME Inv, NEW t \in Threads, NEW fs, IsSeq(fs), \A i \in 1..Len(fs) : Tame(fs[i]), Moves(t, fs),
           UNCHANGED <<tabled, alive, mIsClosed, deleted, net, pending>>,
           \A o \in Objects : KindOf[o] \in {"pc", "server"} /\ mIsOpen'[o] => mIsOpen[o],
           \A o \in Objects : Offered(o)' => Offered(o),
           stack[t] # <<>>, ~Naming(Top(t)), Top(t).op # "stop",
           DataTyped', SlotsTyped'
    PROVE  Inv'
  <1>1. Handled /\ Erasing /\ Once
    BY DEF Inv
  <1>2. Stacks' /\ Numbered' /\ Handled' /\ Once' /\ Disciplined' /\ Erasing' /\ ToldOf'
    <2>1. UNCHANGED <<plan, lastId, id, table, userPointer, media, known, init>>
      BY DEF tabled
    <2>2. \A o \in Objects : KindOf[o] \in {"pc", "server"} /\ (alive'[o] # "new" \/ mIsOpen'[o]) => id[o] # 0
      BY <1>1 DEF Handled
    <2>3. deleted' \subseteq Objects /\ \A o \in deleted' : id[o] # 0 /\ ~Registered(o)
      BY <1>1 DEF Erasing
    <2>4. \A i \in 1..Len(net') : Announces(net'[i]) => Announced
      BY <1>1 DEF Once
    <2>5. ~At(t, "stop")
      BY DEF At, Top
    <2> QED
      BY <2>1, <2>2, <2>3, <2>4, <2>5, TameStep
  <1> QED
    BY <1>2 DEF Inv

\* A step that changes nothing but the stack.
LEMMA OnlyFrames ==
    ASSUME Inv, NEW t \in Threads, NEW fs, IsSeq(fs), \A i \in 1..Len(fs) : Tame(fs[i]), Go(t, fs),
           UNCHANGED <<env, io, tables, handlers, deleted, known, cb, stored, mIsOpen, mIsClosed, pending, life>>,
           stack[t] # <<>>, ~Naming(Top(t)), Top(t).op # "stop",
           SlotsTyped'
    PROVE  Inv'
  <1>1. /\ UNCHANGED <<tabled, alive, mIsClosed, deleted, net, pending>>
        /\ mIsOpen' = mIsOpen /\ cb' = cb
    BY DEF env, io, tables, handlers, life, tabled
  <1>2. DataTyped'
    BY DEF env, io, tables, handlers, life, Inv, DataTyped
  <1>3. Moves(t, fs)
    BY GoMoves
  <1>4. \A o \in Objects : Offered(o)' => Offered(o)
    BY <1>1 DEF Offered
  <1> QED
    BY <1>1, <1>2, <1>3, <1>4, TameInv

\* No frame, one tame frame and two of them are sequences of tame frames.
LEMMA NoFrames == IsSeq(<<>>) /\ \A i \in 1..Len(<<>>) : Tame(<<>>[i])
  BY EmptyIs

\* One tame frame.
LEMMA OneFrame == ASSUME NEW a, Tame(a) PROVE IsSeq(<<a>>) /\ \A i \in 1..Len(<<a>>) : Tame(<<a>>[i])
  <1>1. IsSeq(<<a>>) /\ Len(<<a>>) = 1 /\ <<a>>[1] = a
    BY OneIs
  <1>2. \A i \in 1..1 : i = 1
    OBVIOUS
  <1> QED
    BY <1>1, <1>2

\* Two tame frames.
LEMMA TwoFrames ==
    ASSUME NEW a, NEW b, Tame(a), Tame(b)
    PROVE  IsSeq(<<a, b>>) /\ \A i \in 1..Len(<<a, b>>) : Tame(<<a, b>>[i])
  <1>1. IsSeq(<<a, b>>) /\ Len(<<a, b>>) = 2 /\ <<a, b>>[1] = a /\ <<a, b>>[2] = b
    BY TwoIs
  <1>2. \A i \in 1..2 : i = 1 \/ i = 2
    OBVIOUS
  <1> QED
    BY <1>1, <1>2

\* Frames that are tame whatever they are of.
LEMMA SimpleTame ==
    ASSUME NEW o \in Objects, NEW ev, NEW x
    PROVE  /\ \A op \in {"close", "remoteClose", "stop", "in", "called", "announce", "erasedAll"} :
                 Tame(F(op, o, ev, x))
           /\ o \in Channels => \A op \in {"discard", "loop", "flush", "available", "opened", "peek"} :
                                   Tame(F(op, o, ev, x))
           /\ ev # "deleted" => Tame(F("return", o, ev, x))
           /\ Tame(ResetFrame(o))
           /\ ev # "announce" => Tame(F("closure", o, ev, x))
           /\ ev # "announce" /\ ev \in ToSet(Slots(KindOf[o])) => Tame(F("trigger", o, ev, x))
           /\ ev \in ToSet(Slots(KindOf[o])) /\ x \in {None, "app"} => Tame(F("assign", o, ev, x))
           /\ KindOf[o] \notin {"pc", "server"} \/ id[o] # 0 => Tame(F("destroy", o, ev, x))
  BY DEF Tame, FrameOK, Late, Announcing, Naming, F, ResetFrame

\* The end of a callback preserves Inv.
LEMMA CalledInv == ASSUME Inv, NEW t \in Threads, Called(t) PROVE Inv'
  <1>1. Go(t, <<>>) /\ stack[t] # <<>> /\ ~Naming(Top(t)) /\ Top(t).op # "stop"
    BY DEF Called, Return, At, Top, Naming
  <1>2. SlotsTyped'
    BY DEF Inv, SlotsTyped, Called, slots, chan
  <1> QED
    BY <1>1, <1>2, NoFrames, OnlyFrames DEF Called, app, slots, chan

\* Channels have these four callbacks.
LEMMA OpenSlots ==
    \A o \in Channels : {"open", "closed", "available", "message"} \subseteq ToSet(Slots(KindOf[o]))
  <1> TAKE o \in Channels
  <1>1. Slots(KindOf[o]) = <<"open", "closed", "available", "message">>
    BY DEF Channels, Slots
  <1>2. ToSet(<<"open", "closed", "available", "message">>) = {"open", "closed", "available", "message"}
    <2>1. 1..4 = {1, 2, 3, 4}
      OBVIOUS
    <2> QED
      BY <2>1, FourIs DEF ToSet
  <1> QED
    BY <1>1, <1>2

\* Opening a channel or socket preserves Inv.
LEMMA OpenedInv == ASSUME Inv, NEW t \in Threads, Opened(t) PROVE Inv'
  <1> DEFINE o == Top(t).o
             fs == <<F("trigger", o, "open", None), F("flush", o, None, None)>>
  <1>1. Go(t, fs) /\ stack[t] # <<>> /\ ~Naming(Top(t)) /\ Top(t).op # "stop" /\ Top(t).op = "opened"
    BY DEF Opened, At, Top, Naming
  <1>2. o \in Channels /\ o \in Objects
    BY <1>1, TopIs DEF FrameOK, Channels
  <1>3. IsSeq(fs) /\ \A i \in 1..Len(fs) : Tame(fs[i])
    BY <1>2, SimpleTame, OpenSlots, TwoFrames
  <1>4. SlotsTyped'
    BY DEF Inv, SlotsTyped, Opened, slots, chan
  <1> HIDE DEF fs
  <1> QED
    BY <1>1, <1>3, <1>4, OnlyFrames DEF Opened, app, slots, chan

\* triggerAvailable() preserves Inv.
LEMMA AvailableInv == ASSUME Inv, NEW t \in Threads, Available(t) PROVE Inv'
  <1> DEFINE o == Top(t).o
  <1>1. stack[t] # <<>> /\ ~Naming(Top(t)) /\ Top(t).op # "stop" /\ Top(t).op = "available"
    BY DEF Available, At, Top, Naming
  <1>2. o \in Channels /\ o \in Objects
    BY <1>1, TopIs DEF FrameOK, Channels
  <1>3. Tame(F("trigger", o, "available", None)) /\ Tame(F("flush", o, None, None))
    BY <1>2, SimpleTame, OpenSlots
  <1>4. PICK fs : IsSeq(fs) /\ (\A i \in 1..Len(fs) : Tame(fs[i])) /\ Go(t, fs)
    <2>1. CASE Len(mRecvQueue[o]) = 1
      <3>1. Go(t, <<F("trigger", o, "available", None), F("flush", o, None, None)>>)
        BY <2>1 DEF Available
      <3> QED
        BY <1>3, <3>1, TwoFrames
    <2>2. CASE Len(mRecvQueue[o]) # 1
      <3>1. Go(t, <<F("flush", o, None, None)>>)
        BY <2>2 DEF Available
      <3> QED
        BY <1>3, <3>1, OneFrame
    <2> QED
      BY <2>1, <2>2
  <1>5. SlotsTyped'
    BY DEF Inv, SlotsTyped, Available, slots, chan
  <1> QED
    BY <1>1, <1>4, <1>5, OnlyFrames DEF Available, app, slots, chan

\* flushPendingMessages() preserves Inv.
LEMMA FlushInv == ASSUME Inv, NEW t \in Threads, Flush(t) PROVE Inv'
  <1> DEFINE o == Top(t).o
  <1>1. stack[t] # <<>> /\ ~Naming(Top(t)) /\ Top(t).op # "stop" /\ Top(t).op = "flush"
    BY DEF Flush, At, Top, Naming
  <1>2. Tame([Top(t) EXCEPT !.op = "loop"])
    BY <1>1, TopIs DEF FrameOK, Tame, Late, Announcing, Naming
  <1>4. PICK fs : IsSeq(fs) /\ (\A i \in 1..Len(fs) : Tame(fs[i])) /\ Go(t, fs)
    <2>1. CASE mOpenTriggered[Top(t).o]
      <3>1. Go(t, <<[Top(t) EXCEPT !.op = "loop"]>>)
        BY <2>1 DEF Flush
      <3> QED
        BY <1>2, <3>1, OneFrame
    <2>2. CASE ~mOpenTriggered[Top(t).o]
      <3>1. Go(t, <<>>)
        BY <2>2 DEF Flush
      <3> QED
        BY <3>1, NoFrames
    <2> QED
      BY <2>1, <2>2
  <1>5. SlotsTyped'
    BY DEF Inv, SlotsTyped, Flush, slots, chan
  <1> QED
    BY <1>1, <1>4, <1>5, OnlyFrames DEF Flush, app, slots, chan

\* Its loop preserves Inv: what it takes from mRecvQueue leaves a sequence.
LEMMA FlushLoopInv == ASSUME Inv, NEW t \in Threads, FlushLoop(t) PROVE Inv'
  <1> DEFINE o == Top(t).o
  <1>1. stack[t] # <<>> /\ ~Naming(Top(t)) /\ Top(t).op # "stop" /\ Top(t).op = "loop"
    BY DEF FlushLoop, At, Top, Naming
  <1>2. o \in Channels /\ o \in Objects
    BY <1>1, TopIs DEF FrameOK, Channels
  <1>3. Tame(Top(t)) /\ \A x : Tame(F("trigger", o, "message", x))
    <2>1. \A x : Tame(F("trigger", o, "message", x))
      BY <1>2, SimpleTame, OpenSlots
    <2>2. Tame(Top(t))
      BY <1>1, TopIs DEF Tame, Late, Announcing, Naming
    <2> QED
      BY <2>1, <2>2
  <1>4. PICK fs : IsSeq(fs) /\ (\A i \in 1..Len(fs) : Tame(fs[i])) /\ Go(t, fs)
    <2>1. CASE cb[o].message = None \/ mRecvQueue[o] = <<>>
      <3>1. Go(t, <<>>)
        BY <2>1 DEF FlushLoop, Return
      <3> QED
        BY <3>1, NoFrames
    <2>2. CASE ~(cb[o].message = None \/ mRecvQueue[o] = <<>>)
      <3>1. Go(t, <<F("trigger", o, "message", Head(mRecvQueue[o])), Top(t)>>)
        BY <2>2 DEF FlushLoop
      <3> QED
        BY <1>3, <3>1, TwoFrames
    <2> QED
      BY <2>1, <2>2
  <1>5. SlotsTyped'
    <2>1. /\ mRecvQueue' = [q \in Channels |-> mRecvQueue'[q]]
          /\ \A q \in Channels : IsSeq(mRecvQueue'[q]) /\ Len(mRecvQueue'[q]) <= RecvQueueLimit
      <3>1. CASE mRecvQueue' = mRecvQueue
        BY <3>1 DEF Inv, SlotsTyped
      <3>2. CASE mRecvQueue[o] # <<>> /\ mRecvQueue' = [mRecvQueue EXCEPT ![o] = Tail(@)]
        <4>1. IsSeq(mRecvQueue[o]) /\ Len(mRecvQueue[o]) <= RecvQueueLimit
          BY <1>2 DEF Inv, SlotsTyped
        <4>2. IsSeq(Tail(mRecvQueue[o])) /\ Len(Tail(mRecvQueue[o])) = Len(mRecvQueue[o]) - 1
              /\ Len(mRecvQueue[o]) \in Nat
          BY <3>2, <4>1, TailIs
        <4>3. Len(Tail(mRecvQueue[o])) <= RecvQueueLimit
          BY <4>1, <4>2, CapiAssumption
        <4> QED
          BY <1>2, <3>2, <4>2, <4>3 DEF Inv, SlotsTyped
      <3> QED
        BY <3>1, <3>2 DEF FlushLoop
    <2>2. UNCHANGED <<cb, stored, pending>>
      BY DEF FlushLoop, slots
    <2> QED
      BY <2>1, <2>2 DEF Inv, SlotsTyped
  <1> QED
    BY <1>1, <1>4, <1>5, OnlyFrames DEF FlushLoop, slots

\* Discarding the messages of a channel preserves Inv.
LEMMA DiscardInv == ASSUME Inv, NEW t \in Threads, Discard(t) PROVE Inv'
  <1> DEFINE o == Top(t).o
  <1>1. /\ stack[t] # <<>> /\ ~Naming(Top(t)) /\ Top(t).op # "stop" /\ Top(t).op = "discard"
        /\ Go(t, <<>>)
    BY DEF Discard, At, Top, Naming, Return
  <1>2. o \in Channels /\ o \in Objects
    BY <1>1, TopIs DEF FrameOK, Channels
  <1>5. SlotsTyped'
    <2>1. /\ mRecvQueue' = [q \in Channels |-> mRecvQueue'[q]]
          /\ \A q \in Channels : IsSeq(mRecvQueue'[q]) /\ Len(mRecvQueue'[q]) <= RecvQueueLimit
      <3>0. mRecvQueue' = [mRecvQueue EXCEPT ![o] = IF @ = <<>> THEN @ ELSE Tail(@)]
        BY DEF Discard
      <3>1. CASE mRecvQueue[o] = <<>>
        BY <3>0, <3>1, <1>2 DEF Inv, SlotsTyped
      <3>2. CASE mRecvQueue[o] # <<>>
        <4>1. IsSeq(mRecvQueue[o]) /\ Len(mRecvQueue[o]) <= RecvQueueLimit
          BY <1>2 DEF Inv, SlotsTyped
        <4>2. IsSeq(Tail(mRecvQueue[o])) /\ Len(Tail(mRecvQueue[o])) = Len(mRecvQueue[o]) - 1
              /\ Len(mRecvQueue[o]) \in Nat
          BY <3>2, <4>1, TailIs
        <4>3. Len(Tail(mRecvQueue[o])) <= RecvQueueLimit
          BY <4>1, <4>2, CapiAssumption
        <4> QED
          BY <1>2, <3>0, <3>2, <4>2, <4>3 DEF Inv, SlotsTyped
      <3> QED
        BY <3>1, <3>2
    <2>2. UNCHANGED <<cb, stored, pending>>
      BY DEF Discard, slots
    <2> QED
      BY <2>1, <2>2 DEF Inv, SlotsTyped
  <1> QED
    BY <1>1, <1>5, NoFrames, OnlyFrames DEF Discard, slots

\* Looking at the receive queue preserves Inv.
LEMMA PeekInv == ASSUME Inv, NEW t \in Threads, Peek(t) PROVE Inv'
  <1> DEFINE o == Top(t).o
  <1>1. /\ stack[t] # <<>> /\ ~Naming(Top(t)) /\ Top(t).op # "stop" /\ Top(t).op = "peek"
    BY DEF Peek, At, Top, Naming
  <1>2. o \in Channels /\ o \in Objects
    BY <1>1, TopIs DEF FrameOK, Channels
  <1>4. PICK fs : IsSeq(fs) /\ (\A i \in 1..Len(fs) : Tame(fs[i])) /\ Go(t, fs)
    <2>1. \/ Go(t, <<>>)
          \/ Go(t, <<F("discard", o, None, [message |-> Head(mRecvQueue[o])])>>)
      BY DEF Peek, Return
    <2>2. \A x : Tame(F("discard", o, None, x))
      BY <1>2, SimpleTame
    <2>3. CASE Go(t, <<>>)
      BY <2>3, NoFrames
    <2>4. CASE Go(t, <<F("discard", o, None, [message |-> Head(mRecvQueue[o])])>>)
      BY <2>2, <2>4, OneFrame
    <2> QED
      BY <2>1, <2>3, <2>4
  <1>5. SlotsTyped'
    <2>1. /\ mRecvQueue' = [q \in Channels |-> mRecvQueue'[q]]
          /\ \A q \in Channels : IsSeq(mRecvQueue'[q]) /\ Len(mRecvQueue'[q]) <= RecvQueueLimit
      <3>1. CASE mRecvQueue' = mRecvQueue
        BY <3>1 DEF Inv, SlotsTyped
      <3>2. CASE mRecvQueue' = [mRecvQueue EXCEPT ![o][1] = "moved"]
        <4>1. IsSeq(mRecvQueue[o]) /\ Len(mRecvQueue[o]) <= RecvQueueLimit
          BY <1>2 DEF Inv, SlotsTyped
        <4>2. IsSeq([mRecvQueue[o] EXCEPT ![1] = "moved"])
              /\ Len([mRecvQueue[o] EXCEPT ![1] = "moved"]) = Len(mRecvQueue[o])
          BY <4>1, ExceptIs
        <4>3. mRecvQueue' = [mRecvQueue EXCEPT ![o] = [mRecvQueue[o] EXCEPT ![1] = "moved"]]
          BY <1>2, <3>2
        <4> QED
          BY <1>2, <4>1, <4>2, <4>3 DEF Inv, SlotsTyped
      <3> QED
        BY <3>1, <3>2 DEF Peek
    <2>2. UNCHANGED <<cb, stored, pending>>
      BY DEF Peek, slots
    <2> QED
      BY <2>1, <2>2 DEF Inv, SlotsTyped
  <1> QED
    BY <1>1, <1>4, <1>5, OnlyFrames DEF Peek, app, slots

\* The end of eraseAll() preserves Inv.
LEMMA ErasedAllInv == ASSUME Inv, NEW t \in Threads, ErasedAll(t) PROVE Inv'
  <1>1. /\ stack[t] # <<>> /\ ~Naming(Top(t)) /\ Top(t).op # "stop" /\ Go(t, <<>>)
    BY DEF ErasedAll, At, Top, Naming, Return
  <1>2. DataTyped'
    BY DEF ErasedAll, io, tables, handlers, app, chan, life, Inv, DataTyped
  <1>3. SlotsTyped'
    BY DEF ErasedAll, slots, chan, Inv, SlotsTyped
  <1>4. UNCHANGED <<tabled, alive, mIsClosed, deleted, net, pending, mIsOpen, cb>>
    BY DEF ErasedAll, io, tables, handlers, app, slots, chan, life, tabled
  <1> QED
    BY <1>1, <1>2, <1>3, <1>4, NoFrames, GoMoves, TameInv DEF Offered

\* Resetting callbacks preserves Inv: no callback becomes a library's own.
LEMMA ResetInv == ASSUME Inv, NEW t \in Threads, Reset(t) PROVE Inv'
  <1> DEFINE o == Top(t).o
             ev == Head(Top(t).rest)
  <1>1. /\ stack[t] # <<>> /\ ~Naming(Top(t)) /\ Top(t).op # "stop" /\ Top(t).op = "reset"
        /\ cb' = [cb EXCEPT ![o][ev] = None]
    BY DEF Reset, At, Top, Naming
  <1>2. o \in Objects
    BY <1>1, TopIs DEF FrameOK
  <1>3. Tame([Top(t) EXCEPT !.rest = Tail(@)])
    <2> DEFINE r == Tail(Top(t).rest)
    <2> HIDE DEF r
    <2>1. Tame([Top(t) EXCEPT !.rest = r])
      BY <1>1, TopIs DEF FrameOK, Tame, Late, Announcing, Naming
    <2> QED
      BY <2>1 DEF r
  <1>4. PICK fs : IsSeq(fs) /\ (\A i \in 1..Len(fs) : Tame(fs[i])) /\ Go(t, fs)
    <2>1. Go(t, <<>>) \/ Go(t, <<[Top(t) EXCEPT !.rest = Tail(@)]>>)
      BY DEF Reset
    <2>2. CASE Go(t, <<>>)
      BY <2>2, NoFrames
    <2>3. CASE Go(t, <<[Top(t) EXCEPT !.rest = Tail(@)]>>)
      BY <1>3, <2>3, OneFrame
    <2> QED
      BY <2>1, <2>2, <2>3
  <1>5. SlotsTyped' /\ \A q \in Objects : Offered(q)' => Offered(q)
    <2>1. cb' = [q \in Objects |-> [e \in ToSet(Slots(KindOf[q])) |->
                    IF q = o /\ e = ev THEN None ELSE cb[q][e]]]
      BY <1>1, <1>2 DEF Inv, SlotsTyped
    <2>2. UNCHANGED <<stored, mRecvQueue, pending>>
      BY DEF Reset
    <2>3. None # "lib"
      BY CapiAssumption
    <2>4. SlotsTyped'
      BY <2>1, <2>2, <2>3 DEF Inv, SlotsTyped
    <2>5. ASSUME NEW q \in Objects, Offered(q)' PROVE Offered(q)
      <3>1. "open" \in ToSet(Slots(KindOf[q]))
        BY <2>5, OpenSlots DEF Offered, Channels
      <3> QED
        BY <2>1, <2>3, <2>5, <3>1 DEF Offered
    <2> QED
      BY <2>4, <2>5
  <1>6. DataTyped' /\ UNCHANGED <<tabled, alive, mIsClosed, deleted, net, pending, mIsOpen>>
    BY DEF Reset, env, io, tables, handlers, app, chan, life, tabled, Inv, DataTyped
  <1> QED
    BY <1>1, <1>4, <1>5, <1>6, GoMoves, TameInv


\* The callbacks of each kind, and who owns what.
LEMMA SlotsAre ==
    ASSUME NEW o \in Objects
    PROVE  /\ KindOf[o] \in Kinds /\ Owner[o] \in Objects
           /\ KindOf[o] \in {"pc", "server"} => Owner[o] = o
           /\ KindOf[o] \in {"dc", "track"} => KindOf[Owner[o]] = "pc"
           /\ KindOf[o] = "ws" => Owner[o] = o \/ KindOf[Owner[o]] = "server"
           /\ KindOf[o] = "pc" => ToSet(Slots(KindOf[o])) = {"announce", "state", "gathering", "signaling"}
           /\ KindOf[o] = "server" => ToSet(Slots(KindOf[o])) = {"announce"}
           /\ o \in Channels <=> KindOf[o] \in {"dc", "track", "ws"}
           /\ o \in Channels => ToSet(Slots(KindOf[o])) = {"open", "closed", "available", "message"}
  <1>1. /\ KindOf[o] \in Kinds /\ Owner[o] \in Objects
        /\ KindOf[o] \in {"pc", "server"} => Owner[o] = o
        /\ KindOf[o] \in {"dc", "track"} => KindOf[Owner[o]] = "pc"
        /\ KindOf[o] = "ws" => Owner[o] = o \/ KindOf[Owner[o]] = "server"
    BY CapiAssumption
  <1>2. 1..4 = {1, 2, 3, 4} /\ 1..1 = {1}
    OBVIOUS
  <1>3. ASSUME NEW a, NEW b, NEW c, NEW d PROVE ToSet(<<a, b, c, d>>) = {a, b, c, d}
    <2> DEFINE s == <<a, b, c, d>>
    <2>1. DOMAIN s = 1..4 /\ s[1] = a /\ s[2] = b /\ s[3] = c /\ s[4] = d
      BY FourIs DEF IsSeq
    <2> HIDE DEF s
    <2>2. ToSet(s) = {a, b, c, d}
      BY <1>2, <2>1 DEF ToSet
    <2> QED
      BY <2>2 DEF s
  <1>4. ASSUME NEW a PROVE ToSet(<<a>>) = {a}
    <2> DEFINE s == <<a>>
    <2>1. DOMAIN s = 1..1 /\ s[1] = a
      BY OneIs DEF IsSeq
    <2> HIDE DEF s
    <2>2. ToSet(s) = {a}
      BY <1>2, <2>1 DEF ToSet
    <2> QED
      BY <2>2 DEF s
  <1>5. KindOf[o] = "pc" => ToSet(Slots(KindOf[o])) = {"announce", "state", "gathering", "signaling"}
    BY <1>3 DEF Slots
  <1>6. KindOf[o] = "server" => ToSet(Slots(KindOf[o])) = {"announce"}
    BY <1>4 DEF Slots
  <1>7. o \in Channels => ToSet(Slots(KindOf[o])) = {"open", "closed", "available", "message"}
    BY <1>3 DEF Slots, Channels
  <1> QED
    BY <1>1, <1>5, <1>6, <1>7 DEF Channels

\* Tame frames one after the other are tame frames.
LEMMA BothTame ==
    ASSUME NEW s, NEW r, IsSeq(s), IsSeq(r), \A i \in 1..Len(s) : Tame(s[i]), \A i \in 1..Len(r) : Tame(r[i])
    PROVE  IsSeq(s \o r) /\ \A i \in 1..Len(s \o r) : Tame((s \o r)[i])
  <1>1. /\ IsSeq(s \o r)
        /\ \A i \in 1..Len(s \o r) :
              \/ i \in 1..Len(s) /\ (s \o r)[i] = s[i]
              \/ i > Len(s) /\ i - Len(s) \in 1..Len(r) /\ (s \o r)[i] = r[i - Len(s)]
    BY ConcatIs
  <1> DEFINE q == s \o r
  <1> HIDE DEF q
  <1>2. \A i \in 1..Len(q) : Tame(q[i])
    <2> TAKE i \in 1..Len(q)
    <2>1. \/ i \in 1..Len(s) /\ q[i] = s[i]
          \/ i - Len(s) \in 1..Len(r) /\ q[i] = r[i - Len(s)]
      BY <1>1 DEF q
    <2> QED
      BY <2>1
  <1> QED
    BY <1>1, <1>2 DEF q

\* Enqueueing a task keeps the queue one of tasks.
LEMMA TaskAdded ==
    ASSUME NEW s, IsSeq(s), NEW e, TaskOK(e), \A i \in 1..Len(s) : TaskOK(s[i])
    PROVE  IsSeq(Append(s, e)) /\ \A i \in 1..Len(Append(s, e)) : TaskOK(Append(s, e)[i])
  <1> DEFINE q == Append(s, e)
  <1>2. /\ IsSeq(q) /\ Len(s) \in Nat /\ Len(q) = Len(s) + 1
        /\ \A i \in 1..Len(s) : q[i] = s[i]
        /\ q[Len(s) + 1] = e
    BY AppendIs
  <1> HIDE DEF q
  <1>3. \A i \in 1..Len(q) : i \in 1..Len(s) \/ i = Len(s) + 1
    BY <1>2
  <1>4. \A i \in 1..Len(q) : TaskOK(q[i])
    BY <1>2, <1>3
  <1> QED
    BY <1>2, <1>4 DEF q

\* The tasks that mProcessor is given.
LEMMA TaskIs ==
    ASSUME NEW k \in {"announce", "state", "closeChannels"}, NEW o \in Objects, KindOf[o] = "pc"
    PROVE  TaskOK(<<k, o>>)
  <1> DEFINE e == <<k, o>>
  <1>1. e[1] = k /\ e[2] = o
    BY TwoIs
  <1> HIDE DEF e
  <1>2. TaskOK(e)
    BY <1>1 DEF TaskOK
  <1> QED
    BY <1>2 DEF e

\* Setting a callback preserves Inv, and so does the flush it may begin.
LEMMA AssignInv == ASSUME Inv, NEW t \in Threads, Assign(t) PROVE Inv'
  <1> DEFINE o == Top(t).o
             x == Top(t).x
             ev == Assigned(Top(t).ev, x)
             missed == x # None /\ ev \in stored[o]
             replay == IF missed THEN <<F("closure", o, ev, None)>> ELSE <<>>
             look == IF ev = "message" THEN <<F("flush", o, None, None)>> ELSE <<>>
  <1>1. /\ stack[t] # <<>> /\ ~Naming(Top(t)) /\ Top(t).op # "stop" /\ Top(t).op = "assign"
        /\ cb' = [cb EXCEPT ![o][ev] = x]
        /\ stored' = IF missed THEN [stored EXCEPT ![o] = @ \ {ev}] ELSE stored
        /\ tasks' = IF ev = "announce" /\ KindOf[o] = "pc" THEN Append(tasks, <<"announce", o>>)
                                                          ELSE tasks
        /\ Go(t, replay \o look)
    BY DEF Assign, At, Top, Naming
  <1>2. o \in Objects /\ Top(t).ev \in ToSet(Slots(KindOf[o])) /\ x \in {None, "app"}
    BY <1>1, TopIs DEF FrameOK
  <1>3. ev \in ToSet(Slots(KindOf[o]))
    BY <1>2, SlotsAre DEF Assigned, Kinds, Channels
  <1> HIDE DEF ev
  <1>4. missed => ev # "announce"
    BY <1>2 DEF Inv, SlotsTyped
  <1>5. ev = "message" => o \in Channels
    BY <1>2, <1>3, SlotsAre DEF Kinds
  <1>6. IsSeq(replay) /\ \A i \in 1..Len(replay) : Tame(replay[i])
    <2>1. CASE missed
      <3>1. Tame(F("closure", o, ev, None))
        BY <1>2, <1>4, <2>1, SimpleTame
      <3> QED
        BY <2>1, <3>1, OneFrame
    <2>2. CASE ~missed
      BY <2>2, NoFrames
    <2> QED
      BY <2>1, <2>2
  <1>7. IsSeq(look) /\ \A i \in 1..Len(look) : Tame(look[i])
    <2>1. CASE ev = "message"
      <3>1. Tame(F("flush", o, None, None))
        BY <1>2, <1>5, <2>1, SimpleTame
      <3> QED
        BY <2>1, <3>1, OneFrame
    <2>2. CASE ev # "message"
      BY <2>2, NoFrames
    <2> QED
      BY <2>1, <2>2
  <1>8. PICK fs : IsSeq(fs) /\ (\A i \in 1..Len(fs) : Tame(fs[i])) /\ Go(t, fs)
    BY <1>1, <1>6, <1>7, BothTame
  <1>9. None # "lib" /\ None # "app"
    BY CapiAssumption
  <1>10. /\ cb' = [q \in Objects |-> [e \in ToSet(Slots(KindOf[q])) |->
                      IF q = o /\ e = ev THEN x ELSE cb[q][e]]]
         /\ UNCHANGED <<pending, mRecvQueue>>
    <2>1. cb' = [q \in Objects |-> [e \in ToSet(Slots(KindOf[q])) |->
                      IF q = o /\ e = ev THEN x ELSE cb[q][e]]]
      <3>1. cb' = [cb EXCEPT ![o][ev] = x]
        BY <1>1
      <3>2. cb = [q \in Objects |-> [e \in ToSet(Slots(KindOf[q])) |-> cb[q][e]]]
        BY DEF Inv, SlotsTyped
      <3> QED
        BY <1>2, <1>3, <3>1, <3>2
    <2>2. UNCHANGED <<pending, mRecvQueue>>
      BY DEF Assign, chan
    <2> QED
      BY <2>1, <2>2
  <1>11. SlotsTyped'
    <2>1. stored' = [q \in Objects |-> stored'[q]] /\ \A q \in Objects : "announce" \notin stored'[q]
      BY <1>1, <1>2 DEF Inv, SlotsTyped
    <2>2. /\ cb' = [q \in Objects |-> [e \in ToSet(Slots(KindOf[q])) |-> cb'[q][e]]]
          /\ \A q \in Objects : \A e \in ToSet(Slots(KindOf[q])) :
                cb'[q][e] \in {None, "app", "lib"}
                /\ (cb'[q][e] = "lib" => e = "open" /\ KindOf[q] = "dc")
      BY <1>2, <1>9, <1>10 DEF Inv, SlotsTyped
    <2> QED
      BY <1>10, <2>1, <2>2 DEF Inv, SlotsTyped
  <1>12. \A q \in Objects : Offered(q)' => Offered(q)
    <2> TAKE q \in Objects
    <2>1. KindOf[q] = "dc" => "open" \in ToSet(Slots(KindOf[q]))
      BY OpenSlots DEF Channels
    <2> QED
      BY <1>2, <1>9, <1>10, <2>1 DEF Offered
  <1>13. DataTyped'
    <2>1. /\ IsSeq(tasks')
          /\ \A i \in 1..Len(tasks') : TaskOK(tasks'[i])
      <3>1. CASE tasks' = tasks
        BY <3>1 DEF Inv, DataTyped
      <3>2. CASE KindOf[o] = "pc" /\ tasks' = Append(tasks, <<"announce", o>>)
        BY <1>2, <3>2, TaskIs, TaskAdded DEF Inv, DataTyped
      <3> QED
        BY <1>1, <3>1, <3>2
    <2> QED
      BY <2>1 DEF Assign, env, tables, handlers, app, chan, life, Inv, DataTyped
  <1>14. UNCHANGED <<tabled, alive, mIsClosed, deleted, net, pending, mIsOpen>>
    BY DEF Assign, env, tables, handlers, app, chan, life, tabled
  <1> QED
    BY <1>1, <1>8, <1>11, <1>12, <1>13, <1>14, GoMoves, TameInv

\* The return of a call preserves Inv.
LEMMA EndCallInv == ASSUME Inv, NEW t \in Threads, EndCall(t) PROVE Inv'
  <1> DEFINE o == Top(t).o
  <1>1. stack[t] # <<>> /\ ~Naming(Top(t)) /\ Top(t).op # "stop" /\ Top(t).op = "return" /\ ~At(t, "stop")
    BY DEF EndCall, At, Top, Naming
  <1>2. o \in Objects /\ Top(t) \in FramesIn(t)
    BY <1>1, TopIs DEF FrameOK
  <1>3. Top(t).ev = "deleted" => id[o] # 0 /\ ~Registered(o)
    BY <1>1, <1>2 DEF Inv, Erasing
  <1>4. Tame(Top(t))
    BY <1>1, <1>3, TopIs DEF Tame, Late, Announcing, Naming
  <1>5. PICK fs : IsSeq(fs) /\ (\A i \in 1..Len(fs) : Tame(fs[i])) /\ Go(t, fs)
    <2>1. CASE Unreferenced(t, o)
      <3>1. Go(t, <<F("destroy", o, None, None), Top(t)>>)
        BY <2>1 DEF EndCall
      <3>2. KindOf[o] \in {"pc", "server"} => id[o] # 0
        BY <1>2, <2>1 DEF Unreferenced, Inv, Handled
      <3>3. Tame(F("destroy", o, None, None))
        BY <1>2, <3>2, SimpleTame
      <3> QED
        BY <1>4, <3>1, <3>3, TwoFrames
    <2>2. CASE ~Unreferenced(t, o)
      <3>1. Go(t, <<>>)
        BY <2>2 DEF EndCall, Return
      <3> QED
        BY <3>1, NoFrames
    <2> QED
      BY <2>1, <2>2
  <1>6. deleted' \subseteq Objects /\ \A q \in deleted' : id[q] # 0 /\ ~Registered(q)
    <2>1. deleted \subseteq Objects /\ \A q \in deleted : id[q] # 0 /\ ~Registered(q)
      BY DEF Inv, Erasing
    <2>2. deleted' = deleted \/ (Top(t).ev = "deleted" /\ deleted' = deleted \cup {o})
      BY DEF EndCall
    <2> QED
      BY <1>2, <1>3, <2>1, <2>2
  <1>7. /\ UNCHANGED <<plan, lastId, id, table, userPointer, media, known, init>>
        /\ UNCHANGED <<alive, mIsOpen, mIsClosed, pending, net, cb>>
    BY DEF EndCall, env, io, tables, handlers, slots, chan, life
  <1>8. DataTyped'
    BY DEF EndCall, env, io, tables, handlers, chan, life, Inv, DataTyped
  <1>9. SlotsTyped'
    BY DEF EndCall, slots, chan, Inv, SlotsTyped
  <1>10. \A q \in Objects :
            KindOf[q] \in {"pc", "server"} /\ (alive'[q] # "new" \/ mIsOpen'[q]) => id[q] # 0
    BY <1>7 DEF Inv, Handled
  <1>11. \A i \in 1..Len(net') : Announces(net'[i]) => Announced
    BY <1>7 DEF Inv, Once
  <1>12. Moves(t, fs)
    BY <1>1, <1>5, GoMoves
  <1>13. \A q \in Objects : Offered(q)' => Offered(q)
    BY <1>7 DEF Offered
  <1> QED
    BY <1>1, <1>5, <1>6, <1>7, <1>8, <1>9, <1>10, <1>11, <1>12, <1>13, TameStep DEF Inv

\* The end of an object preserves Inv: it has a handle if it is a connection or server.
LEMMA DestroyInv == ASSUME Inv, NEW t \in Threads, Destroy(t) PROVE Inv'
  <1> DEFINE o == Top(t).o
  <1>1. /\ stack[t] # <<>> /\ ~Naming(Top(t)) /\ Top(t).op = "destroy" /\ ~At(t, "stop")
        /\ alive' = [alive EXCEPT ![o] = "gone"]
    BY DEF Destroy, At, Top, Naming
  <1>2. o \in Objects /\ Top(t) \in FramesIn(t)
    BY <1>1, TopIs DEF FrameOK
  <1>3. KindOf[o] \in {"pc", "server"} => id[o] # 0
    BY <1>1, <1>2 DEF Inv, Handled
  <1>4. KindOf[o] \in {"pc", "dc", "track", "ws", "server"}
    BY <1>2, SlotsAre DEF Kinds
  <1>5. /\ Tame(F("close", o, None, None)) /\ Tame(ResetFrame(o)) /\ Tame(F("remoteClose", o, None, None))
        /\ Tame(F("stop", o, None, None))
    BY <1>2, SimpleTame
  <1>6. PICK fs : IsSeq(fs) /\ (\A i \in 1..Len(fs) : Tame(fs[i])) /\ Go(t, fs)
    <2>0. Go(t, CASE KindOf[o] = "dc" -> <<F("close", o, None, None)>>
                  [] KindOf[o] = "track" -> <<ResetFrame(o)>>
                  [] KindOf[o] = "ws" -> <<F("remoteClose", o, None, None), ResetFrame(o)>>
                  [] KindOf[o] = "pc" -> <<F("remoteClose", o, None, None)>>
                  [] KindOf[o] = "server" -> <<F("stop", o, None, None)>>)
      BY DEF Destroy
    <2>1. CASE KindOf[o] = "dc"
      BY <1>5, <2>0, <2>1, OneFrame
    <2>2. CASE KindOf[o] = "track"
      BY <1>5, <2>0, <2>2, OneFrame
    <2>3. CASE KindOf[o] = "ws"
      BY <1>5, <2>0, <2>3, TwoFrames
    <2>4. CASE KindOf[o] = "pc"
      BY <1>5, <2>0, <2>4, OneFrame
    <2>5. CASE KindOf[o] = "server"
      BY <1>5, <2>0, <2>5, OneFrame
    <2> QED
      BY <1>4, <2>1, <2>2, <2>3, <2>4, <2>5
  <1>7. /\ UNCHANGED <<plan, lastId, id, table, userPointer, media, known, init>>
        /\ UNCHANGED <<deleted, mIsOpen, mIsClosed, pending, net, cb>>
    BY DEF Destroy, env, io, tables, handlers, app, slots, chan
  <1>8. DataTyped' /\ \A q \in Objects : alive[q] # "new" => alive'[q] # "new"
    BY <1>1, <1>2 DEF Destroy, env, io, tables, handlers, app, chan, Inv, DataTyped
  <1>9. SlotsTyped'
    BY DEF Destroy, slots, chan, Inv, SlotsTyped
  <1>10. \A q \in Objects :
            KindOf[q] \in {"pc", "server"} /\ (alive'[q] # "new" \/ mIsOpen'[q]) => id[q] # 0
    BY <1>1, <1>2, <1>3, <1>7 DEF Inv, Handled, DataTyped
  <1>11. \A i \in 1..Len(net') : Announces(net'[i]) => Announced
    BY <1>7 DEF Inv, Once
  <1>12. Moves(t, fs)
    BY <1>1, <1>6, GoMoves
  <1>13. \A q \in Objects : Offered(q)' => Offered(q)
    BY <1>7 DEF Offered
  <1>14. deleted' \subseteq Objects /\ \A q \in deleted' : id[q] # 0 /\ ~Registered(q)
    BY <1>7 DEF Inv, Erasing
  <1> QED
    BY <1>1, <1>6, <1>7, <1>8, <1>9, <1>10, <1>11, <1>12, <1>13, <1>14, TameStep DEF Inv

\* Closing an object preserves Inv.
LEMMA CloseInv == ASSUME Inv, NEW t \in Threads, Close(t) PROVE Inv'
  <1> DEFINE o == Top(t).o
  <1>1. /\ stack[t] # <<>> /\ ~Naming(Top(t)) /\ Top(t).op = "close" /\ ~At(t, "stop")
        /\ mIsOpen' = [mIsOpen EXCEPT ![o] = FALSE]
    BY DEF Close, At, Top, Naming
  <1>2. o \in Objects
    BY <1>1, TopIs DEF FrameOK
  <1>3. mIsClosed' = mIsClosed \/ mIsClosed' = [mIsClosed EXCEPT ![o] = TRUE]
    BY DEF Close
  <1>4. net' = net \/ net' = Append(net, <<"reset", o, None>>)
    BY DEF Close
  <1>5. PICK fs : IsSeq(fs) /\ (\A i \in 1..Len(fs) : Tame(fs[i])) /\ Go(t, fs)
    <2>1. CASE KindOf[o] \in {"dc", "track"}
      <3>1. Tame(ResetFrame(o)) /\ Tame(F("trigger", o, "closed", None))
        BY <1>2, <2>1, SimpleTame, OpenSlots DEF Channels
      <3>2. Go(t, (IF mIsClosed[o] THEN <<>> ELSE <<F("trigger", o, "closed", None)>>) \o <<ResetFrame(o)>>)
        BY <2>1 DEF Close
      <3>3. CASE mIsClosed[o]
        <4>1. Go(t, <<>> \o <<ResetFrame(o)>>)
          BY <3>2, <3>3
        <4> QED
          BY <3>1, <4>1, NoFrames, OneFrame, BothTame
      <3>4. CASE ~mIsClosed[o]
        <4>1. Go(t, <<F("trigger", o, "closed", None)>> \o <<ResetFrame(o)>>)
          BY <3>2, <3>4
        <4> QED
          BY <3>1, <4>1, OneFrame, BothTame
      <3> QED
        BY <3>3, <3>4
    <2>2. CASE KindOf[o] \notin {"dc", "track"}
      <3>1. Go(t, <<>>) \/ Go(t, <<[Top(t) EXCEPT !.op = "remoteClose"]>>)
        BY <2>2 DEF Close, Return
      <3>2. Tame([Top(t) EXCEPT !.op = "remoteClose"])
        BY <1>1, TopIs DEF FrameOK, Tame, Late, Announcing, Naming
      <3> QED
        BY <3>1, <3>2, NoFrames, OneFrame
    <2> QED
      BY <2>1, <2>2
  <1>6. UNCHANGED <<plan, lastId, id, table, userPointer, media, known, init, deleted, pending, alive, cb>>
    BY DEF Close, env, tables, app, slots, life
  <1>7. /\ IsSeq(net') /\ \A i \in 1..Len(net') : EventOK(net'[i]) /\ (Announces(net'[i]) => Announced)
    <2>1. IsSeq(net) /\ \A i \in 1..Len(net) : EventOK(net[i]) /\ (Announces(net[i]) => Announced)
      BY DEF Inv, DataTyped, Once
    <2>2. CASE net' = Append(net, <<"reset", o, None>>)
      <3> DEFINE e == <<"reset", o, None>>
      <3>1. EventOK(e) /\ ~Announces(e)
        <4>1. e[1] = "reset" /\ e[2] = o
          BY ThreeIs
        <4> HIDE DEF e
        <4> QED
          BY <1>2, <4>1 DEF EventOK, Announces
      <3>2. net' = Append(net, e)
        BY <2>2
      <3> HIDE DEF e
      <3>3. /\ IsSeq(net') /\ Len(net) \in Nat /\ Len(net') = Len(net) + 1
            /\ \A i \in 1..Len(net) : net'[i] = net[i]
            /\ net'[Len(net) + 1] = e
        BY <2>1, <3>2, AppendIs
      <3>4. \A i \in 1..Len(net') : i \in 1..Len(net) \/ i = Len(net) + 1
        BY <3>3
      <3> QED
        BY <2>1, <3>1, <3>3, <3>4
    <2> QED
      BY <1>4, <2>1, <2>2
  <1>8. DataTyped'
    BY <1>1, <1>2, <1>3, <1>6, <1>7 DEF Close, env, Inv, DataTyped
  <1>9. SlotsTyped'
    BY DEF Close, slots, Inv, SlotsTyped
  <1>10. /\ \A q \in Objects :
               KindOf[q] \in {"pc", "server"} /\ (alive'[q] # "new" \/ mIsOpen'[q]) => id[q] # 0
         /\ \A q \in Objects : mIsClosed[q] => mIsClosed'[q]
    BY <1>1, <1>2, <1>3, <1>6 DEF Inv, Handled, DataTyped
  <1>12. Moves(t, fs)
    BY <1>1, <1>5, GoMoves
  <1>13. \A q \in Objects : Offered(q)' => Offered(q)
    BY <1>6 DEF Offered
  <1>14. deleted' \subseteq Objects /\ \A q \in deleted' : id[q] # 0 /\ ~Registered(q)
    BY <1>6 DEF Inv, Erasing
  <1> QED
    BY <1>1, <1>5, <1>6, <1>7, <1>8, <1>9, <1>10, <1>12, <1>13, <1>14, TameStep DEF Inv

\* An object closed by its peer preserves Inv.
LEMMA RemoteCloseInv == ASSUME Inv, NEW t \in Threads, RemoteClose(t) PROVE Inv'
  <1> DEFINE o == Top(t).o
  <1>1. /\ stack[t] # <<>> /\ ~Naming(Top(t)) /\ Top(t).op = "remoteClose" /\ ~At(t, "stop")
        /\ mIsOpen' = [mIsOpen EXCEPT ![o] = FALSE]
        /\ mIsClosed' = [mIsClosed EXCEPT ![o] = TRUE]
    BY DEF RemoteClose, At, Top, Naming
  <1>2. o \in Objects
    BY <1>1, TopIs DEF FrameOK
  <1>3. tasks' = tasks \/ (KindOf[o] = "pc" /\ tasks' = Append(tasks, <<"closeChannels", o>>))
    BY DEF RemoteClose
  <1>4. cb' = cb \/ (KindOf[o] = "pc" /\ cb' = [cb EXCEPT ![o].state = None])
    BY DEF RemoteClose
  <1>5. PICK fs : IsSeq(fs) /\ (\A i \in 1..Len(fs) : Tame(fs[i])) /\ Go(t, fs)
    <2>1. CASE Go(t, <<>>)
      BY <2>1, NoFrames
    <2>2. CASE o \in Channels /\ Go(t, <<F("trigger", o, "closed", None)>>)
      <3>1. Tame(F("trigger", o, "closed", None))
        BY <1>2, <2>2, SimpleTame, OpenSlots
      <3> QED
        BY <2>2, <3>1, OneFrame
    <2>3. CASE Go(t, (IF cb[o].state = None THEN <<>> ELSE <<F("closure", o, "stolen", None)>>)
                      \o <<ResetFrame(o)>>)
      <3>1. Tame(ResetFrame(o)) /\ Tame(F("closure", o, "stolen", None))
        BY <1>2, SimpleTame
      <3>3. CASE cb[o].state = None
        <4>1. Go(t, <<>> \o <<ResetFrame(o)>>)
          BY <2>3, <3>3
        <4> QED
          BY <3>1, <4>1, NoFrames, OneFrame, BothTame
      <3>4. CASE cb[o].state # None
        <4>1. Go(t, <<F("closure", o, "stolen", None)>> \o <<ResetFrame(o)>>)
          BY <2>3, <3>4
        <4> QED
          BY <3>1, <4>1, OneFrame, BothTame
      <3> QED
        BY <3>3, <3>4
    <2> QED
      BY <2>1, <2>2, <2>3 DEF RemoteClose, Return
  <1>6. UNCHANGED <<plan, lastId, id, table, userPointer, media, known, init, deleted, pending, alive, net,
                    stored, mRecvQueue>>
    BY DEF RemoteClose, env, tables, handlers, app, life
  <1>7. /\ IsSeq(tasks')
        /\ \A i \in 1..Len(tasks') : TaskOK(tasks'[i])
    <2>1. CASE tasks' = tasks
      BY <2>1 DEF Inv, DataTyped
    <2>2. CASE KindOf[o] = "pc" /\ tasks' = Append(tasks, <<"closeChannels", o>>)
      BY <1>2, <2>2, TaskIs, TaskAdded DEF Inv, DataTyped
    <2> QED
      BY <1>3, <2>1, <2>2
  <1>8. DataTyped'
    BY <1>1, <1>2, <1>6, <1>7 DEF RemoteClose, env, Inv, DataTyped
  <1>9. /\ cb' = [q \in Objects |-> [e \in ToSet(Slots(KindOf[q])) |-> cb'[q][e]]]
        /\ \A q \in Objects : \A e \in ToSet(Slots(KindOf[q])) :
              cb'[q][e] \in {None, "app", "lib"} /\ (cb'[q][e] = "lib" => e = "open" /\ KindOf[q] = "dc")
        /\ \A q \in Objects : Offered(q)' => Offered(q)
    <2>1. /\ cb = [q \in Objects |-> [e \in ToSet(Slots(KindOf[q])) |-> cb[q][e]]]
          /\ \A q \in Objects : \A e \in ToSet(Slots(KindOf[q])) :
                cb[q][e] \in {None, "app", "lib"} /\ (cb[q][e] = "lib" => e = "open" /\ KindOf[q] = "dc")
      BY DEF Inv, SlotsTyped
    <2>2. CASE cb' = cb
      BY <2>1, <2>2 DEF Offered
    <2>3. CASE KindOf[o] = "pc" /\ cb' = [cb EXCEPT ![o].state = None]
      <3>1. None # "lib"
        BY CapiAssumption
      <3>2. cb' = [q \in Objects |-> [e \in ToSet(Slots(KindOf[q])) |->
                      IF q = o /\ e = "state" THEN None ELSE cb[q][e]]]
        BY <1>2, <2>1, <2>3
      <3>3. \A q \in Objects : KindOf[q] = "dc" => "open" \in ToSet(Slots(KindOf[q]))
        BY OpenSlots DEF Channels
      <3>4. \A q \in Objects : Offered(q)' => Offered(q)
        BY <3>1, <3>2, <3>3 DEF Offered
      <3>5. \A q \in Objects : \A e \in ToSet(Slots(KindOf[q])) :
                cb'[q][e] \in {None, "app", "lib"} /\ (cb'[q][e] = "lib" => e = "open" /\ KindOf[q] = "dc")
        BY <2>1, <3>1, <3>2
      <3>6. cb' = [q \in Objects |-> [e \in ToSet(Slots(KindOf[q])) |-> cb'[q][e]]]
        BY <3>2
      <3> QED
        BY <3>4, <3>5, <3>6
    <2> QED
      BY <1>4, <2>2, <2>3
  <1>10. SlotsTyped'
    BY <1>6, <1>9 DEF Inv, SlotsTyped
  <1>11. /\ \A q \in Objects :
               KindOf[q] \in {"pc", "server"} /\ (alive'[q] # "new" \/ mIsOpen'[q]) => id[q] # 0
         /\ \A q \in Objects : mIsClosed[q] => mIsClosed'[q]
    BY <1>1, <1>2, <1>6 DEF Inv, Handled, DataTyped
  <1>12. Moves(t, fs)
    BY <1>1, <1>5, GoMoves
  <1>13. \A i \in 1..Len(net') : Announces(net'[i]) => Announced
    BY <1>6 DEF Inv, Once
  <1>14. deleted' \subseteq Objects /\ \A q \in deleted' : id[q] # 0 /\ ~Registered(q)
    BY <1>6 DEF Inv, Erasing
  <1> QED
    BY <1>1, <1>5, <1>6, <1>8, <1>9, <1>10, <1>11, <1>12, <1>13, <1>14, TameStep DEF Inv

\* Stopping a server preserves Inv: it announces nothing any more.
LEMMA StopInv == ASSUME Inv, NEW t \in Threads, Stop(t) PROVE Inv'
  <1> DEFINE o == Top(t).o
  <1>1. stack[t] # <<>> /\ ~Naming(Top(t)) /\ Top(t).op = "stop"
    BY DEF Stop, At, Top, Naming
  <1>2. o \in Objects
    BY <1>1, TopIs DEF FrameOK
  <1>3. /\ UNCHANGED <<plan, lastId, id, table, userPointer, media, known, init>>
        /\ UNCHANGED <<deleted, mIsOpen, pending, net, tasks, mutex, alive, cb, stored, mRecvQueue>>
    BY DEF Stop, env, io, tables, handlers, app, slots, life
  <1>4. mIsClosed' = mIsClosed \/ mIsClosed' = [mIsClosed EXCEPT ![o] = TRUE]
    BY DEF Stop
  <1>5. DataTyped'
    BY <1>3, <1>4 DEF Inv, DataTyped
  <1>6. SlotsTyped'
    BY <1>3 DEF Inv, SlotsTyped
  <1>7. \A q \in Objects : mIsClosed[q] => mIsClosed'[q]
    BY <1>4 DEF Inv, DataTyped
  <1>8. CASE mIsClosed[o]
    <2> DEFINE fs == <<>>
    <2>1. stack[Server] = <<>> /\ Go(t, fs) /\ mIsClosed' = mIsClosed
      BY <1>8 DEF Stop, Return
    <2>2. IsSeq(fs) /\ \A i \in 1..Len(fs) : Tame(fs[i])
      BY NoFrames
    <2>3. Moves(t, fs)
      BY <1>1, <2>1, GoMoves
    <2>4. t # Server
      BY <1>1, <2>1
    <2>5. FramesIn(Server)' = {}
      <3>0. Server \in Threads
        BY DEF Threads
      <3>1. stack'[Server] = stack[Server]
        BY <2>2, <2>3, <2>4, <3>0, MovesIs DEF Inv
      <3>2. 1..Len(stack'[Server]) = {}
        BY <2>1, <3>1, EmptyIs
      <3> QED
        BY <3>2 DEF FramesIn
    <2>6. \A s \in Objects : At(t, "stop") /\ Top(t).o = s => Quiet(s)'
      BY <1>8, <2>1, <2>5 DEF Quiet
    <2>7. /\ deleted' \subseteq Objects /\ \A q \in deleted' : id[q] # 0 /\ ~Registered(q)
          /\ \A i \in 1..Len(net') : Announces(net'[i]) => Announced
          /\ \A q \in Objects :
               KindOf[q] \in {"pc", "server"} /\ (alive'[q] # "new" \/ mIsOpen'[q]) => id[q] # 0
          /\ \A q \in Objects : Offered(q)' => Offered(q)
          /\ \A q \in Objects : alive[q] # "new" => alive'[q] # "new"
      BY <1>3 DEF Inv, Erasing, Once, Handled, Offered
    <2>8. At(t, "stop") => fs = <<>>
      OBVIOUS
    <2> HIDE DEF fs
    <2> QED
      BY <1>1, <1>3, <1>5, <1>6, <1>7, <2>2, <2>3, <2>6, <2>7, <2>8, TameStep DEF Inv
  <1>9. CASE ~mIsClosed[o]
    <2>1. stack' = stack
      BY <1>9 DEF Stop
    <2>2. \A q : Registered(q)' = Registered(q)
      BY <1>3 DEF Registered
    <2>3. \A u : FramesIn(u)' = FramesIn(u) /\ Lower(u)' = Lower(u)
      BY <2>1 DEF FramesIn, Lower
    <2>4. Stacks'
      <3>1. \A u, i : BodyFrom(u, i)' <=> BodyFrom(u, i)
        BY <1>3, <2>1 DEF BodyFrom
      <3>2. \A u, f : FrameFrom(u, f)' <=> FrameFrom(u, f)
        BY <1>3 DEF FrameFrom, Mine, Some, In, Announced
      <3> QED
        BY <2>1, <2>3, <3>1, <3>2 DEF Inv, Stacks
    <2>5. Numbered'
      BY <1>3, <2>2 DEF Inv, Numbered
    <2>6. Handled'
      BY <1>3, <2>3 DEF Inv, Handled
    <2>7. Once'
      <3>1. \A u, q : AnnouncedBy(u, q)' = AnnouncedBy(u, q) /\ NamedBy(u, q)' = NamedBy(u, q)
        BY <2>3 DEF AnnouncedBy, NamedBy
      <3>2. \A q : Offered(q)' = Offered(q) /\ Waiting(q)' = Waiting(q)
        BY <1>3 DEF Offered, Waiting
      <3>3. Announced' = Announced /\ \A q : Coming(q)' = Coming(q)
        BY <1>3, <3>1, <3>2 DEF Announced, Coming
      <3> QED
        BY <1>3, <2>2, <3>1, <3>2, <3>3 DEF Inv, Once
    <2>8. Disciplined'
      <3>1. \A q : Safe(q)' = Safe(q)
        BY <1>3, <2>3 DEF Safe, Ahead, Some, In
      <3> QED
        BY <1>3, <2>2, <2>3, <3>1 DEF Inv, Disciplined, Ending
    <2>9. \A s \in Objects : Quiet(s) => Quiet(s)'
      BY <1>7, <2>3 DEF Quiet
    <2>10. Erasing'
      <3>1. ASSUME NEW u \in Threads, At(u, "erase")', KindOf[Top(u).o]' = "server"
            PROVE  Quiet(Top(u).o)'
        <4>1. At(u, "erase") /\ KindOf[Top(u).o] = "server" /\ Top(u)' = Top(u)
          BY <2>1, <3>1 DEF At, Top
        <4>2. PICK s \in Objects : s = Top(u).o
          <5>1. stack[u] # <<>> /\ Top(u).op = "erase"
            BY <4>1 DEF At, Top
          <5> QED
            BY <5>1, TopIs DEF FrameOK
        <4>3. Quiet(s)
          BY <4>1, <4>2 DEF Inv, Erasing
        <4>4. Quiet(s)'
          BY <4>3, <2>9
        <4> QED
          BY <4>1, <4>2, <4>4 DEF Quiet
      <3>2. /\ \A u \in Threads : \A f \in FramesIn(u)' :
                  /\ f.op = "erase" => id[f.o] \in known
                  /\ f.op = "return" /\ f.ev = "deleted" => id[f.o] # 0 /\ ~Registered(f.o)
                  /\ f.op = "inherit" /\ KindOf[Owner[f.o]] = "server" => Registered(Owner[f.o])
            /\ deleted \subseteq Objects /\ \A q \in deleted : id[q] # 0 /\ ~Registered(q)
        BY <2>3 DEF Inv, Erasing
      <3> QED
        BY <1>3, <2>2, <3>1, <3>2 DEF Erasing
    <2>11. ToldOf'
      BY <1>3, <2>2, <2>3 DEF Inv, ToldOf, NamedBy
    <2> QED
      BY <1>5, <1>6, <2>4, <2>5, <2>6, <2>7, <2>8, <2>10, <2>11 DEF Inv
  <1> QED
    BY <1>8, <1>9

\* What a callback of the application does is tame.
LEMMA BodyTame ==
    ASSUME DataTyped, NEW o \in Objects, NEW ev
    PROVE  IsSeq(Body(BodyOf(o, ev))) /\ \A i \in 1..Len(Body(BodyOf(o, ev))) : Tame(Body(BodyOf(o, ev))[i])
  <1> DEFINE b == BodyOf(o, ev)
  <1>1. CASE b = <<>>
    <2>1. Body(b) = <<>>
      BY <1>1 DEF Body
    <2> QED
      BY <2>1, NoFrames
  <1>2. CASE b # <<>>
    <2>1. <<o, ev>> \in DOMAIN plan.body /\ b = plan.body[<<o, ev>>]
      BY <1>2 DEF BodyOf
    <2>2. IsSeq(b)
      BY <2>1, PlansAssumption DEF DataTyped
    <2>3. RestOf(b, plan.body[<<o, ev>>])
      <3>1. Len(b) \in Nat
        BY <2>2 DEF IsSeq
      <3> QED
        BY <2>1, <3>1 DEF RestOf
    <2> DEFINE f == [F("body", None, None, None) EXCEPT !.rest = b]
    <2> HIDE DEF b
    <2>4. f.op = "body" /\ f.rest = b /\ f = [op |-> f.op, o |-> f.o, ev |-> f.ev, x |-> f.x, rest |-> f.rest]
      BY DEF F
    <2>5. Body(b) = <<f>>
      BY <1>2 DEF Body
    <2>6. Tame(f)
      <3> HIDE DEF f
      <3>1. FrameOK(f)
        BY <1>2, <2>2, <2>4 DEF FrameOK, Announcing, Naming
      <3>2. \E k \in DOMAIN plan.body : RestOf(f.rest, plan.body[k])
        BY <2>1, <2>3, <2>4
      <3> QED
        BY <2>4, <3>1, <3>2 DEF Tame, Late, Announcing, Naming
    <2>7. IsSeq(<<f>>) /\ \A i \in 1..Len(<<f>>) : Tame(<<f>>[i])
      <3> HIDE DEF f
      <3> QED
        BY <2>6, OneFrame
    <2> QED
      BY <2>5, <2>7 DEF b
  <1> QED
    BY <1>1, <1>2

\* A closure that was given a user pointer calls the application, and preserves Inv.
LEMMA ClosureInv ==
    ASSUME Inv, NEW t \in Threads, Closure(t), Top(t).ev # "announce"
    PROVE  Inv'
  <1> DEFINE o == Top(t).o
             ev == Top(t).ev
             e == IF ev = "stolen" THEN "state" ELSE ev
             inside == [Top(t) EXCEPT !.op = IF ev = "stolen" THEN "called" ELSE "in"]
  <1>1. /\ stack[t] # <<>> /\ ~Naming(Top(t)) /\ Top(t).op # "stop" /\ Top(t).op = "closure"
        /\ IF id[o] \in DOMAIN userPointer THEN Go(t, Append(Body(BodyOf(o, e)), inside)) ELSE Go(t, <<>>)
        /\ UNCHANGED <<tables, alive>>
    BY DEF Closure, At, Top, Naming, Return
  <1>2. o \in Objects
    BY <1>1, TopIs DEF FrameOK
  <1>3. Tame(inside)
    <2>1. FrameOK(Top(t))
      BY <1>1, TopIs
    <2>2. ASSUME NEW p \in {"called", "in"} PROVE Tame([Top(t) EXCEPT !.op = p])
      BY <1>1, <2>1 DEF FrameOK, Tame, Late, Announcing, Naming
    <2> QED
      BY <2>2
  <1>4. PICK fs : IsSeq(fs) /\ (\A i \in 1..Len(fs) : Tame(fs[i])) /\ Go(t, fs)
    <2>1. CASE id[o] \in DOMAIN userPointer
      <3> DEFINE b == Body(BodyOf(o, e))
                 fs == Append(b, inside)
      <3>1. IsSeq(b) /\ \A i \in 1..Len(b) : Tame(b[i])
        BY <1>2, BodyTame DEF Inv
      <3>2. Go(t, fs)
        BY <1>1, <2>1
      <3>3. IsSeq(fs) /\ \A i \in 1..Len(fs) : Tame(fs[i])
        <4> HIDE DEF b, inside
        <4>1. /\ IsSeq(fs) /\ Len(b) \in Nat /\ Len(fs) = Len(b) + 1
              /\ \A i \in 1..Len(b) : fs[i] = b[i]
              /\ fs[Len(b) + 1] = inside
          BY <3>1, AppendIs
        <4> HIDE DEF fs
        <4>2. \A i \in 1..Len(fs) : i \in 1..Len(b) \/ i = Len(b) + 1
          BY <4>1
        <4> QED
          BY <1>3, <3>1, <4>1, <4>2
      <3> HIDE DEF fs
      <3> QED
        BY <3>2, <3>3
    <2>2. CASE id[o] \notin DOMAIN userPointer
      <3>1. Go(t, <<>>)
        BY <1>1, <2>2
      <3> QED
        BY <3>1, NoFrames
    <2> QED
      BY <2>1, <2>2
  <1>5. SlotsTyped'
    BY DEF Inv, SlotsTyped, Closure, slots, chan
  <1>6. UNCHANGED <<env, io, tables, handlers, deleted, known, cb, stored, mIsOpen, mIsClosed, pending, life>>
    BY <1>1 DEF Closure, slots, chan, life
  <1> QED
    BY <1>1, <1>4, <1>5, <1>6, OnlyFrames

\* A callback that does not announce anything, or that nobody listens to.
LEMMA TriggerInv ==
    ASSUME Inv, NEW t \in Threads, Trigger(t), cb[Top(t).o][Top(t).ev] # "lib",
           Top(t).ev # "announce" \/ cb[Top(t).o][Top(t).ev] = None
    PROVE  Inv'
  <1> DEFINE o == Top(t).o
             ev == Top(t).ev
             x == Top(t).x
  <1>1. stack[t] # <<>> /\ ~Naming(Top(t)) /\ Top(t).op # "stop" /\ Top(t).op = "trigger"
    BY DEF Trigger, At, Top, Naming
  <1>2. o \in Objects /\ ev \in ToSet(Slots(KindOf[o])) /\ FrameOK(Top(t))
    BY <1>1, TopIs DEF FrameOK
  <1>3. UNCHANGED <<cb, mOpenTriggered, pending, mIsOpen, mIsClosed, mRecvQueue>>
    BY DEF Trigger, slots
  <1>4. PICK fs : IsSeq(fs) /\ (\A i \in 1..Len(fs) : Tame(fs[i])) /\ Go(t, fs)
    <2>1. CASE cb[o][ev] = None /\ Go(t, IF ev = "announce" THEN <<F("destroy", x, None, None)>> ELSE <<>>)
      <3>1. CASE ev = "announce"
        <4>1. x \in Objects /\ Owner[x] # x
          BY <1>1, <1>2, <3>1 DEF FrameOK, Announcing
        <4>2. KindOf[x] \notin {"pc", "server"}
          BY <4>1, SlotsAre
        <4>3. Tame(F("destroy", x, None, None))
          BY <4>1, <4>2, SimpleTame
        <4>4. Go(t, <<F("destroy", x, None, None)>>)
          BY <2>1, <3>1
        <4> QED
          BY <4>3, <4>4, OneFrame
      <3>2. CASE ev # "announce"
        <4>1. Go(t, <<>>)
          BY <2>1, <3>2
        <4> QED
          BY <4>1, NoFrames
      <3> QED
        BY <3>1, <3>2
    <2>2. CASE ev # "announce" /\ Go(t, <<F("closure", o, ev, x)>>)
      <3>1. Tame(F("closure", o, ev, x))
        BY <1>2, <2>2, SimpleTame
      <3> QED
        BY <2>2, <3>1, OneFrame
    <2>3. None # "app"
      BY CapiAssumption
    <2> QED
      BY <2>1, <2>2, <2>3 DEF Trigger
  <1>5. SlotsTyped'
    <2>1. \/ stored' = stored
          \/ o \in Channels /\ stored' = [stored EXCEPT ![o] = @ \cup {ev}]
      BY DEF Trigger, slots
    <2>2. o \in Channels => ev # "announce"
      BY <1>2, SlotsAre
    <2>3. stored' = [q \in Objects |-> stored'[q]] /\ \A q \in Objects : "announce" \notin stored'[q]
      <3>1. stored = [q \in Objects |-> stored[q]] /\ \A q \in Objects : "announce" \notin stored[q]
        BY DEF Inv, SlotsTyped
      <3>2. CASE o \in Channels /\ stored' = [stored EXCEPT ![o] = @ \cup {ev}]
        <4>1. "announce" \notin stored[o] \cup {ev}
          BY <1>2, <2>2, <3>1, <3>2
        <4>2. stored' = [q \in Objects |-> IF q = o THEN stored[o] \cup {ev} ELSE stored[q]]
          BY <1>2, <3>1, <3>2
        <4> QED
          BY <3>1, <4>1, <4>2
      <3> QED
        BY <2>1, <3>1, <3>2
    <2> QED
      BY <1>3, <2>3 DEF Inv, SlotsTyped
  <1>6. /\ UNCHANGED <<tabled, alive, mIsClosed, deleted, net, pending, mIsOpen, cb>>
        /\ DataTyped'
    BY <1>3 DEF Trigger, env, io, tables, handlers, app, life, tabled, Inv, DataTyped
  <1>7. Moves(t, fs)
    BY <1>1, <1>4, GoMoves
  <1>8. \A q \in Objects : Offered(q)' => Offered(q)
    BY <1>6 DEF Offered
  <1> QED
    BY <1>1, <1>4, <1>5, <1>6, <1>7, <1>8, TameInv

-----------------------------------------------------------------------------
\* Steps of a thread that has nothing to do.
LEMMA EmptyMoves ==
    ASSUME Inv, NEW t \in Threads, stack[t] = <<>>, NEW fs, IsSeq(fs), stack' = [stack EXCEPT ![t] = fs]
    PROVE  Moves(t, fs)
  <1>1. fs \o <<>> = fs
    BY IsSeqOf, ConcatEmptySeq
  <1> QED
    BY <1>1 DEF Moves, Below

\* A step of an idle thread that pushes tame frames preserves Inv.
LEMMA EmptyInv ==
    ASSUME Inv, NEW t \in Threads, stack[t] = <<>>, NEW fs, IsSeq(fs), \A i \in 1..Len(fs) : Tame(fs[i]),
           stack' = [stack EXCEPT ![t] = fs],
           UNCHANGED <<tabled, alive, mIsClosed, deleted, pending, cb>>,
           \A o \in Objects : KindOf[o] \in {"pc", "server"} /\ mIsOpen'[o] => id[o] # 0,
           \A i \in 1..Len(net') : Announces(net'[i]) => Announced,
           DataTyped', SlotsTyped'
    PROVE  Inv'
  <1>1. Moves(t, fs) /\ ~At(t, "stop")
    BY EmptyMoves DEF At
  <1>2. \A q \in Objects : KindOf[q] \in {"pc", "server"} /\ (alive'[q] # "new" \/ mIsOpen'[q]) => id[q] # 0
    BY DEF Inv, Handled
  <1>3. deleted' \subseteq Objects /\ \A q \in deleted' : id[q] # 0 /\ ~Registered(q)
    BY DEF Inv, Erasing
  <1>4. /\ \A q \in Objects : Offered(q)' => Offered(q)
        /\ UNCHANGED <<plan, lastId, id, table, userPointer, media, known, init>>
    BY DEF Offered, tabled
  <1> QED
    BY <1>1, <1>2, <1>3, <1>4, TameStep DEF Inv

\* What is left of the events after the first of them.
LEMMA NetTail ==
    ASSUME Inv, net # <<>>
    PROVE  /\ EventOK(Head(net)) /\ (Announces(Head(net)) => Announced)
           /\ IsSeq(Tail(net))
           /\ \A i \in 1..Len(Tail(net)) : EventOK(Tail(net)[i]) /\ (Announces(Tail(net)[i]) => Announced)
  <1>1. IsSeq(net) /\ \A i \in 1..Len(net) : EventOK(net[i]) /\ (Announces(net[i]) => Announced)
    BY DEF Inv, DataTyped, Once
  <1>2. /\ IsSeq(Tail(net)) /\ Len(net) \in Nat \ {0} /\ Len(Tail(net)) = Len(net) - 1
        /\ Head(net) = net[1]
        /\ \A i \in 1..Len(net) - 1 : Tail(net)[i] = net[i + 1]
    BY <1>1, TailIs
  <1>3. 1 \in 1..Len(net) /\ \A i \in 1..Len(Tail(net)) : i \in 1..Len(net) - 1 /\ i + 1 \in 1..Len(net)
    BY <1>2
  <1> QED
    BY <1>1, <1>2, <1>3

\* An event that does not make an object.
LEMMA ReceiveInv == ASSUME Inv, Receive, Head(net)[1] # "OPEN" PROVE Inv'
  <1> DEFINE e == Head(net)
             o == e[2]
             ignored == alive[o] = "gone" \/ mIsClosed[o]
  <1>0. Net \in Threads
    BY DEF Threads
  <1>1. stack[Net] = <<>> /\ net # <<>> /\ Ready(e) /\ net' = Tail(net)
    BY DEF Receive
  <1>2. EventOK(e) /\ o \in Objects
    BY <1>1, NetTail DEF EventOK
  <1>3. UNCHANGED <<tabled, alive, mIsClosed, deleted, pending, cb, stored, mutex>>
    BY DEF Receive, env, tables, handlers, app, tabled
  <1>4. \A op \in {"opened", "available"} : o \in Channels => Tame(F(op, o, None, None))
    BY <1>2, SimpleTame
  <1>5. Tame(F("remoteClose", o, None, None))
    BY <1>2, SimpleTame
  <1>6. PICK fs : IsSeq(fs) /\ (\A i \in 1..Len(fs) : Tame(fs[i])) /\ stack' = [stack EXCEPT ![Net] = fs]
    <2>1. \/ stack' = [stack EXCEPT ![Net] = <<>>]
          \/ stack' = stack
          \/ o \in Channels /\ stack' = [stack EXCEPT ![Net] = <<F("opened", o, None, None)>>]
          \/ e[1] = "data" /\ stack' = [stack EXCEPT ![Net] = <<F("available", o, None, None)>>]
          \/ stack' = [stack EXCEPT ![Net] = <<F("remoteClose", o, None, None)>>]
      BY DEF Receive
    <2>2. stack' = stack => stack' = [stack EXCEPT ![Net] = <<>>]
      BY <1>0, <1>1 DEF Inv, Stacks
    <2>3. e[1] = "data" => o \in Channels
      BY <1>2 DEF EventOK
    <2> QED
      BY <1>4, <1>5, <2>1, <2>2, <2>3, NoFrames, OneFrame
  <1>7. /\ mIsOpen' \in [Objects -> BOOLEAN]
        /\ \A q \in Objects : KindOf[q] \in {"pc", "server"} /\ mIsOpen'[q] => id[q] # 0
    <2>1. mIsOpen \in [Objects -> BOOLEAN] /\ alive \in [Objects -> {"new", "alive", "gone"}]
      BY DEF Inv, DataTyped
    <2>2. \A q \in Objects : KindOf[q] \in {"pc", "server"} /\ (alive[q] # "new" \/ mIsOpen[q]) => id[q] # 0
      BY DEF Inv, Handled
    <2>3. CASE mIsOpen' = mIsOpen
      BY <2>1, <2>2, <2>3
    <2>4. CASE e[1] = "up" /\ mIsOpen' = [mIsOpen EXCEPT ![o] = TRUE]
      <3>1. alive[o] # "new" \/ mIsOpen[o]
        BY <1>1, <2>4 DEF Ready
      <3> QED
        BY <1>2, <2>1, <2>2, <2>4, <3>1
    <2> QED
      BY <2>3, <2>4 DEF Receive
  <1>8. IsSeq(tasks') /\ \A i \in 1..Len(tasks') : TaskOK(tasks'[i])
    <2>1. tasks' = tasks \/ (KindOf[o] = "pc" /\ tasks' = Append(tasks, <<"state", o>>))
      BY DEF Receive
    <2>2. CASE tasks' = tasks
      BY <2>2 DEF Inv, DataTyped
    <2>3. CASE KindOf[o] = "pc" /\ tasks' = Append(tasks, <<"state", o>>)
      BY <1>2, <2>3, TaskIs, TaskAdded DEF Inv, DataTyped
    <2> QED
      BY <2>1, <2>2, <2>3
  <1>9. DataTyped'
    <2>1. IsSeq(net') /\ \A i \in 1..Len(net') : EventOK(net'[i])
      BY <1>1, NetTail
    <2> QED
      BY <1>3, <1>7, <1>8, <2>1 DEF Inv, DataTyped, tabled
  <1>10. SlotsTyped'
    <2>1. /\ mRecvQueue' = [q \in Channels |-> mRecvQueue'[q]]
          /\ \A q \in Channels : IsSeq(mRecvQueue'[q]) /\ Len(mRecvQueue'[q]) <= RecvQueueLimit
      <3>1. CASE mRecvQueue' = mRecvQueue
        BY <3>1 DEF Inv, SlotsTyped
      <3>2. CASE /\ e[1] = "data" /\ Len(mRecvQueue[o]) < RecvQueueLimit
                 /\ mRecvQueue' = [mRecvQueue EXCEPT ![o] = Append(@, e[3])]
        <4>1. o \in Channels
          BY <1>2, <3>2 DEF EventOK
        <4>2. IsSeq(mRecvQueue[o])
          BY <4>1 DEF Inv, SlotsTyped
        <4>3. /\ IsSeq(Append(mRecvQueue[o], e[3])) /\ Len(mRecvQueue[o]) \in Nat
              /\ Len(Append(mRecvQueue[o], e[3])) = Len(mRecvQueue[o]) + 1
          BY <4>2, AppendIs
        <4>4. Len(Append(mRecvQueue[o], e[3])) <= RecvQueueLimit
          BY <3>2, <4>3, CapiAssumption
        <4> QED
          BY <3>2, <4>1, <4>3, <4>4 DEF Inv, SlotsTyped
      <3> QED
        BY <3>1, <3>2 DEF Receive
    <2> QED
      BY <1>3, <2>1 DEF Inv, SlotsTyped
  <1>11. \A i \in 1..Len(net') : Announces(net'[i]) => Announced
    BY <1>1, NetTail
  <1> QED
    BY <1>0, <1>1, <1>3, <1>6, <1>7, <1>9, <1>10, <1>11, EmptyInv

\* A finite set in some order.
LEMMA OrderIs ==
    ASSUME NEW S, IsFiniteSet(S)
    PROVE  /\ IsSeq(SetToSeq(S))
           /\ \A i \in 1..Len(SetToSeq(S)) : SetToSeq(S)[i] \in S
           /\ \E n \in Nat : DOMAIN SetToSeq(S) = 1..n
  <1> DEFINE f == SetToSeq(S)
  <1>1. Cardinality(S) \in Nat /\ ExistsBijection(1..Cardinality(S), S)
    BY FS_CardinalityType
  <1>2. PICK g : g \in Bijection(1..Cardinality(S), S)
    BY <1>1, Fun_ExistsBij
  <1>3. g \in [1..Cardinality(S) -> S] /\ IsInjective(g)
    BY <1>2, Fun_BijectionProperties DEF Injection
  <1>4. f \in [1..Cardinality(S) -> S]
    BY <1>3 DEF SetToSeq
  <1> HIDE DEF f
  <1>5. f \in Seq(S)
    BY <1>1, <1>4, SeqDef
  <1>6. IsSeq(f) /\ Len(f) \in Nat /\ DOMAIN f = 1..Len(f)
    BY <1>5, SeqIs
  <1>7. \A i \in 1..Len(f) : f[i] \in S
    BY <1>4, <1>6
  <1> QED
    BY <1>6, <1>7 DEF f

\* A frame for each member of a sequence of objects.
LEMMA FrameEach ==
    ASSUME NEW s, IsSeq(s), NEW op, \A i \in 1..Len(s) : Tame(F(op, s[i], None, None))
    PROVE  /\ IsSeq([i \in DOMAIN s |-> F(op, s[i], None, None)])
           /\ \A i \in 1..Len([j \in DOMAIN s |-> F(op, s[j], None, None)]) :
                 Tame([j \in DOMAIN s |-> F(op, s[j], None, None)][i])
  <1> DEFINE f == [i \in DOMAIN s |-> F(op, s[i], None, None)]
             n == Len(s)
  <1>1. n \in Nat /\ DOMAIN s = 1..n
    BY DEF IsSeq
  <1>2. f = [i \in 1..n |-> F(op, s[i], None, None)]
    BY <1>1
  <1> HIDE DEF n
  <1>3. f = [i \in 1..n |-> f[i]] /\ \A i \in 1..n : f[i] = F(op, s[i], None, None)
    BY <1>2
  <1> HIDE DEF f
  <1>4. IsSeq(f) /\ Len(f) = n
    BY <1>1, <1>3, MadeIs
  <1>5. \A i \in 1..n : Tame(F(op, s[i], None, None))
    BY DEF n
  <1>6. \A i \in 1..Len(f) : Tame(f[i])
    BY <1>3, <1>4, <1>5
  <1> QED
    BY <1>4, <1>6 DEF f

\* A task of mProcessor preserves Inv.
LEMMA RunTaskInv == ASSUME Inv, RunTask PROVE Inv'
  <1> DEFINE k == Head(tasks)[1]
             pc == Head(tasks)[2]
             S == {o \in Channels : Owner[o] = pc /\ alive[o] = "alive"}
             owned == SetToSeq(S)
  <1>0. Proc \in Threads
    BY DEF Threads
  <1>1. stack[Proc] = <<>> /\ tasks # <<>> /\ tasks' = Tail(tasks)
    BY DEF RunTask
  <1>2. IsSeq(tasks) /\ \A i \in 1..Len(tasks) : TaskOK(tasks[i])
    BY DEF Inv, DataTyped
  <1>3. TaskOK(Head(tasks)) /\ IsSeq(tasks') /\ \A i \in 1..Len(tasks') : TaskOK(tasks'[i])
    <2>1. /\ IsSeq(Tail(tasks)) /\ Len(tasks) \in Nat \ {0} /\ Len(Tail(tasks)) = Len(tasks) - 1
          /\ Head(tasks) = tasks[1]
          /\ \A i \in 1..Len(tasks) - 1 : Tail(tasks)[i] = tasks[i + 1]
      BY <1>1, <1>2, TailIs
    <2>2. 1 \in 1..Len(tasks) /\ \A i \in 1..Len(Tail(tasks)) : i \in 1..Len(tasks) - 1 /\ i + 1 \in 1..Len(tasks)
      BY <2>1
    <2> QED
      BY <1>1, <1>2, <2>1, <2>2
  <1>4. k \in {"announce", "state", "closeChannels"} /\ pc \in Objects /\ KindOf[pc] = "pc"
    BY <1>3 DEF TaskOK
  <1>5. IsSeq(owned) /\ \A i \in 1..Len(owned) : owned[i] \in Objects
    <2>1. S \subseteq Objects
      BY DEF Channels
    <2>2. IsFiniteSet(S)
      BY <2>1, CapiAssumption, FS_Subset
    <2> HIDE DEF S
    <2> QED
      BY <2>1, <2>2, OrderIs
  <1>6. PICK fs : IsSeq(fs) /\ (\A i \in 1..Len(fs) : Tame(fs[i])) /\ stack' = [stack EXCEPT ![Proc] = fs]
    <2>0. stack' = [stack EXCEPT ![Proc] =
             CASE k = "announce" -> <<F("announce", pc, None, None)>>
               [] k = "state" -> <<F("trigger", pc, "state", None)>>
               [] k = "closeChannels" -> [i \in DOMAIN owned |-> F("close", owned[i], None, None)]]
      BY DEF RunTask
    <2> HIDE DEF k, pc, owned
    <2>1. CASE k = "announce"
      <3>1. stack' = [stack EXCEPT ![Proc] = <<F("announce", pc, None, None)>>]
        BY <2>0, <2>1
      <3>2. Tame(F("announce", pc, None, None))
        BY <1>4, SimpleTame
      <3> QED
        BY <3>1, <3>2, OneFrame
    <2>2. CASE k = "state"
      <3>1. stack' = [stack EXCEPT ![Proc] = <<F("trigger", pc, "state", None)>>]
        BY <2>0, <2>2
      <3>2. Tame(F("trigger", pc, "state", None))
        BY <1>4, SimpleTame, SlotsAre
      <3> QED
        BY <3>1, <3>2, OneFrame
    <2>3. CASE k = "closeChannels"
      <3>1. stack' = [stack EXCEPT ![Proc] = [i \in DOMAIN owned |-> F("close", owned[i], None, None)]]
        BY <2>0, <2>3
      <3>2. \A i \in 1..Len(owned) : Tame(F("close", owned[i], None, None))
        BY <1>5, SimpleTame
      <3> QED
        BY <1>5, <3>1, <3>2, FrameEach
    <2> QED
      BY <1>4, <2>1, <2>2, <2>3
  <1>7. UNCHANGED <<tabled, alive, mIsClosed, deleted, pending, cb, net, mIsOpen, mutex, stored, mRecvQueue>>
    BY DEF RunTask, env, tables, handlers, app, slots, chan, life, tabled
  <1>8. DataTyped'
    BY <1>3, <1>7 DEF Inv, DataTyped, tabled
  <1>9. SlotsTyped'
    BY <1>7 DEF Inv, SlotsTyped
  <1>10. /\ \A o \in Objects : KindOf[o] \in {"pc", "server"} /\ mIsOpen'[o] => id[o] # 0
         /\ \A i \in 1..Len(net') : Announces(net'[i]) => Announced
    BY <1>7 DEF Inv, Handled, Once
  <1> QED
    BY <1>0, <1>1, <1>6, <1>7, <1>8, <1>9, <1>10, EmptyInv

-----------------------------------------------------------------------------
\* Steps that push other frames, and keep the handles as they are.
Proper(f) ==
    /\ f.op = "destroy" /\ KindOf[f.o] \in {"pc", "server"} => id[f.o] # 0
    /\ f.op = "create" /\ Owner[f.o] # f.o => id[Owner[f.o]] # 0
    /\ f.op \in {"packetize", "chain"} => id[f.o] # 0
    /\ f.op = "erase" => id[f.o] \in known
    /\ f.op = "return" /\ f.ev = "deleted" => id[f.o] # 0 /\ ~Registered(f.o)
    /\ f.op = "inherit" /\ KindOf[Owner[f.o]] = "server" => Registered(Owner[f.o])
    /\ \A o \in Objects : Ending(f, o) => ~Safe(o)

\* A step that pushes proper frames and leaves the handles alone preserves Inv.
LEMMA StableStep ==
    ASSUME Inv, NEW t \in Threads, NEW fs, PushOK(t, fs), Moves(t, fs), ~At(t, "stop"),
           \A i \in 1..Len(fs) : Proper(fs[i]),
           UNCHANGED <<plan, lastId, id, table, deleted, mIsClosed, alive>>,
           DOMAIN userPointer' = DOMAIN userPointer,
           \A m \in Tables : \A i \in DOMAIN media'[m] :
              \E o \in Objects : KindOf[o] = "track" /\ Registered(o) /\ i = id[o],
           \A o \in Objects : init[o] # {} => init'[o] # {},
           \A o \in Objects : KindOf[o] \in {"pc", "server"} /\ mIsOpen'[o] => id[o] # 0,
           known \subseteq known',
           \A s \in Objects : KindOf[s] = "server" /\ Quiet(s) => Quiet(s)',
           \A o \in Objects : Safe(o)' => Safe(o),
           \A o \in Objects : NamedBy(t, o) =>
              NamedBy(t, o)' \/ id[o] \in known' \/ ~Registered(Owner[o])
    PROVE  Stacks' /\ Numbered' /\ Handled' /\ Disciplined' /\ Erasing' /\ ToldOf'
  <1> USE DEF Inv
  <1>0. \A o : Registered(o)' = Registered(o)
    BY DEF Registered
  <1>1. IsSeq(fs)
    BY DEF PushOK
  <1>2. Stacks'
    BY StacksKept
  <1>3. \A u \in Threads : \A f \in FramesIn(u)' : f \in FramesIn(u) \/ Proper(f)
    <2> TAKE u \in Threads
    <2> TAKE f \in FramesIn(u)'
    <2>1. CASE u = t
      <3>1. f \in FramesIn(t) \/ \E i \in 1..Len(fs) : f = fs[i]
        BY <1>1, <2>1, MovedFrames
      <3> QED
        BY <2>1, <3>1
    <2>2. CASE u # t
      BY <1>1, <2>2, MovedFrames
    <2> QED
      BY <2>1, <2>2
  <1>4. Numbered'
    <2>1. {q \in Objects : Registered(q)}' = {q \in Objects : Registered(q)}
      BY <1>0
    <2>2. DOMAIN userPointer' = {id'[o] : o \in {q \in Objects : Registered(q)}'}
      BY <2>1 DEF Numbered
    <2>3. \A m \in Tables : \A i \in DOMAIN media'[m] :
             \E o \in Objects : KindOf[o] = "track" /\ Registered(o)' /\ i = id'[o]
      BY <1>0
    <2> QED
      BY <2>2, <2>3 DEF Numbered
  <1>5. Handled'
    BY <1>3 DEF Handled, Proper
  <1>6. Disciplined'
    <2>1. ASSUME NEW o \in Objects, Safe(o)', NEW u \in Threads, NEW f \in FramesIn(u)'
          PROVE  ~Ending(f, o)
      <3>1. Safe(o)
        BY <2>1
      <3>2. f \in FramesIn(u) => ~Ending(f, o)
        BY <3>1 DEF Disciplined
      <3>3. Proper(f) => ~Ending(f, o)
        BY <3>1 DEF Proper
      <3> QED
        BY <1>3, <3>2, <3>3
    <2>2. ASSUME NEW o \in Objects, Safe(o)' PROVE id'[o] = 0 \/ Registered(o)'
      BY <1>0, <2>2 DEF Disciplined
    <2> QED
      BY <2>1, <2>2 DEF Disciplined, Ending
  <1>7. ASSUME NEW u \in Threads, At(u, "erase")', KindOf[Top(u).o]' = "server"
        PROVE  Quiet(Top(u).o)'
    <2>0. Top(u)' \in FramesIn(u)' /\ Top(u)'.o \in Objects
      <3>1. IsSeq(stack'[u]) /\ stack'[u] # <<>>
        BY <1>2, <1>7 DEF Stacks, At
      <3>2. Top(u)' = stack'[u][1] /\ 1 \in 1..Len(stack'[u])
        BY <3>1, TailIs DEF Top
      <3>3. Top(u)' \in FramesIn(u)'
        BY <3>2 DEF FramesIn
      <3>4. FrameOK(Top(u)') /\ Top(u)'.op = "erase"
        BY <1>2, <1>7, <3>3 DEF Stacks, At, Top
      <3> QED
        BY <3>3, <3>4 DEF FrameOK
    <2>1. CASE u # t
      <3>1. stack'[u] = stack[u]
        BY <1>1, <2>1, MovesIs
      <3>2. Quiet(Top(u).o) /\ Top(u)' = Top(u)
        BY <1>7, <3>1 DEF Erasing, At, Top
      <3>3. PICK s \in Objects : s = Top(u)'.o
        BY <2>0
      <3>4. Quiet(s) /\ KindOf[s] = "server"
        BY <1>7, <3>2, <3>3
      <3>5. Quiet(s)'
        BY <3>4
      <3> QED
        BY <3>3, <3>5 DEF Quiet
    <2>2. CASE u = t /\ fs # <<>>
      <3>1. Len(fs) > 0
        BY <1>1, <2>2, NonEmptyIs
      <3>2. 1 \in 1..Len(fs) /\ stack'[t][1] = fs[1] /\ IsSeq(stack'[t]) /\ stack'[t] # <<>>
        BY <1>1, <1>7, <2>2, <3>1, MovesIs DEF At
      <3>3. Top(t)' = fs[1]
        BY <3>2, TailIs DEF Top
      <3>4. fs[1].op = "erase" /\ KindOf[fs[1].o] = "server"
        BY <1>7, <2>2, <3>3 DEF At, Top
      <3>5. 1 \in 2..Len(fs)
        BY <3>2, <3>4 DEF PushOK
      <3> QED
        BY <3>5
    <2>3. CASE u = t /\ fs = <<>>
      <3>1. At(t, "stop")
        BY <1>7, <2>3, StoppedFirst
      <3> QED
        BY <3>1
    <2> QED
      BY <2>1, <2>2, <2>3
  <1>8. Erasing'
    <2>1. ASSUME NEW u \in Threads, NEW f \in FramesIn(u)'
          PROVE  /\ f.op = "erase" => id[f.o] \in known
                 /\ f.op = "return" /\ f.ev = "deleted" => id[f.o] # 0 /\ ~Registered(f.o)
                 /\ f.op = "inherit" /\ KindOf[Owner[f.o]] = "server" => Registered(Owner[f.o])
      BY <1>3 DEF Erasing, Proper
    <2>2. \A u \in Threads : At(u, "erase")' /\ (KindOf[Top(u).o] = "server")' => Quiet(Top(u).o)'
      BY <1>7
    <2>3. \A u \in Threads : \A f \in FramesIn(u)' :
             /\ f.op = "erase" => id'[f.o] \in known'
             /\ f.op = "return" /\ f.ev = "deleted" => id'[f.o] # 0 /\ ~Registered(f.o)'
             /\ f.op = "inherit" /\ KindOf[Owner[f.o]] = "server" => Registered(Owner[f.o])'
      BY <1>0, <2>1
    <2>4. deleted' \subseteq Objects /\ \A o \in deleted' : id'[o] # 0 /\ ~Registered(o)'
      BY <1>0 DEF Erasing
    <2> QED
      BY <2>2, <2>3, <2>4 DEF Erasing
  <1>9. ToldOf'
    <2> SUFFICES ASSUME NEW o \in Objects, Registered(o)'
                 PROVE  id'[o] \in known' \/ (\E u \in Threads : NamedBy(u, o)') \/ ~Registered(Owner[o])'
      BY DEF ToldOf
    <2>1. id[o] \in known \/ (\E u \in Threads : NamedBy(u, o)) \/ ~Registered(Owner[o])
      BY <1>0 DEF ToldOf
    <2>2. \A u \in Threads \ {t} : NamedBy(u, o) => NamedBy(u, o)'
      BY <1>1, MovedFrames DEF NamedBy
    <2> QED
      BY <1>0, <2>1, <2>2
  <1> QED
    BY <1>2, <1>4, <1>5, <1>6, <1>8, <1>9

\* What is announced stays so, or is not any more.
LEMMA OnceKept ==
    ASSUME Once, UNCHANGED <<plan, id, table, pending>>,
           \A o \in Objects : init[o] # {} => init'[o] # {},
           \A o \in Objects : Offered(o)' => Offered(o),
           \A u \in Threads, o \in Objects : AnnouncedBy(u, o)' => AnnouncedBy(u, o),
           \A u \in Threads, o \in Objects : NamedBy(u, o)' => NamedBy(u, o) /\ id[o] \notin known',
           \A i \in 1..Len(net') : Announces(net'[i]) => Announced
    PROVE  Once'
  <1>0. \A o : Registered(o)' = Registered(o) /\ Waiting(o)' = Waiting(o)
    BY DEF Registered, Waiting
  <1>1. \A o \in Objects : Coming(o)' => Coming(o)
    BY <1>0 DEF Coming
  <1>2. Announced' = Announced
    BY DEF Announced
  <1> QED
    BY <1>0, <1>1, <1>2 DEF Once

\* Frames of other threads, and of this one.
LEMMA PushedFrames ==
    ASSUME Stacks, NEW t \in Threads, NEW fs, IsSeq(fs), Moves(t, fs)
    PROVE  /\ \A u \in Threads \ {t} : FramesIn(u)' = FramesIn(u)
           /\ \A f \in FramesIn(t)' : ~Late(f) \/ \E i \in 1..Len(fs) : f = fs[i]
           /\ \A u \in Threads, o \in Objects : AnnouncedBy(u, o)' =>
                 \/ u # t /\ AnnouncedBy(u, o)
                 \/ u = t /\ \E i \in 1..Len(fs) : Announcing(fs[i]) /\ fs[i].x = o
           /\ \A u \in Threads, o \in Objects : NamedBy(u, o)' =>
                 \/ u # t /\ NamedBy(u, o)
                 \/ u = t /\ \E i \in 1..Len(fs) : Naming(fs[i]) /\ fs[i].o = o
           /\ stack[t] # <<>> =>
                 \A o \in Objects : NamedBy(t, o) <=> Naming(Top(t)) /\ Top(t).o = o
           /\ \A o \in Objects : stack[t] # <<>> /\ Announcing(Top(t)) /\ Top(t).x = o => AnnouncedBy(t, o)
  <1>1. /\ \A u \in Threads \ {t} : FramesIn(u)' = FramesIn(u)
        /\ \A f \in FramesIn(t)' : f \in Lower(t) \/ \E i \in 1..Len(fs) : f = fs[i]
        /\ stack[t] # <<>> => Top(t) \in FramesIn(t)
    BY MovedFrames
  <1>2. \A f \in FramesIn(t)' : ~Late(f) \/ \E i \in 1..Len(fs) : f = fs[i]
    BY <1>1 DEF Stacks
  <1>3. \A u \in Threads, o \in Objects : AnnouncedBy(u, o)' =>
                 \/ u # t /\ AnnouncedBy(u, o)
                 \/ u = t /\ \E i \in 1..Len(fs) : Announcing(fs[i]) /\ fs[i].x = o
    BY <1>1, <1>2 DEF AnnouncedBy, Late
  <1>4. \A u \in Threads, o \in Objects : NamedBy(u, o)' =>
                 \/ u # t /\ NamedBy(u, o)
                 \/ u = t /\ \E i \in 1..Len(fs) : Naming(fs[i]) /\ fs[i].o = o
    BY <1>1, <1>2 DEF NamedBy, Late
  <1>5. stack[t] # <<>> => \A o \in Objects : NamedBy(t, o) <=> Naming(Top(t)) /\ Top(t).o = o
    <2> SUFFICES ASSUME stack[t] # <<>>, NEW o \in Objects
                 PROVE  NamedBy(t, o) <=> Naming(Top(t)) /\ Top(t).o = o
      OBVIOUS
    <2>1. \A f \in FramesIn(t) : Naming(f) => f = Top(t)
      BY LateOnTop DEF Late
    <2> QED
      BY <1>1, <2>1 DEF NamedBy
  <1>6. \A o \in Objects : stack[t] # <<>> /\ Announcing(Top(t)) /\ Top(t).x = o => AnnouncedBy(t, o)
    BY <1>1 DEF AnnouncedBy
  <1> QED
    BY <1>1, <1>2, <1>3, <1>4, <1>5, <1>6

\* What a frame will keep under a handle.
Further(f, o) ==
    \/ f.op = "body" /\ In(f.rest, LAMBDA c : Keeps(c, o))
    \/ f.op \in {"packetize", "chain"} /\ f.o = o

\* No step makes it possible again to keep something under a handle.
LEMMA SafeKept ==
    ASSUME Stacks, NEW t \in Threads, NEW fs, IsSeq(fs), Moves(t, fs), plan' = plan,
           \A i \in 1..Len(fs) : \A o \in Objects : Further(fs[i], o) => Safe(o)
    PROVE  \A o \in Objects : Safe(o)' => Safe(o)
  <1> TAKE o \in Objects
  <1>1. Some(plan, App, LAMBDA c : Ends(c, o))' = Some(plan, App, LAMBDA c : Ends(c, o))
    BY DEF Some, In, Ends
  <1>2. ASSUME Ahead(o)' PROVE Safe(o)
    <2>1. PICK u \in Threads : \E f \in FramesIn(u)' : Further(f, o)
      BY <1>2 DEF Ahead, Further, In
    <2>2. PICK f \in FramesIn(u)' : Further(f, o)
      BY <2>1
    <2>3. CASE f \in FramesIn(u)
      BY <2>2, <2>3 DEF Safe, Ahead, Further
    <2>4. CASE f \notin FramesIn(u)
      <3>1. \E i \in 1..Len(fs) : f = fs[i]
        BY <2>4, MovedFrames
      <3> QED
        BY <2>2, <3>1
    <2> QED
      BY <2>3, <2>4
  <1> QED
    BY <1>1, <1>2 DEF Safe

\* What a frame names, by announcing it or giving it a pointer, of an object.
Of(f, s) == (Announcing(f) /\ f.o = s) \/ (Naming(f) /\ Owner[f.o] = s)

\* A server that announces nothing stays so.
LEMMA QuietKept ==
    ASSUME Stacks, NEW t \in Threads, NEW fs, IsSeq(fs), Moves(t, fs), mIsClosed' = mIsClosed,
           \A s \in Objects : KindOf[s] = "server" /\ Quiet(s) /\ t = Server => \A i \in 1..Len(fs) : ~Of(fs[i], s)
    PROVE  \A s \in Objects : KindOf[s] = "server" /\ Quiet(s) => Quiet(s)'
  <1> SUFFICES ASSUME NEW s \in Objects, KindOf[s] = "server", Quiet(s) PROVE Quiet(s)'
    OBVIOUS
  <1>1. Server \in Threads
    BY DEF Threads
  <1>2. ASSUME NEW f \in FramesIn(Server)' PROVE ~Of(f, s)
    <2>1. CASE f \in FramesIn(Server)
      BY <2>1 DEF Quiet, Of
    <2>2. CASE f \notin FramesIn(Server)
      <3>1. t = Server /\ \E i \in 1..Len(fs) : f = fs[i]
        BY <1>1, <1>2, <2>2, MovedFrames
      <3> QED
        BY <3>1
    <2> QED
      BY <2>1, <2>2
  <1> QED
    BY <1>2 DEF Quiet, Of

\* A frame that is neither a body nor an erasure may be pushed alone.
LEMMA OnePush ==
    ASSUME NEW t, NEW a, FrameOK(a), FrameFrom(t, a), a.op \notin {"body", "erase"}
    PROVE  PushOK(t, <<a>>) /\ IsSeq(<<a>>) /\ Len(<<a>>) = 1 /\ <<a>>[1] = a
  <1> DEFINE s == <<a>>
  <1>1. IsSeq(s) /\ Len(s) = 1 /\ s[1] = a
    BY OneIs
  <1> HIDE DEF s
  <1>2. \A i \in 1..Len(s) : i = 1 /\ ~(i \in 2..Len(s))
    BY <1>1
  <1>3. PushOK(t, s)
    BY <1>1, <1>2 DEF PushOK
  <1> QED
    BY <1>1, <1>3 DEF s

\* Tame frames are proper, and keep nothing under a handle that may be ended.
LEMMA TameProper ==
    ASSUME DataTyped, NEW f, Tame(f)
    PROVE  Proper(f) /\ ~Announcing(f) /\ ~Naming(f) /\ \A o \in Objects : Further(f, o) => Safe(o)
  <1>1. Proper(f) /\ ~Announcing(f) /\ ~Naming(f)
    BY DEF Tame, Proper, Late, Naming, Ending
  <1>2. ASSUME NEW o \in Objects, Further(f, o) PROVE Safe(o)
    <2>1. f.op = "body" /\ In(f.rest, LAMBDA c : Keeps(c, o)) /\ IsSeq(f.rest)
      BY <1>2 DEF Further, Tame, Late, FrameOK
    <2>2. PICK k \in DOMAIN plan.body : RestOf(f.rest, plan.body[k])
      BY <2>1 DEF Tame
    <2> QED
      BY <2>1, <2>2, BodyKeeps
  <1> QED
    BY <1>1, <1>2

\* A handle has a user pointer while it is in its table.
LEMMA PointerOf ==
    ASSUME Numbered, NEW o \in Objects
    PROVE  /\ id[o] \in DOMAIN userPointer <=> Registered(o)
           /\ Registered(o) => id[o] # 0
  <1>1. \A q \in Objects : Registered(q) => id[q] # 0
    <2> SUFFICES ASSUME NEW q \in Objects, Registered(q) PROVE id[q] # 0
      OBVIOUS
    <2>1. KindOf[q] \in Kinds
      BY SlotsAre
    <2> DEFINE e == <<id[q], q>>
    <2>2. e[2] = q /\ e \in table[KindOf[q]]
      BY TwoIs DEF Registered
    <2> HIDE DEF e
    <2> QED
      BY <2>1, <2>2 DEF Numbered
  <1>2. \A q \in Objects : Registered(q) /\ id[q] = id[o] => q = o
    BY <1>1 DEF Numbered
  <1>3. DOMAIN userPointer = {id[q] : q \in {r \in Objects : Registered(r)}}
    BY DEF Numbered
  <1> QED
    BY <1>1, <1>2, <1>3

\* A callback of the application that announces an object is called.
LEMMA TriggerAnnounceInv ==
    ASSUME Inv, NEW t \in Threads, Trigger(t), Top(t).ev = "announce", cb[Top(t).o][Top(t).ev] # None
    PROVE  Inv'
  <1> DEFINE o == Top(t).o
             x == Top(t).x
             f == F("closure", o, "announce", x)
             fs == <<f>>
  <1>1. stack[t] # <<>> /\ ~Naming(Top(t)) /\ Top(t).op = "trigger" /\ ~At(t, "stop")
    BY DEF Trigger, At, Top, Naming
  <1>2. /\ o \in Objects /\ "announce" \in ToSet(Slots(KindOf[o])) /\ FrameOK(Top(t)) /\ FrameFrom(t, Top(t))
        /\ Top(t) \in FramesIn(t) /\ Announcing(Top(t))
    BY <1>1, TopIs DEF FrameOK, Announcing
  <1>3. cb[o]["announce"] = "app"
    BY <1>2 DEF Inv, SlotsTyped
  <1>4. Go(t, fs) /\ UNCHANGED <<slots, mOpenTriggered, pending>>
    BY <1>3, CapiAssumption DEF Trigger
  <1>5. FrameOK(f) /\ FrameFrom(t, f) /\ f.op = "closure" /\ f.o = o /\ f.x = x /\ f.ev = "announce"
    BY <1>1, <1>2 DEF FrameOK, FrameFrom, Announcing, Naming, F
  <1> HIDE DEF f
  <1>6. PushOK(t, fs) /\ IsSeq(fs) /\ Len(fs) = 1 /\ fs[1] = f
    BY <1>5, OnePush
  <1> HIDE DEF fs
  <1>7. \A i \in 1..Len(fs) : fs[i] = f
    BY <1>6
  <1>8. Moves(t, fs)
    BY <1>1, <1>4, GoMoves
  <1>9. Proper(f) /\ \A q \in Objects : ~Further(f, q)
    BY <1>5 DEF Proper, Further, Ending
  <1>10. Stacks /\ Once /\ DataTyped /\ SlotsTyped
    BY DEF Inv
  <1>11. \A q \in Objects : Safe(q)' => Safe(q)
    <2>1. plan' = plan
      BY DEF Trigger, env
    <2> QED
      BY <1>6, <1>7, <1>8, <1>9, <1>10, <2>1, SafeKept
  <1>12. \A s \in Objects : KindOf[s] = "server" /\ Quiet(s) => Quiet(s)'
    <2>1. mIsClosed' = mIsClosed
      BY DEF Trigger
    <2>2. ASSUME NEW s \in Objects, Quiet(s), t = Server PROVE ~Of(f, s)
      BY <1>2, <1>5, <2>2 DEF Quiet, Of, Naming
    <2> QED
      BY <1>6, <1>7, <1>8, <1>10, <2>1, <2>2, QuietKept
  <1>13. /\ UNCHANGED <<plan, lastId, id, table, deleted, mIsClosed, alive, userPointer, media, init, mIsOpen,
                        known, net, tasks, mutex>>
         /\ UNCHANGED <<cb, stored, pending, mRecvQueue>>
    BY <1>4 DEF Trigger, env, io, tables, handlers, app, life, slots
  <1>14. Stacks' /\ Numbered' /\ Handled' /\ Disciplined' /\ Erasing' /\ ToldOf'
    <2>1. /\ \A q \in Objects : init[q] # {} => init'[q] # {}
          /\ \A q \in Objects : KindOf[q] \in {"pc", "server"} /\ mIsOpen'[q] => id[q] # 0
          /\ \A m \in Tables : \A i \in DOMAIN media'[m] :
                \E q \in Objects : KindOf[q] = "track" /\ Registered(q) /\ i = id[q]
      BY <1>13 DEF Inv, Handled, Numbered
    <2>2. \A q \in Objects : ~NamedBy(t, q)
      BY <1>1, <1>6, <1>8, <1>10, PushedFrames
    <2>3. \A i \in 1..Len(fs) : Proper(fs[i])
      BY <1>7, <1>9
    <2> QED
      BY <1>1, <1>6, <1>8, <1>11, <1>12, <1>13, <2>1, <2>2, <2>3, StableStep
  <1>15. Once'
    <2>1. \A u \in Threads, q \in Objects :
             (AnnouncedBy(u, q)' => AnnouncedBy(u, q)) /\ (NamedBy(u, q)' => NamedBy(u, q))
      BY <1>1, <1>2, <1>5, <1>6, <1>7, <1>8, <1>10, PushedFrames DEF Naming
    <2>2. \A u \in Threads, q \in Objects : NamedBy(u, q) => id[q] \notin known
      BY <1>10 DEF Once
    <2>3. /\ \A q \in Objects : Offered(q)' => Offered(q)
          /\ \A i \in 1..Len(net') : Announces(net'[i]) => Announced
      BY <1>10, <1>13 DEF Once, Offered
    <2> QED
      BY <1>10, <1>13, <2>1, <2>2, <2>3, OnceKept
  <1>16. DataTyped' /\ SlotsTyped'
    BY <1>10, <1>13 DEF DataTyped, SlotsTyped
  <1> QED
    BY <1>14, <1>15, <1>16 DEF Inv

\* The search for the user pointer of an owner preserves Inv.
LEMMA FindPointerInv == ASSUME Inv, NEW t \in Threads, FindPointer(t) PROVE Inv'
  <1> DEFINE o == Top(t).o
             ev == Top(t).ev
             f == F("inherit", o, ev, userPointer[id[Owner[o]]])
             more == IF ev = "create" THEN {id[o]} ELSE {}
  <1>1. stack[t] # <<>> /\ Naming(Top(t)) /\ Top(t).op = "find" /\ ~At(t, "stop") /\ ~Announcing(Top(t))
    BY DEF FindPointer, At, Top, Naming, Announcing
  <1>2. /\ o \in Objects /\ FrameOK(Top(t)) /\ FrameFrom(t, Top(t)) /\ Top(t) \in FramesIn(t)
        /\ Owner[o] # o /\ Owner[o] \in Objects
    BY <1>1, TopIs, SlotsAre DEF FrameOK
  <1>3. Stacks /\ Once /\ DataTyped /\ SlotsTyped /\ Numbered /\ Handled
    BY DEF Inv
  <1>4. /\ NamedBy(t, o) /\ Registered(o) /\ id[o] # 0 /\ id[o] \notin known
        /\ \A u \in Threads : NamedBy(u, o) => t = u
    <2>1. NamedBy(t, o)
      BY <1>1, <1>2 DEF NamedBy
    <2> QED
      BY <1>2, <1>3, <2>1, PointerOf DEF Once
  <1>5. id[Owner[o]] \in DOMAIN userPointer <=> Registered(Owner[o])
    BY <1>2, <1>3, PointerOf
  <1>6. /\ UNCHANGED <<plan, lastId, id, table, deleted, mIsClosed, alive, userPointer, media, init, mIsOpen,
                       net, tasks, mutex>>
        /\ UNCHANGED <<cb, stored, pending, mRecvQueue>>
    BY DEF FindPointer, env, io, tables, handlers, slots, chan, life
  <1>7. PICK fs : /\ PushOK(t, fs) /\ IsSeq(fs) /\ Go(t, fs)
                  /\ \A i \in 1..Len(fs) : fs[i] = f /\ Registered(Owner[o])
                  /\ \/ Len(fs) = 1 /\ fs[1] = f /\ known' = known
                     \/ ~Registered(Owner[o]) /\ known' = known \cup more
    <2>1. CASE id[Owner[o]] \in DOMAIN userPointer
      <3>1. Go(t, <<f>>) /\ known' = known
        BY <2>1 DEF FindPointer
      <3>2. FrameOK(f) /\ FrameFrom(t, f) /\ f.op = "inherit"
        BY <1>1, <1>2 DEF FrameOK, FrameFrom, Announcing, Naming, F
      <3> HIDE DEF f
      <3>3. PushOK(t, <<f>>) /\ IsSeq(<<f>>) /\ Len(<<f>>) = 1 /\ <<f>>[1] = f
        BY <3>2, OnePush
      <3>4. \A i \in 1..Len(<<f>>) : <<f>>[i] = f
        BY <3>3
      <3> QED
        BY <1>5, <2>1, <3>1, <3>3, <3>4
    <2>2. CASE id[Owner[o]] \notin DOMAIN userPointer
      <3>1. Go(t, <<>>) /\ known' = known \cup more
        BY <2>2 DEF FindPointer, Return
      <3>2. PushOK(t, <<>>) /\ IsSeq(<<>>) /\ 1..Len(<<>>) = {}
        BY NoFrames, TamePush, EmptyIs
      <3> QED
        BY <1>5, <2>2, <3>1, <3>2
    <2> QED
      BY <2>1, <2>2
  <1>8. f.op = "inherit" /\ f.o = o /\ f.ev = ev /\ Naming(f) /\ ~Announcing(f)
    BY DEF F, Naming, Announcing
  <1> HIDE DEF f
  <1>9. Moves(t, fs)
    BY <1>1, <1>7, GoMoves
  <1>10. \A i \in 1..Len(fs) : Proper(fs[i]) /\ \A q \in Objects : ~Further(fs[i], q)
    BY <1>7, <1>8 DEF Proper, Further, Ending
  <1>11. \A q \in Objects : Safe(q)' => Safe(q)
    BY <1>3, <1>6, <1>7, <1>9, <1>10, SafeKept
  <1>12. \A s \in Objects : KindOf[s] = "server" /\ Quiet(s) => Quiet(s)'
    <2>1. ASSUME NEW s \in Objects, Quiet(s), t = Server, NEW i \in 1..Len(fs) PROVE ~Of(fs[i], s)
      BY <1>1, <1>2, <1>7, <1>8, <2>1 DEF Quiet, Of
    <2> QED
      BY <1>3, <1>6, <1>7, <1>9, <2>1, QuietKept
  <1>13. known \subseteq known' /\ known' \subseteq 1..lastId /\ \A i \in known' : i \in known \/ i = id[o]
    <2>1. known' = known \/ known' = known \cup {id[o]}
      BY <1>7
    <2>2. id[o] \in 1..lastId
      BY <1>2, <1>3, <1>4 DEF DataTyped
    <2> QED
      BY <1>3, <2>1, <2>2 DEF DataTyped
  <1>14. \A q \in Objects : NamedBy(t, q) => NamedBy(t, q)' \/ id[q] \in known' \/ ~Registered(Owner[q])
    <2>1. ASSUME NEW q \in Objects, NamedBy(t, q) PROVE q = o
      BY <1>1, <1>3, <1>7, <1>9, <2>1, PushedFrames
    <2>2. CASE Len(fs) = 1 /\ fs[1] = f
      <3>1. 1 \in 1..Len(fs)
        BY <2>2
      <3>2. fs[1] \in FramesIn(t)'
        BY <1>3, <1>7, <1>9, <3>1, MovedFrames
      <3>3. f \in FramesIn(t)'
        BY <2>2, <3>2
      <3>4. ASSUME NEW q \in Objects, NamedBy(t, q) PROVE NamedBy(t, q)'
        <4>1. f.o = q /\ Naming(f)
          BY <1>8, <2>1, <3>4
        <4> QED
          BY <3>3, <4>1 DEF NamedBy
      <3> QED
        BY <3>4
    <2>3. CASE ~Registered(Owner[o])
      BY <2>1, <2>3
    <2> QED
      BY <1>7, <2>2, <2>3
  <1>15. Stacks' /\ Numbered' /\ Handled' /\ Disciplined' /\ Erasing' /\ ToldOf'
    <2>1. /\ \A q \in Objects : init[q] # {} => init'[q] # {}
          /\ \A q \in Objects : KindOf[q] \in {"pc", "server"} /\ mIsOpen'[q] => id[q] # 0
          /\ \A m \in Tables : \A i \in DOMAIN media'[m] :
                \E q \in Objects : KindOf[q] = "track" /\ Registered(q) /\ i = id[q]
      BY <1>3, <1>6 DEF Handled, Numbered
    <2> QED
      BY <1>1, <1>6, <1>7, <1>9, <1>10, <1>11, <1>12, <1>13, <1>14, <2>1, StableStep
  <1>16. Once'
    <2>1. \A u \in Threads, q \in Objects : AnnouncedBy(u, q)' => AnnouncedBy(u, q)
      BY <1>3, <1>7, <1>8, <1>9, PushedFrames
    <2>2. ASSUME NEW u \in Threads, NEW q \in Objects, NamedBy(u, q)'
          PROVE  NamedBy(u, q) /\ id[q] \notin known'
      <3>1. \/ u # t /\ NamedBy(u, q)
            \/ u = t /\ \E i \in 1..Len(fs) : Naming(fs[i]) /\ fs[i].o = q
        BY <1>3, <1>7, <1>9, <2>2, PushedFrames
      <3>2. CASE u # t /\ NamedBy(u, q)
        <4>1. q # o
          BY <1>4, <3>2
        <4>2. id[q] # id[o] /\ id[q] \notin known
          BY <1>2, <1>3, <1>4, <3>2, <4>1 DEF Numbered, Once
        <4> QED
          BY <1>13, <3>2, <4>2
      <3>3. CASE u = t /\ \E i \in 1..Len(fs) : Naming(fs[i]) /\ fs[i].o = q
        <4>1. q = o /\ known' = known
          BY <1>7, <1>8, <3>3
        <4> QED
          BY <1>4, <3>3, <4>1
      <3> QED
        BY <3>1, <3>2, <3>3
    <2>3. /\ \A q \in Objects : Offered(q)' => Offered(q)
          /\ \A i \in 1..Len(net') : Announces(net'[i]) => Announced
      BY <1>3, <1>6 DEF Once, Offered
    <2> QED
      BY <1>3, <1>6, <2>1, <2>2, <2>3, OnceKept
  <1>17. DataTyped' /\ SlotsTyped'
    BY <1>3, <1>6, <1>13 DEF DataTyped, SlotsTyped
  <1> QED
    BY <1>15, <1>16, <1>17 DEF Inv

\* Passing on the user pointer, and telling the handle, preserve Inv.
LEMMA InheritInv == ASSUME Inv, NEW t \in Threads, Inherit(t) PROVE Inv'
  <1> DEFINE o == Top(t).o
             owner == Owner[o]
  <1>1. stack[t] # <<>> /\ Naming(Top(t)) /\ Top(t).op = "inherit" /\ ~At(t, "stop") /\ ~Announcing(Top(t))
    BY DEF Inherit, At, Top, Naming, Announcing
  <1>2. /\ o \in Objects /\ FrameOK(Top(t)) /\ FrameFrom(t, Top(t)) /\ Top(t) \in FramesIn(t)
        /\ owner # o /\ owner \in Objects
    BY <1>1, TopIs, SlotsAre DEF FrameOK
  <1>3. Stacks /\ Once /\ DataTyped /\ SlotsTyped /\ Numbered /\ Handled /\ Erasing
    BY DEF Inv
  <1>4. /\ NamedBy(t, o) /\ Registered(o) /\ id[o] # 0 /\ id[o] \notin known
        /\ \A u \in Threads : NamedBy(u, o) => t = u
    <2>1. NamedBy(t, o)
      BY <1>1, <1>2 DEF NamedBy
    <2> QED
      BY <1>2, <1>3, <2>1, PointerOf DEF Once
  <1>5. DOMAIN userPointer' = DOMAIN userPointer
    <2>1. CASE KindOf[owner] = "server"
      <3>1. Registered(owner)
        BY <1>1, <1>2, <1>3, <2>1 DEF Erasing
      <3>2. id[owner] \in DOMAIN userPointer
        BY <1>2, <1>3, <3>1, PointerOf
      <3>3. userPointer' = Put(userPointer, id[owner], Top(t).x)
        BY <2>1 DEF Inherit, SetUserPointer
      <3>4. DOMAIN userPointer' = DOMAIN userPointer \cup {id[owner]}
        BY <3>3 DEF Put
      <3> QED
        BY <3>2, <3>4
    <2>2. CASE KindOf[owner] # "server"
      <3>1. id[o] \in DOMAIN userPointer
        BY <1>2, <1>3, <1>4, PointerOf
      <3>2. userPointer' = Put(userPointer, id[o], Top(t).x)
        BY <2>2 DEF Inherit, SetUserPointer
      <3>3. DOMAIN userPointer' = DOMAIN userPointer \cup {id[o]}
        BY <3>2 DEF Put
      <3> QED
        BY <3>1, <3>3
    <2> QED
      BY <2>1, <2>2
  <1>6. /\ UNCHANGED <<plan, lastId, id, table, deleted, mIsClosed, alive, media, init, mIsOpen,
                       net, tasks, mutex>>
        /\ UNCHANGED <<cb, stored, pending, mRecvQueue>>
        /\ known' = known \cup {id[o]}
    BY DEF Inherit, env, io, handlers, slots, chan, life
  <1>7. PICK fs : IsSeq(fs) /\ (\A i \in 1..Len(fs) : Tame(fs[i])) /\ Go(t, fs)
    <2>1. CASE Go(t, <<>>)
      BY <2>1, NoFrames
    <2>2. CASE Go(t, Body(BodyOf(o, "announce")))
      BY <1>2, <1>3, <2>2, BodyTame
    <2> QED
      BY <2>1, <2>2 DEF Inherit, Return
  <1>8. Moves(t, fs)
    BY <1>1, <1>7, GoMoves
  <1>9. \A i \in 1..Len(fs) : /\ Proper(fs[i]) /\ ~Announcing(fs[i]) /\ ~Naming(fs[i])
                              /\ \A q \in Objects : Further(fs[i], q) => Safe(q)
    BY <1>3, <1>7, TameProper
  <1>10. PushOK(t, fs)
    BY <1>7, TamePush
  <1>11. \A q \in Objects : Safe(q)' => Safe(q)
    BY <1>3, <1>6, <1>7, <1>8, <1>9, SafeKept
  <1>12. \A s \in Objects : KindOf[s] = "server" /\ Quiet(s) => Quiet(s)'
    <2>1. \A s \in Objects : \A i \in 1..Len(fs) : ~Of(fs[i], s)
      BY <1>9 DEF Of
    <2> QED
      BY <1>3, <1>6, <1>7, <1>8, <2>1, QuietKept
  <1>13. known \subseteq known' /\ known' \subseteq 1..lastId
    BY <1>2, <1>3, <1>4, <1>6 DEF DataTyped
  <1>14. \A q \in Objects : NamedBy(t, q) => id[q] \in known'
    <2> TAKE q \in Objects
    <2>1. NamedBy(t, q) => q = o
      BY <1>1, <1>3, <1>7, <1>8, PushedFrames
    <2> QED
      BY <1>6, <2>1
  <1>15. Stacks' /\ Numbered' /\ Handled' /\ Disciplined' /\ Erasing' /\ ToldOf'
    <2>1. /\ \A q \in Objects : init[q] # {} => init'[q] # {}
          /\ \A q \in Objects : KindOf[q] \in {"pc", "server"} /\ mIsOpen'[q] => id[q] # 0
          /\ \A m \in Tables : \A i \in DOMAIN media'[m] :
                \E q \in Objects : KindOf[q] = "track" /\ Registered(q) /\ i = id[q]
      BY <1>3, <1>6 DEF Handled, Numbered
    <2> QED
      BY <1>1, <1>5, <1>6, <1>8, <1>9, <1>10, <1>11, <1>12, <1>13, <1>14, <2>1, StableStep
  <1>16. Once'
    <2>1. \A u \in Threads, q \in Objects : AnnouncedBy(u, q)' => AnnouncedBy(u, q)
      BY <1>3, <1>7, <1>8, <1>9, PushedFrames
    <2>2. ASSUME NEW u \in Threads, NEW q \in Objects, NamedBy(u, q)'
          PROVE  NamedBy(u, q) /\ id[q] \notin known'
      <3>1. u # t /\ NamedBy(u, q)
        BY <1>3, <1>7, <1>8, <1>9, <2>2, PushedFrames
      <3>2. q # o
        BY <1>4, <3>1
      <3>3. id[q] # id[o] /\ id[q] \notin known
        BY <1>2, <1>3, <1>4, <3>1, <3>2 DEF Numbered, Once
      <3> QED
        BY <1>6, <3>1, <3>3
    <2>3. /\ \A q \in Objects : Offered(q)' => Offered(q)
          /\ \A i \in 1..Len(net') : Announces(net'[i]) => Announced
      BY <1>3, <1>6 DEF Once, Offered
    <2> QED
      BY <1>3, <1>6, <2>1, <2>2, <2>3, OnceKept
  <1>17. DataTyped' /\ SlotsTyped'
    BY <1>3, <1>6, <1>13 DEF DataTyped, SlotsTyped
  <1> QED
    BY <1>15, <1>16, <1>17 DEF Inv

\* What is kept under the handle of a track is kept while the handle is in its table.
LEMMA KeptInv ==
    ASSUME Inv, NEW t \in Threads, Packetize(t) \/ Chain(t)
    PROVE  Inv'
  <1> DEFINE o == Top(t).o
             fs == <<>>
  <1>1. /\ stack[t] # <<>> /\ ~Naming(Top(t)) /\ Top(t).op \in {"packetize", "chain"} /\ ~At(t, "stop")
        /\ Go(t, fs)
    BY DEF Packetize, Chain, At, Top, Naming, Return
  <1>2. o \in Objects /\ KindOf[o] = "track" /\ Top(t) \in FramesIn(t)
    BY <1>1, TopIs DEF FrameOK
  <1>3. Stacks /\ Once /\ DataTyped /\ SlotsTyped /\ Numbered /\ Handled /\ Disciplined
    BY DEF Inv
  <1>4. Registered(o)
    <2>1. Safe(o)
      BY <1>1, <1>2 DEF Safe, Ahead
    <2>2. id[o] # 0
      BY <1>1, <1>2, <1>3 DEF Handled
    <2> QED
      BY <1>2, <1>3, <2>1, <2>2 DEF Disciplined
  <1>5. /\ media' = [m \in Tables |-> media'[m]]
        /\ \A m \in Tables : \A i \in DOMAIN media'[m] : i \in DOMAIN media[m] \/ i = id[o]
    <2>0. ASSUME NEW g, NEW h, NEW j \in DOMAIN Kept(g, id[o], h) PROVE j \in DOMAIN g \/ j = id[o]
      <3>1. DOMAIN Put(g, id[o], h) = DOMAIN g \cup {id[o]}
        BY DEF Put
      <3> QED
        BY <3>1 DEF Kept
    <2>1. \A m : m \in Tables <=> m \in {"handler", "config", "reporter"}
      BY DEF Tables
    <2>2. media = [m \in Tables |-> media[m]]
      BY <1>3 DEF DataTyped
    <2>3. CASE Packetize(t)
      <3>1. PICK h : media' = [media EXCEPT !.handler = Kept(@, id[o], h), !.config = Kept(@, id[o], h)]
        BY <2>3 DEF Packetize
      <3>2. /\ media' = [m \in Tables |-> media'[m]]
            /\ media'["handler"] = Kept(media["handler"], id[o], h)
            /\ media'["config"] = Kept(media["config"], id[o], h)
            /\ media'["reporter"] = media["reporter"]
        BY <2>1, <2>2, <3>1
      <3> QED
        BY <2>0, <2>1, <3>2
    <2>4. CASE Chain(t)
      <3>1. \/ media' = media
            \/ media' = [media EXCEPT !.reporter = Kept(@, id[o], media.config[id[o]])]
        BY <2>4 DEF Chain
      <3>2. CASE media' = media
        BY <2>2, <3>2
      <3>3. CASE media' = [media EXCEPT !.reporter = Kept(@, id[o], media.config[id[o]])]
        <4>1. /\ media' = [m \in Tables |-> media'[m]]
              /\ media'["handler"] = media["handler"] /\ media'["config"] = media["config"]
              /\ media'["reporter"] = Kept(media["reporter"], id[o], media.config[id[o]])
          BY <2>1, <2>2, <3>3
        <4> QED
          BY <2>0, <2>1, <4>1
      <3> QED
        BY <3>1, <3>2, <3>3
    <2> QED
      BY <2>3, <2>4
  <1>6. UNCHANGED <<plan, lastId, id, table, deleted, mIsClosed, alive, userPointer, init, mIsOpen, known,
                    net, tasks, mutex, cb, stored, pending, mRecvQueue>>
    BY DEF Packetize, Chain, env, io, tables, app, slots, chan, life
  <1>7. PushOK(t, fs) /\ IsSeq(fs) /\ 1..Len(fs) = {}
    BY NoFrames, TamePush, EmptyIs
  <1>8. Moves(t, fs)
    BY <1>1, GoMoves
  <1> HIDE DEF fs
  <1>9. \A q \in Objects : Safe(q)' => Safe(q)
    BY <1>3, <1>6, <1>7, <1>8, SafeKept
  <1>10. \A s \in Objects : KindOf[s] = "server" /\ Quiet(s) => Quiet(s)'
    BY <1>3, <1>6, <1>7, <1>8, QuietKept
  <1>11. \A q \in Objects : ~NamedBy(t, q)
    BY <1>1, <1>3, <1>7, <1>8, PushedFrames
  <1>12. Stacks' /\ Numbered' /\ Handled' /\ Disciplined' /\ Erasing' /\ ToldOf'
    <2>1. /\ \A q \in Objects : init[q] # {} => init'[q] # {}
          /\ \A q \in Objects : KindOf[q] \in {"pc", "server"} /\ mIsOpen'[q] => id[q] # 0
      BY <1>3, <1>6 DEF Handled
    <2>2. \A m \in Tables : \A i \in DOMAIN media'[m] :
             \E q \in Objects : KindOf[q] = "track" /\ Registered(q) /\ i = id[q]
      BY <1>2, <1>3, <1>4, <1>5 DEF Numbered
    <2> QED
      BY <1>1, <1>6, <1>7, <1>8, <1>9, <1>10, <1>11, <2>1, <2>2, StableStep
  <1>13. Once'
    <2>1. \A u \in Threads, q \in Objects :
             (AnnouncedBy(u, q)' => AnnouncedBy(u, q)) /\ (NamedBy(u, q)' => NamedBy(u, q))
      BY <1>3, <1>7, <1>8, PushedFrames
    <2>2. \A u \in Threads, q \in Objects : NamedBy(u, q) => id[q] \notin known
      BY <1>3 DEF Once
    <2>3. /\ \A q \in Objects : Offered(q)' => Offered(q)
          /\ \A i \in 1..Len(net') : Announces(net'[i]) => Announced
      BY <1>3, <1>6 DEF Once, Offered
    <2> QED
      BY <1>3, <1>6, <2>1, <2>2, <2>3, OnceKept
  <1>14. DataTyped' /\ SlotsTyped'
    BY <1>3, <1>5, <1>6 DEF DataTyped, SlotsTyped
  <1> QED
    BY <1>12, <1>13, <1>14 DEF Inv

\* Steps that push tame frames, and may change what waits to be announced.
LEMMA StableTame ==
    ASSUME Inv, NEW t \in Threads, NEW fs, IsSeq(fs), \A i \in 1..Len(fs) : Tame(fs[i]), Moves(t, fs),
           ~At(t, "stop"), stack[t] = <<>> \/ ~Naming(Top(t)),
           UNCHANGED <<plan, lastId, id, table, userPointer, media, known, deleted, mIsClosed, alive>>,
           \A o \in Objects : init[o] # {} => init'[o] # {},
           \A o \in Objects : KindOf[o] \in {"pc", "server"} /\ mIsOpen'[o] => id[o] # 0
    PROVE  /\ Stacks' /\ Numbered' /\ Handled' /\ Disciplined' /\ Erasing' /\ ToldOf'
           /\ \A u \in Threads, o \in Objects :
                 (AnnouncedBy(u, o)' => AnnouncedBy(u, o)) /\ (NamedBy(u, o)' => NamedBy(u, o))
  <1>1. Stacks /\ DataTyped /\ Numbered
    BY DEF Inv
  <1>2. \A i \in 1..Len(fs) : /\ Proper(fs[i]) /\ ~Announcing(fs[i]) /\ ~Naming(fs[i])
                              /\ \A q \in Objects : Further(fs[i], q) => Safe(q)
    BY <1>1, TameProper
  <1>3. PushOK(t, fs)
    BY TamePush
  <1>4. \A q \in Objects : Safe(q)' => Safe(q)
    BY <1>1, <1>2, SafeKept
  <1>5. \A s \in Objects : KindOf[s] = "server" /\ Quiet(s) => Quiet(s)'
    <2>1. \A s \in Objects : \A i \in 1..Len(fs) : ~Of(fs[i], s)
      BY <1>2 DEF Of
    <2> QED
      BY <1>1, <2>1, QuietKept
  <1>6. \A q \in Objects : ~NamedBy(t, q)
    <2>1. CASE stack[t] = <<>>
      <3>1. 1..Len(stack[t]) = {}
        BY <2>1, EmptyIs
      <3> QED
        BY <3>1 DEF NamedBy, FramesIn
    <2>2. CASE stack[t] # <<>>
      BY <1>1, <2>2, PushedFrames
    <2> QED
      BY <2>1, <2>2
  <1>7. Stacks' /\ Numbered' /\ Handled' /\ Disciplined' /\ Erasing' /\ ToldOf'
    <2>1. \A m \in Tables : \A i \in DOMAIN media'[m] :
             \E q \in Objects : KindOf[q] = "track" /\ Registered(q) /\ i = id[q]
      BY <1>1 DEF Numbered
    <2> QED
      BY <1>2, <1>3, <1>4, <1>5, <1>6, <2>1, StableStep
  <1>8. \A u \in Threads, o \in Objects :
           (AnnouncedBy(u, o)' => AnnouncedBy(u, o)) /\ (NamedBy(u, o)' => NamedBy(u, o))
    BY <1>1, <1>2, PushedFrames
  <1> QED
    BY <1>7, <1>8

\* triggerDataChannel: the channel that its OPEN made waits to be announced.
LEMMA TriggerLibInv ==
    ASSUME Inv, NEW t \in Threads, Trigger(t), cb[Top(t).o][Top(t).ev] = "lib"
    PROVE  Inv'
  <1>0. PICK o : o = Top(t).o
    OBVIOUS
  <1> DEFINE pc == Owner[o]
             ev == Top(t).ev
  <1>1. stack[t] # <<>> /\ ~Naming(Top(t)) /\ Top(t).op = "trigger" /\ ~At(t, "stop")
    BY DEF Trigger, At, Top, Naming
  <1>2. o \in Objects /\ ev \in ToSet(Slots(KindOf[o]))
    BY <1>0, <1>1, TopIs DEF FrameOK
  <1>3. Stacks /\ Once /\ DataTyped /\ SlotsTyped /\ Handled
    BY DEF Inv
  <1>4. ev = "open" /\ KindOf[o] = "dc" /\ Offered(o) /\ o \in Channels
    BY <1>0, <1>2, <1>3 DEF SlotsTyped, Offered, Channels
  <1>5. pc \in Objects /\ KindOf[pc] = "pc"
    BY <1>2, <1>4, SlotsAre
  <1>6. None # "lib" /\ None # "app" /\ "lib" # "app"
    BY CapiAssumption
  <1>7. /\ cb' = [cb EXCEPT ![o].open = None]
        /\ pending' = [pending EXCEPT ![pc] = Append(@, o)]
        /\ Go(t, <<F("announce", pc, None, None), F("in", o, ev, None)>>)
        /\ stored' = stored
    BY <1>0, <1>6 DEF Trigger
  <1>8. PICK fs : IsSeq(fs) /\ (\A i \in 1..Len(fs) : Tame(fs[i])) /\ Go(t, fs)
    BY <1>2, <1>5, <1>7, SimpleTame, TwoFrames
  <1>9. /\ UNCHANGED <<plan, lastId, id, table, userPointer, media, known, deleted, mIsClosed, alive, init,
                       mIsOpen, net, tasks, mutex, mRecvQueue>>
    BY DEF Trigger, env, io, tables, handlers, app, life
  <1>10. Moves(t, fs)
    BY <1>1, <1>8, GoMoves
  <1>11. /\ Stacks' /\ Numbered' /\ Handled' /\ Disciplined' /\ Erasing' /\ ToldOf'
         /\ \A u \in Threads, q \in Objects :
               (AnnouncedBy(u, q)' => AnnouncedBy(u, q)) /\ (NamedBy(u, q)' => NamedBy(u, q))
    <2>1. /\ \A q \in Objects : init[q] # {} => init'[q] # {}
          /\ \A q \in Objects : KindOf[q] \in {"pc", "server"} /\ mIsOpen'[q] => id[q] # 0
      BY <1>3, <1>9 DEF Handled
    <2> QED
      BY <1>1, <1>8, <1>9, <1>10, <2>1, StableTame
  <1>12. \A q \in Objects : Offered(q)' => Offered(q) /\ q # o
    <2>1. cb = [q \in Objects |-> [e \in ToSet(Slots(KindOf[q])) |-> cb[q][e]]]
      BY <1>3 DEF SlotsTyped
    <2>2. cb' = [q \in Objects |-> [e \in ToSet(Slots(KindOf[q])) |->
                    IF q = o /\ e = "open" THEN None ELSE cb[q][e]]]
      BY <1>2, <1>4, <1>7, <2>1
    <2>3. \A q \in Objects : KindOf[q] = "dc" => "open" \in ToSet(Slots(KindOf[q]))
      BY OpenSlots DEF Channels
    <2> QED
      BY <1>6, <2>2, <2>3 DEF Offered
  <1>13. /\ ~Waiting(o)
         /\ IsSeq(pending[pc]) /\ pending = [q \in Objects |-> pending[q]]
         /\ \A i \in 1..Len(pending[pc]) : pending[pc][i] # o
    BY <1>2, <1>3, <1>4, <1>5 DEF Once, SlotsTyped, Waiting
  <1>14. /\ IsSeq(pending'[pc]) /\ Len(pending[pc]) \in Nat /\ Len(pending'[pc]) = Len(pending[pc]) + 1
         /\ \A i \in 1..Len(pending[pc]) : pending'[pc][i] = pending[pc][i]
         /\ pending'[pc][Len(pending[pc]) + 1] = o
         /\ \A q \in Objects : q # pc => pending'[q] = pending[q]
         /\ pending' = [q \in Objects |-> pending'[q]]
    <2>1. pending'[pc] = Append(pending[pc], o)
      BY <1>5, <1>7, <1>13
    <2>2. (\A q \in Objects : q # pc => pending'[q] = pending[q]) /\ pending' = [q \in Objects |-> pending'[q]]
      BY <1>5, <1>7, <1>13
    <2> QED
      BY <1>13, <2>1, <2>2, AppendIs
  <1>15. \A i \in 1..Len(pending'[pc]) : i \in 1..Len(pending[pc]) \/ i = Len(pending[pc]) + 1
    BY <1>14
  <1>16. \A q \in Objects : Waiting(q)' => Waiting(q) \/ q = o
    <2> SUFFICES ASSUME NEW q \in Objects, Waiting(q)' PROVE Waiting(q) \/ q = o
      OBVIOUS
    <2>1. PICK p \in Objects : \E i \in 1..Len(pending'[p]) : pending'[p][i] = q
      BY DEF Waiting
    <2>2. PICK i \in 1..Len(pending'[p]) : pending'[p][i] = q
      BY <2>1
    <2>3. CASE p = pc
      BY <1>5, <1>14, <1>15, <2>2, <2>3 DEF Waiting
    <2>4. CASE p # pc
      BY <1>14, <2>2, <2>4 DEF Waiting
    <2> QED
      BY <2>3, <2>4
  <1>17. SlotsTyped'
    <2>0. cb = [q \in Objects |-> [e \in ToSet(Slots(KindOf[q])) |-> cb[q][e]]]
      BY <1>3 DEF SlotsTyped
    <2>1. cb' = [q \in Objects |-> [e \in ToSet(Slots(KindOf[q])) |->
                    IF q = o /\ e = "open" THEN None ELSE cb[q][e]]]
      BY <1>2, <1>4, <1>7, <2>0
    <2>2. /\ cb' = [q \in Objects |-> [e \in ToSet(Slots(KindOf[q])) |-> cb'[q][e]]]
          /\ \A q \in Objects : \A e \in ToSet(Slots(KindOf[q])) :
                cb'[q][e] \in {None, "app", "lib"} /\ (cb'[q][e] = "lib" => e = "open" /\ KindOf[q] = "dc")
      BY <1>3, <1>6, <2>1 DEF SlotsTyped
    <2>3. \A q \in Objects : IsSeq(pending'[q])
      BY <1>3, <1>14 DEF SlotsTyped
    <2> QED
      BY <1>3, <1>7, <1>9, <1>14, <2>2, <2>3 DEF SlotsTyped
  <1>18. Once'
    <2>1. ASSUME NEW p \in Objects, NEW i \in 1..Len(pending'[p])
          PROVE  /\ pending'[p][i] \in Objects
                 /\ KindOf[pending'[p][i]] = "dc" /\ Owner[pending'[p][i]] = p
                 /\ \A j \in 1..Len(pending'[p]) : pending'[p][i] = pending'[p][j] => i = j
      <3>1. CASE p = pc
        <4>1. /\ \A k \in 1..Len(pending[pc]) :
                    /\ pending[pc][k] \in Objects
                    /\ KindOf[pending[pc][k]] = "dc" /\ Owner[pending[pc][k]] = pc
                    /\ \A j \in 1..Len(pending[pc]) : pending[pc][k] = pending[pc][j] => k = j
          BY <1>3, <1>5 DEF Once
        <4> QED
          BY <1>2, <1>4, <1>13, <1>14, <1>15, <3>1, <4>1
      <3>2. CASE p # pc
        BY <1>3, <1>14, <3>2 DEF Once
      <3> QED
        BY <3>1, <3>2
    <2>2. ASSUME NEW q \in Objects
          PROVE  /\ Coming(q)' => /\ id[q] = 0 /\ id[Owner[q]] # 0 /\ Owner[q] # q
                                  /\ KindOf[q] = "dc" => init[q] # {}
                                  /\ Announced
                 /\ Offered(q)' => ~Waiting(q)'
                 /\ \A u \in Threads : AnnouncedBy(u, q)' =>
                       ~Offered(q)' /\ ~Waiting(q)' /\ \A v \in Threads : AnnouncedBy(v, q)' => u = v
                 /\ \A u \in Threads : NamedBy(u, q)' =>
                       /\ Registered(q) /\ id[q] \notin known
                       /\ \A v \in Threads : NamedBy(v, q)' => u = v
      <3>1. Coming(q)' => Coming(q)
        BY <1>4, <1>11, <1>12, <1>16 DEF Coming
      <3>2. Offered(q)' => ~Waiting(q)'
        BY <1>3, <1>12, <1>16 DEF Once
      <3>3. \A u \in Threads : AnnouncedBy(u, q)' =>
               ~Offered(q)' /\ ~Waiting(q)' /\ \A v \in Threads : AnnouncedBy(v, q)' => u = v
        BY <1>3, <1>4, <1>11, <1>12, <1>16 DEF Once
      <3>4. \A u \in Threads : NamedBy(u, q)' =>
                       /\ Registered(q) /\ id[q] \notin known
                       /\ \A v \in Threads : NamedBy(v, q)' => u = v
        BY <1>3, <1>11 DEF Once
      <3> QED
        BY <1>3, <3>1, <3>2, <3>3, <3>4 DEF Once
    <2>3. Announced' = Announced /\ \A q : Registered(q)' = Registered(q)
      BY <1>9 DEF Announced, Registered
    <2>4. \A i \in 1..Len(net') : Announces(net'[i]) => Announced
      BY <1>3, <1>9 DEF Once
    <2> QED
      BY <1>9, <2>1, <2>2, <2>3, <2>4 DEF Once
  <1>19. DataTyped'
    BY <1>3, <1>9 DEF DataTyped
  <1> QED
    BY <1>11, <1>17, <1>18, <1>19 DEF Inv

\* triggerPendingDataChannels: the first that waits is announced.
LEMMA AnnounceInv == ASSUME Inv, NEW t \in Threads, Announce(t) PROVE Inv'
  <1>0. PICK o : o = Top(t).o
    OBVIOUS
  <1>1. stack[t] # <<>> /\ ~Naming(Top(t)) /\ Top(t).op = "announce" /\ Top(t).op # "stop" /\ ~At(t, "stop")
        /\ ~Announcing(Top(t))
    BY DEF Announce, At, Top, Naming, Announcing
  <1>2. o \in Objects /\ FrameOK(Top(t)) /\ FrameFrom(t, Top(t))
    BY <1>0, <1>1, TopIs DEF FrameOK
  <1>3. Stacks /\ Once /\ DataTyped /\ SlotsTyped /\ Handled /\ Numbered
    BY DEF Inv
  <1>4. UNCHANGED <<env, io, tables, handlers, app, cb, stored, mIsOpen, mIsClosed, mRecvQueue, life>>
    BY DEF Announce, slots
  <1>5. CASE Go(t, <<>>) /\ pending' = pending
    <2>1. SlotsTyped'
      BY <1>3, <1>4, <1>5 DEF SlotsTyped
    <2> QED
      BY <1>1, <1>4, <1>5, <2>1, NoFrames, OnlyFrames DEF app
  <1>6. CASE /\ pending[o] # <<>>
             /\ pending' = [pending EXCEPT ![o] = Tail(@)]
             /\ Go(t, <<F("trigger", o, "announce", Head(pending[o])),
                        F("opened", Head(pending[o]), None, None), Top(t)>>)
    <2>1. PICK new : new = Head(pending[o])
      OBVIOUS
    <2> DEFINE a == F("trigger", o, "announce", new)
               b == F("opened", new, None, None)
    <2>2. /\ IsSeq(pending[o]) /\ IsSeq(Tail(pending[o])) /\ Len(pending[o]) \in Nat \ {0}
          /\ Len(Tail(pending[o])) = Len(pending[o]) - 1
          /\ new = pending[o][1] /\ 1 \in 1..Len(pending[o])
          /\ \A i \in 1..Len(pending[o]) - 1 : Tail(pending[o])[i] = pending[o][i + 1]
      BY <1>2, <1>3, <1>6, <2>1, TailIs DEF SlotsTyped
    <2>3. new \in Objects /\ KindOf[new] = "dc" /\ Owner[new] = o /\ Waiting(new)
      BY <1>2, <1>3, <2>2 DEF Once, Waiting
    <2>4. KindOf[o] = "pc" /\ "announce" \in ToSet(Slots(KindOf[o])) /\ o # new /\ new \in Channels
      BY <1>2, <2>3, SlotsAre
    <2>5. Coming(new) /\ Announced
      BY <1>3, <2>3 DEF Once, Coming
    <2>6. /\ UNCHANGED <<plan, lastId, id, table, userPointer, media, known, deleted, mIsClosed, alive, init,
                         mIsOpen, net, tasks, mutex, cb, stored, mRecvQueue>>
      BY <1>4 DEF env, io, tables, handlers, app, life
    <2>7. /\ FrameOK(a) /\ FrameFrom(t, a) /\ a.op = "trigger" /\ Announcing(a) /\ ~Naming(a) /\ a.x = new
          /\ a.o = o
      BY <1>2, <2>3, <2>4, <2>5 DEF FrameOK, FrameFrom, Announcing, Naming, F
    <2>8. Tame(b)
      BY <2>3, <2>4, SimpleTame
    <2>9. Tame(Top(t))
      BY <1>1, <1>2 DEF Tame, Late, Naming
    <2> DEFINE fs == <<a, b, Top(t)>>
    <2>10. Go(t, fs)
      BY <1>6, <2>1
    <2> HIDE DEF a, b
    <2>11. IsSeq(fs) /\ Len(fs) = 3 /\ fs[1] = a /\ fs[2] = b /\ fs[3] = Top(t)
      BY ThreeIs
    <2> HIDE DEF fs
    <2>12. \A i \in 1..Len(fs) : (i = 1 /\ fs[i] = a) \/ (i \in 2..Len(fs) /\ Tame(fs[i]))
      <3> TAKE i \in 1..Len(fs)
      <3>1. i = 1 \/ i = 2 \/ i = 3
        BY <2>11
      <3> QED
        BY <2>8, <2>9, <2>11, <3>1
    <2>13. PushOK(t, fs)
      <3> SUFFICES ASSUME NEW i \in 1..Len(fs)
                   PROVE  /\ FrameOK(fs[i]) /\ FrameFrom(t, fs[i])
                          /\ i \in 2..Len(fs) => ~Late(fs[i])
                          /\ fs[i].op = "body" => \E k \in DOMAIN plan.body : RestOf(fs[i].rest, plan.body[k])
                          /\ fs[i].op # "erase"
        BY <2>11 DEF PushOK
      <3>1. CASE i = 1 /\ fs[i] = a
        <4>1. ~(i \in 2..Len(fs))
          BY <3>1
        <4> QED
          BY <2>7, <3>1, <4>1
      <3>2. CASE Tame(fs[i])
        BY <3>2 DEF Tame, FrameFrom, Late
      <3> QED
        BY <2>12, <3>1, <3>2
    <2>14. \A i \in 1..Len(fs) : /\ Proper(fs[i]) /\ ~Naming(fs[i])
                                 /\ Announcing(fs[i]) => fs[i] = a
                                 /\ \A q \in Objects : Further(fs[i], q) => Safe(q)
      <3>1. Proper(a) /\ \A q \in Objects : ~Further(a, q)
        BY <2>7 DEF Proper, Further, Ending
      <3> TAKE i \in 1..Len(fs)
      <3>2. CASE fs[i] = a
        BY <2>7, <3>1, <3>2
      <3>3. CASE Tame(fs[i])
        BY <1>3, <3>3, TameProper
      <3> QED
        BY <2>12, <3>2, <3>3
    <2>15. Moves(t, fs)
      BY <1>1, <2>10, GoMoves
    <2>16. \A q \in Objects : Safe(q)' => Safe(q)
      BY <1>3, <2>6, <2>11, <2>14, <2>15, SafeKept
    <2>17. \A s \in Objects : KindOf[s] = "server" /\ Quiet(s) => Quiet(s)'
      <3>1. ASSUME NEW s \in Objects, KindOf[s] = "server", NEW i \in 1..Len(fs) PROVE ~Of(fs[i], s)
        <4>1. s # o
          BY <2>4, <3>1
        <4> QED
          BY <2>7, <2>14, <4>1 DEF Of
      <3> QED
        BY <1>3, <2>6, <2>11, <2>15, <3>1, QuietKept
    <2>18. /\ \A q \in Objects : ~NamedBy(t, q)
           /\ \A u \in Threads, q \in Objects : NamedBy(u, q)' => NamedBy(u, q)
           /\ \A u \in Threads, q \in Objects :
                 AnnouncedBy(u, q)' => (u # t /\ AnnouncedBy(u, q)) \/ (u = t /\ q = new)
      BY <1>1, <1>3, <2>7, <2>11, <2>14, <2>15, PushedFrames
    <2>19. Stacks' /\ Numbered' /\ Handled' /\ Disciplined' /\ Erasing' /\ ToldOf'
      <3>1. /\ \A q \in Objects : init[q] # {} => init'[q] # {}
            /\ \A q \in Objects : KindOf[q] \in {"pc", "server"} /\ mIsOpen'[q] => id[q] # 0
            /\ \A m \in Tables : \A i \in DOMAIN media'[m] :
                  \E q \in Objects : KindOf[q] = "track" /\ Registered(q) /\ i = id[q]
        BY <1>3, <2>6 DEF Handled, Numbered
      <3> QED
        BY <1>1, <2>6, <2>13, <2>14, <2>15, <2>16, <2>17, <2>18, <3>1, StableStep
    <2>20. /\ \A q \in Objects : q # o => pending'[q] = pending[q]
           /\ pending'[o] = Tail(pending[o]) /\ pending' = [q \in Objects |-> pending'[q]]
      <3>1. pending = [q \in Objects |-> pending[q]]
        BY <1>3 DEF SlotsTyped
      <3> QED
        BY <1>2, <1>6, <3>1
    <2>21. /\ IsSeq(pending'[o]) /\ Len(pending'[o]) = Len(pending[o]) - 1
           /\ \A i \in 1..Len(pending'[o]) :
                 i + 1 \in 1..Len(pending[o]) /\ pending'[o][i] = pending[o][i + 1] /\ i + 1 # 1
      BY <2>2, <2>20
    <2>22. \A q \in Objects : Waiting(q)' => Waiting(q) /\ q # new
      <3> SUFFICES ASSUME NEW q \in Objects, Waiting(q)' PROVE Waiting(q) /\ q # new
        OBVIOUS
      <3>1. PICK p \in Objects : \E i \in 1..Len(pending'[p]) : pending'[p][i] = q
        BY DEF Waiting
      <3>2. PICK i \in 1..Len(pending'[p]) : pending'[p][i] = q
        BY <3>1
      <3>3. CASE p = o
        <4>1. i + 1 \in 1..Len(pending[o]) /\ pending[o][i + 1] = q /\ i + 1 # 1
          BY <2>21, <3>2, <3>3
        <4>2. q # new
          BY <1>2, <1>3, <2>2, <4>1 DEF Once
        <4> QED
          BY <1>2, <4>1, <4>2 DEF Waiting
      <3>4. CASE p # o
        <4>1. i \in 1..Len(pending[p]) /\ pending[p][i] = q
          BY <2>20, <3>2, <3>4
        <4>2. Owner[q] = p
          BY <1>3, <4>1 DEF Once
        <4> QED
          BY <2>3, <3>4, <4>1, <4>2 DEF Waiting
      <3> QED
        BY <3>3, <3>4
    <2>23. \A q \in Objects : Offered(q)' => Offered(q)
      BY <2>6 DEF Offered
    <2>24. Once'
      <3>1. ASSUME NEW p \in Objects, NEW i \in 1..Len(pending'[p])
            PROVE  /\ pending'[p][i] \in Objects
                   /\ KindOf[pending'[p][i]] = "dc" /\ Owner[pending'[p][i]] = p
                   /\ \A j \in 1..Len(pending'[p]) : pending'[p][i] = pending'[p][j] => i = j
        <4>1. /\ \A k \in 1..Len(pending[p]) :
                    /\ pending[p][k] \in Objects
                    /\ KindOf[pending[p][k]] = "dc" /\ Owner[pending[p][k]] = p
                    /\ \A j \in 1..Len(pending[p]) : pending[p][k] = pending[p][j] => k = j
          BY <1>3 DEF Once
        <4>2. CASE p = o
          <5>1. pending'[p][i] = pending[p][i + 1] /\ i + 1 \in 1..Len(pending[p])
            BY <2>21, <3>1, <4>2
          <5>2. ASSUME NEW j \in 1..Len(pending'[p]), pending'[p][i] = pending'[p][j] PROVE i = j
            <6>1. pending'[p][j] = pending[p][j + 1] /\ j + 1 \in 1..Len(pending[p])
              BY <2>21, <4>2, <5>2
            <6>2. i + 1 = j + 1
              BY <4>1, <5>1, <5>2, <6>1
            <6>3. i \in Int /\ j \in Int
              BY <2>2, <2>21, <4>2
            <6> QED
              BY <6>2, <6>3
          <5> QED
            BY <4>1, <5>1, <5>2
        <4>3. CASE p # o
          BY <2>20, <4>1, <4>3
        <4> QED
          BY <4>2, <4>3
      <3>2. ASSUME NEW q \in Objects
            PROVE  /\ Coming(q)' => /\ id[q] = 0 /\ id[Owner[q]] # 0 /\ Owner[q] # q
                                    /\ KindOf[q] = "dc" => init[q] # {}
                                    /\ Announced
                   /\ Offered(q)' => ~Waiting(q)'
                   /\ \A u \in Threads : AnnouncedBy(u, q)' =>
                         ~Offered(q)' /\ ~Waiting(q)' /\ \A v \in Threads : AnnouncedBy(v, q)' => u = v
                   /\ \A u \in Threads : NamedBy(u, q)' =>
                         /\ Registered(q) /\ id[q] \notin known
                         /\ \A v \in Threads : NamedBy(v, q)' => u = v
        <4>1. Coming(q)' => Coming(q)
          BY <2>3, <2>18, <2>22, <2>23 DEF Coming
        <4>2. Offered(q)' => ~Waiting(q)'
          BY <1>3, <2>22, <2>23 DEF Once
        <4>3. ~Offered(new) /\ \A u \in Threads : ~AnnouncedBy(u, new)
          BY <1>3, <2>3 DEF Once
        <4>4. \A u \in Threads : AnnouncedBy(u, q)' =>
                 ~Offered(q)' /\ ~Waiting(q)' /\ \A v \in Threads : AnnouncedBy(v, q)' => u = v
          BY <1>3, <2>18, <2>22, <2>23, <4>3 DEF Once
        <4>5. \A u \in Threads : NamedBy(u, q)' =>
                         /\ Registered(q) /\ id[q] \notin known
                         /\ \A v \in Threads : NamedBy(v, q)' => u = v
          BY <1>3, <2>18 DEF Once
        <4> QED
          BY <1>3, <4>1, <4>2, <4>4, <4>5 DEF Once
      <3>3. Announced' = Announced /\ \A q : Registered(q)' = Registered(q)
        BY <2>6 DEF Announced, Registered
      <3>4. \A i \in 1..Len(net') : Announces(net'[i]) => Announced
        BY <1>3, <2>6 DEF Once
      <3> QED
        BY <2>6, <3>1, <3>2, <3>3, <3>4 DEF Once
    <2>25. DataTyped' /\ SlotsTyped'
      <3>1. \A q \in Objects : IsSeq(pending'[q])
        BY <1>3, <2>20, <2>21 DEF SlotsTyped
      <3> QED
        BY <1>3, <2>6, <2>20, <3>1 DEF DataTyped, SlotsTyped
    <2> QED
      BY <2>19, <2>24, <2>25 DEF Inv
  <1> QED
    BY <1>0, <1>5, <1>6 DEF Announce, Return

\* A client of a server with a listener is announced on the thread of the server.
LEMMA AcceptInv == ASSUME Inv, Accept PROVE Inv'
  <1>0. PICK x, s : x = Head(net)[2] /\ s = Owner[x]
    OBVIOUS
  <1>1. Server \in Threads
    BY DEF Threads
  <1>2. /\ stack[Server] = <<>> /\ net # <<>> /\ Head(net)[1] = "client" /\ net' = Tail(net)
        /\ ~mIsClosed[s] /\ alive[s] = "alive" /\ Fresh(x)
    BY <1>0 DEF Accept, Ready
  <1>3. x \in Objects /\ KindOf[x] = "ws" /\ s # x /\ s \in Objects /\ KindOf[s] = "server" /\ Announced
    <2>1. EventOK(Head(net)) /\ Announced
      BY <1>2, NetTail DEF Announces
    <2> QED
      BY <1>0, <1>2, <2>1, SlotsAre DEF EventOK
  <1>4. Stacks /\ Once /\ DataTyped /\ SlotsTyped /\ Handled /\ Numbered /\ Erasing
    BY DEF Inv
  <1>5. id[s] # 0 /\ id[x] = 0
    BY <1>2, <1>3, <1>4 DEF Handled, Fresh
  <1>6. UNCHANGED <<plan, lastId, id, table, userPointer, media, known, deleted, mIsClosed, alive, init,
                    mIsOpen, tasks, mutex, cb, stored, pending, mRecvQueue>>
    BY DEF Accept, env, tables, handlers, app, slots, chan, life
  <1>7. /\ IsSeq(net') /\ \A i \in 1..Len(net') : EventOK(net'[i])
        /\ \A i \in 1..Len(net') : Announces(net'[i]) => Announced
    BY <1>2, NetTail
  <1>8. DataTyped' /\ SlotsTyped'
    BY <1>4, <1>6, <1>7 DEF DataTyped, SlotsTyped
  <1>9. /\ \A o \in Objects : init[o] # {} => init'[o] # {}
        /\ \A o \in Objects : KindOf[o] \in {"pc", "server"} /\ mIsOpen'[o] => id[o] # 0
        /\ \A m \in Tables : \A i \in DOMAIN media'[m] :
              \E o \in Objects : KindOf[o] = "track" /\ Registered(o) /\ i = id[o]
    BY <1>4, <1>6 DEF Handled, Numbered
  <1>10. CASE stack' = [stack EXCEPT ![Server] = <<>>]
    <2>1. UNCHANGED <<tabled, alive, mIsClosed, deleted, pending, cb>>
      BY <1>6 DEF tabled
    <2> QED
      BY <1>1, <1>2, <1>7, <1>8, <1>9, <1>10, <2>1, NoFrames, EmptyInv
  <1>11. CASE stack' = [stack EXCEPT ![Server] = <<F("trigger", s, "announce", x)>>]
    <2> DEFINE f == F("trigger", s, "announce", x)
               fs == <<f>>
    <2>1. stack' = [stack EXCEPT ![Server] = fs]
      BY <1>11
    <2>2. /\ FrameOK(f) /\ FrameFrom(Server, f) /\ f.op = "trigger" /\ Announcing(f) /\ ~Naming(f)
          /\ f.x = x /\ f.o = s
      BY <1>0, <1>3, SlotsAre DEF FrameOK, FrameFrom, Announcing, Naming, F
    <2> HIDE DEF f
    <2>3. PushOK(Server, fs) /\ IsSeq(fs) /\ Len(fs) = 1 /\ fs[1] = f
      BY <2>2, OnePush
    <2> HIDE DEF fs
    <2>4. \A i \in 1..Len(fs) : fs[i] = f
      BY <2>3
    <2>5. Moves(Server, fs) /\ ~At(Server, "stop")
      BY <1>1, <1>2, <2>1, <2>3, EmptyMoves DEF At
    <2>6. Proper(f) /\ \A q \in Objects : ~Further(f, q)
      BY <2>2 DEF Proper, Further, Ending
    <2>7. \A q \in Objects : Safe(q)' => Safe(q)
      BY <1>1, <1>4, <1>6, <2>3, <2>4, <2>5, <2>6, SafeKept
    <2>8. \A q \in Objects : KindOf[q] = "server" /\ Quiet(q) => Quiet(q)'
      <3>1. ASSUME NEW q \in Objects, Quiet(q) PROVE ~Of(f, q)
        BY <1>2, <2>2, <3>1 DEF Quiet, Of
      <3> QED
        BY <1>1, <1>4, <1>6, <2>3, <2>4, <2>5, <3>1, QuietKept
    <2>9. \A q \in Objects : ~NamedBy(Server, q) /\ ~AnnouncedBy(Server, q)
      <3>1. 1..Len(stack[Server]) = {}
        BY <1>2, EmptyIs
      <3> QED
        BY <3>1 DEF NamedBy, AnnouncedBy, FramesIn
    <2>10. /\ \A u \in Threads, q \in Objects : NamedBy(u, q)' => NamedBy(u, q)
           /\ \A u \in Threads, q \in Objects :
                 AnnouncedBy(u, q)' => (u # Server /\ AnnouncedBy(u, q)) \/ (u = Server /\ q = x)
      BY <1>1, <1>4, <2>2, <2>3, <2>4, <2>5, PushedFrames
    <2>11. Stacks' /\ Numbered' /\ Handled' /\ Disciplined' /\ Erasing' /\ ToldOf'
      BY <1>1, <1>6, <1>9, <2>3, <2>4, <2>5, <2>6, <2>7, <2>8, <2>9, StableStep
    <2>12. \A u \in Threads : AnnouncedBy(u, x) => u = Server
      <3> SUFFICES ASSUME NEW u \in Threads, AnnouncedBy(u, x) PROVE u = Server
        OBVIOUS
      <3>1. PICK f2 \in FramesIn(u) : Announcing(f2) /\ f2.x = x
        BY DEF AnnouncedBy
      <3>2. FrameOK(f2) /\ FrameFrom(u, f2)
        BY <1>4 DEF Stacks
      <3> QED
        BY <1>0, <1>3, <3>1, <3>2 DEF FrameOK, FrameFrom
    <2>13. ~Offered(x) /\ ~Waiting(x)
      BY <1>3, <1>4 DEF Offered, Waiting, Once
    <2>14. Once'
      <3>1. \A q \in Objects : (Offered(q)' <=> Offered(q)) /\ (Waiting(q)' <=> Waiting(q))
        BY <1>6 DEF Offered, Waiting
      <3>2. ASSUME NEW q \in Objects
            PROVE  /\ Coming(q)' => /\ id[q] = 0 /\ id[Owner[q]] # 0 /\ Owner[q] # q
                                    /\ KindOf[q] = "dc" => init[q] # {}
                                    /\ Announced
                   /\ Offered(q)' => ~Waiting(q)'
                   /\ \A u \in Threads : AnnouncedBy(u, q)' =>
                         ~Offered(q)' /\ ~Waiting(q)' /\ \A v \in Threads : AnnouncedBy(v, q)' => u = v
                   /\ \A u \in Threads : NamedBy(u, q)' =>
                         /\ Registered(q) /\ id[q] \notin known
                         /\ \A v \in Threads : NamedBy(v, q)' => u = v
        <4>1. Coming(q)' => Coming(q) \/ q = x
          BY <2>10, <3>1 DEF Coming
        <4>2. Coming(q)' => /\ id[q] = 0 /\ id[Owner[q]] # 0 /\ Owner[q] # q
                            /\ KindOf[q] = "dc" => init[q] # {}
                            /\ Announced
          BY <1>0, <1>3, <1>4, <1>5, <4>1 DEF Once
        <4>3. Offered(q)' => ~Waiting(q)'
          BY <1>4, <3>1 DEF Once
        <4>4. \A u \in Threads : AnnouncedBy(u, q)' =>
                 ~Offered(q)' /\ ~Waiting(q)' /\ \A v \in Threads : AnnouncedBy(v, q)' => u = v
          <5>1. CASE q = x
            <6>1. \A u \in Threads : AnnouncedBy(u, q)' => u = Server
              BY <2>10, <2>12, <5>1
            <6> QED
              BY <2>13, <3>1, <5>1, <6>1
          <5>2. CASE q # x
            BY <1>4, <2>10, <3>1, <5>2 DEF Once
          <5> QED
            BY <5>1, <5>2
        <4>5. \A u \in Threads : NamedBy(u, q)' =>
                         /\ Registered(q) /\ id[q] \notin known
                         /\ \A v \in Threads : NamedBy(v, q)' => u = v
          BY <1>4, <2>10 DEF Once
        <4> QED
          BY <4>2, <4>3, <4>4, <4>5
      <3>3. Announced' = Announced /\ \A q : Registered(q)' = Registered(q)
        BY <1>6 DEF Announced, Registered
      <3>4. \A p \in Objects : \A i \in 1..Len(pending'[p]) :
               /\ pending'[p][i] \in Objects
               /\ KindOf[pending'[p][i]] = "dc" /\ Owner[pending'[p][i]] = p
               /\ \A j \in 1..Len(pending'[p]) : pending'[p][i] = pending'[p][j] => i = j
        BY <1>4, <1>6 DEF Once
      <3> QED
        BY <1>6, <1>7, <3>2, <3>3, <3>4 DEF Once
    <2> QED
      BY <1>8, <2>11, <2>14 DEF Inv
  <1> QED
    BY <1>0, <1>10, <1>11 DEF Accept

\* The OPEN of a channel makes it.
LEMMA ReceiveOpenInv == ASSUME Inv, Receive, Head(net)[1] = "OPEN" PROVE Inv'
  <1>0. PICK o, x : o = Head(net)[2] /\ x = {FromOpen(OpenMessage(ReliabilityOf(Head(net)[3])))}
    OBVIOUS
  <1>1. Net \in Threads
    BY DEF Threads
  <1>2. /\ stack[Net] = <<>> /\ net # <<>> /\ net' = Tail(net) /\ mIsOpen[Owner[o]] /\ Fresh(o)
    BY <1>0 DEF Receive, Ready
  <1>3. o \in Objects /\ KindOf[o] = "dc" /\ Owner[o] \in Objects /\ KindOf[Owner[o]] = "pc" /\ Owner[o] # o
        /\ o \in Channels /\ Announced
    <2>1. EventOK(Head(net)) /\ Announced
      BY <1>2, NetTail DEF Announces
    <2> QED
      BY <1>0, <2>1, SlotsAre DEF EventOK
  <1>4. Stacks /\ Once /\ DataTyped /\ SlotsTyped /\ Handled /\ Numbered
    BY DEF Inv
  <1>5. /\ cb' = [cb EXCEPT ![o].open = "lib"]
        /\ init' = [init EXCEPT ![o] = x]
        /\ mIsOpen' = [mIsOpen EXCEPT ![o] = TRUE]
        /\ stack' = [stack EXCEPT ![Net] = <<F("opened", o, None, None)>>]
        /\ UNCHANGED <<plan, lastId, id, table, userPointer, media, known, deleted, mIsClosed, alive,
                       tasks, mutex, stored, pending, mRecvQueue>>
    BY <1>0 DEF Receive, env, tables, handlers, app
  <1>6. PICK fs : IsSeq(fs) /\ (\A i \in 1..Len(fs) : Tame(fs[i])) /\ stack' = [stack EXCEPT ![Net] = fs]
    <2>1. Tame(F("opened", o, None, None))
      BY <1>3, SimpleTame
    <2> QED
      BY <1>5, <2>1, OneFrame
  <1>7. Moves(Net, fs) /\ ~At(Net, "stop")
    BY <1>1, <1>2, <1>6, EmptyMoves DEF At
  <1>8. x # {}
    BY <1>0
  <1>9. /\ init' = [q \in Objects |-> init'[q]] /\ init'[o] # {}
        /\ \A q \in Objects : q # o => init'[q] = init[q]
        /\ mIsOpen' \in [Objects -> BOOLEAN]
        /\ \A q \in Objects : KindOf[q] \in {"pc", "server"} /\ mIsOpen'[q] => id[q] # 0
        /\ id[Owner[o]] # 0
    <2>1. init = [q \in Objects |-> init[q]] /\ mIsOpen \in [Objects -> BOOLEAN]
      BY <1>4 DEF DataTyped
    <2>2. \A q \in Objects : KindOf[q] \in {"pc", "server"} /\ mIsOpen[q] => id[q] # 0
      BY <1>4 DEF Handled
    <2>3. init' = [q \in Objects |-> init'[q]] /\ init'[o] # {} /\ \A q \in Objects : q # o => init'[q] = init[q]
      BY <1>3, <1>5, <1>8, <2>1
    <2>4. /\ mIsOpen' \in [Objects -> BOOLEAN]
          /\ \A q \in Objects : KindOf[q] \in {"pc", "server"} /\ mIsOpen'[q] => id[q] # 0
      BY <1>3, <1>5, <2>1, <2>2
    <2> QED
      BY <1>2, <1>3, <2>2, <2>3, <2>4
  <1>10. /\ Stacks' /\ Numbered' /\ Handled' /\ Disciplined' /\ Erasing' /\ ToldOf'
         /\ \A u \in Threads, q \in Objects :
               (AnnouncedBy(u, q)' => AnnouncedBy(u, q)) /\ (NamedBy(u, q)' => NamedBy(u, q))
    BY <1>1, <1>2, <1>5, <1>6, <1>7, <1>9, StableTame
  <1>11. /\ cb' = [q \in Objects |-> [e \in ToSet(Slots(KindOf[q])) |-> cb'[q][e]]]
         /\ \A q \in Objects : \A e \in ToSet(Slots(KindOf[q])) :
               /\ cb'[q][e] = IF q = o /\ e = "open" THEN "lib" ELSE cb[q][e]
    <2>1. cb = [q \in Objects |-> [e \in ToSet(Slots(KindOf[q])) |-> cb[q][e]]]
      BY <1>4 DEF SlotsTyped
    <2>2. cb' = [q \in Objects |-> [e \in ToSet(Slots(KindOf[q])) |->
                    IF q = o /\ e = "open" THEN "lib" ELSE cb[q][e]]]
      BY <1>3, <1>5, <2>1
    <2> QED
      BY <2>2
  <1>12. \A q \in Objects : Offered(q)' => Offered(q) \/ q = o
    <2>1. \A q \in Objects : KindOf[q] = "dc" => "open" \in ToSet(Slots(KindOf[q]))
      BY OpenSlots DEF Channels
    <2> QED
      BY <1>11, <2>1 DEF Offered
  <1>13. ~Coming(o)
    BY <1>2, <1>3, <1>4 DEF Once, Fresh
  <1>14. id[o] = 0
    BY <1>2, <1>3, <1>4 DEF Handled, Fresh
  <1>15. SlotsTyped'
    <2>1. \A q \in Objects : \A e \in ToSet(Slots(KindOf[q])) :
                cb'[q][e] \in {None, "app", "lib"} /\ (cb'[q][e] = "lib" => e = "open" /\ KindOf[q] = "dc")
      BY <1>3, <1>4, <1>11 DEF SlotsTyped
    <2> QED
      BY <1>4, <1>5, <1>11, <2>1 DEF SlotsTyped
  <1>16. /\ IsSeq(net') /\ \A i \in 1..Len(net') : EventOK(net'[i])
         /\ \A i \in 1..Len(net') : Announces(net'[i]) => Announced
    BY <1>2, NetTail
  <1>17. DataTyped'
    BY <1>4, <1>5, <1>9, <1>16 DEF DataTyped
  <1>18. Once'
    <2>1. \A q \in Objects : Waiting(q)' <=> Waiting(q)
      BY <1>5 DEF Waiting
    <2>2. ASSUME NEW q \in Objects
          PROVE  /\ Coming(q)' => /\ id[q] = 0 /\ id[Owner[q]] # 0 /\ Owner[q] # q
                                  /\ KindOf[q] = "dc" => init'[q] # {}
                                  /\ Announced
                 /\ Offered(q)' => ~Waiting(q)'
                 /\ \A u \in Threads : AnnouncedBy(u, q)' =>
                       ~Offered(q)' /\ ~Waiting(q)' /\ \A v \in Threads : AnnouncedBy(v, q)' => u = v
                 /\ \A u \in Threads : NamedBy(u, q)' =>
                       /\ Registered(q) /\ id[q] \notin known
                       /\ \A v \in Threads : NamedBy(v, q)' => u = v
      <3>0. ~Offered(o) /\ ~Waiting(o) /\ \A u \in Threads : ~AnnouncedBy(u, o)
        BY <1>13 DEF Coming
      <3>1. Coming(q)' => Coming(q) \/ q = o
        BY <1>10, <1>12, <2>1 DEF Coming
      <3>2. Coming(q)' => /\ id[q] = 0 /\ id[Owner[q]] # 0 /\ Owner[q] # q
                          /\ KindOf[q] = "dc" => init'[q] # {}
                          /\ Announced
        BY <1>3, <1>4, <1>9, <1>14, <3>1 DEF Once
      <3>3. Offered(q)' => ~Waiting(q)'
        BY <1>4, <1>12, <2>1, <3>0 DEF Once
      <3>4. \A u \in Threads : AnnouncedBy(u, q)' =>
               ~Offered(q)' /\ ~Waiting(q)' /\ \A v \in Threads : AnnouncedBy(v, q)' => u = v
        BY <1>4, <1>10, <1>12, <2>1, <3>0 DEF Once
      <3>5. \A u \in Threads : NamedBy(u, q)' =>
                       /\ Registered(q) /\ id[q] \notin known
                       /\ \A v \in Threads : NamedBy(v, q)' => u = v
        BY <1>4, <1>10 DEF Once
      <3> QED
        BY <3>2, <3>3, <3>4, <3>5
    <2>3. Announced' = Announced /\ \A q : Registered(q)' = Registered(q)
      BY <1>5 DEF Announced, Registered
    <2>4. \A p \in Objects : \A i \in 1..Len(pending'[p]) :
             /\ pending'[p][i] \in Objects
             /\ KindOf[pending'[p][i]] = "dc" /\ Owner[pending'[p][i]] = p
             /\ \A j \in 1..Len(pending'[p]) : pending'[p][i] = pending'[p][j] => i = j
      BY <1>4, <1>5 DEF Once
    <2> QED
      BY <1>5, <1>16, <2>2, <2>3, <2>4 DEF Once
  <1> QED
    BY <1>10, <1>15, <1>17, <1>18 DEF Inv

-----------------------------------------------------------------------------
\* The calls of the application.
LEMMA RestPlace ==
    ASSUME NEW r, NEW s, IsSeq(r), IsSeq(s), RestOf(r, s), NEW j \in 1..Len(r)
    PROVE  Len(s) - Len(r) + j \in 1..Len(s) /\ r[j] = s[Len(s) - Len(r) + j]
  <1>1. Len(r) \in Nat /\ Len(s) \in Nat /\ Len(r) <= Len(s)
    BY DEF IsSeq, RestOf
  <1> QED
    BY <1>1 DEF RestOf

\* Where the calls of a frame stand in the plan.
LEMMA CallFrom ==
    ASSUME Inv, NEW t \in Threads, NEW i \in 1..Len(stack[t]), stack[t][i].op = "body"
    PROVE  \E s : /\ IsSeq(stack[t][i].rest) /\ stack[t][i].rest # <<>>
                  /\ IsSeq(s) /\ RestOf(stack[t][i].rest, s)
                  /\ \/ t \in App /\ i = Len(stack[t]) /\ s = plan.calls[t]
                     \/ \E k \in DOMAIN plan.body : s = plan.body[k]
  <1>1. stack[t][i] \in FramesIn(t)
    BY DEF FramesIn
  <1>2. IsSeq(stack[t][i].rest) /\ stack[t][i].rest # <<>> /\ BodyFrom(t, i)
    BY <1>1 DEF Inv, Stacks, FrameOK
  <1>3. plan \in Plans
    BY DEF Inv, DataTyped
  <1> QED
    BY <1>2, <1>3, PlansAssumption DEF BodyFrom

\* While a call that ends what is kept under a handle begins, no other call that
\* keeps something there is to come.
LEMMA EndsUnsafe ==
    ASSUME Inv, NEW t \in Threads, At(t, "body"), NEW o \in Objects, Ends(Head(Top(t).rest), o)
    PROVE  ~Safe(o)
  <1>1. Stacks /\ DataTyped /\ plan \in Plans
    BY DEF Inv, DataTyped
  <1>2. stack[t] # <<>> /\ Top(t) = stack[t][1] /\ 1 \in 1..Len(stack[t]) /\ stack[t][1].op = "body"
    BY <1>1, BelowIs DEF At, Top
  <1>3. PICK r : r = stack[t][1].rest
    OBVIOUS
  <1>4. PICK s : /\ IsSeq(r) /\ r # <<>> /\ IsSeq(s) /\ RestOf(r, s)
                 /\ \/ t \in App /\ 1 = Len(stack[t]) /\ s = plan.calls[t]
                    \/ \E k \in DOMAIN plan.body : s = plan.body[k]
    BY <1>2, <1>3, CallFrom
  <1>5. Head(r) = r[1] /\ Len(r) \in Nat \ {0}
    BY <1>4, TailIs
  <1>6. PICK n \in 1..Len(s) : Ends(s[n], o) /\ n = Len(s) - Len(r) + 1
    <2>1. 1 \in 1..Len(r)
      BY <1>5
    <2>2. Ends(r[1], o)
      BY <1>2, <1>3, <1>5
    <2> QED
      BY <1>4, <2>1, <2>2, RestPlace
  <1>7. Some(plan, App, LAMBDA c : Ends(c, o))
    <2>1. In(s, LAMBDA c : Ends(c, o))
      BY <1>6 DEF In
    <2> QED
      BY <1>4, <2>1 DEF Some
  <1> SUFFICES ASSUME Ahead(o) PROVE FALSE
    BY <1>7 DEF Safe
  <1>8. PICK u \in Threads : \E f \in FramesIn(u) : Further(f, o)
    BY DEF Ahead, Further
  <1>9. PICK f \in FramesIn(u) : Further(f, o)
    BY <1>8
  <1>10. PICK m \in 1..Len(stack[u]) : f = stack[u][m]
    BY DEF FramesIn
  \* A call that keeps something is in the plan.
  <1>11. ASSUME f.op = "body"
         PROVE  \E s2 : /\ IsSeq(f.rest) /\ IsSeq(s2) /\ RestOf(f.rest, s2)
                        /\ \/ u \in App /\ m = Len(stack[u]) /\ s2 = plan.calls[u]
                           \/ \E k \in DOMAIN plan.body : s2 = plan.body[k]
                        /\ \E j \in 1..Len(f.rest) : Keeps(f.rest[j], o)
                                                     /\ Len(s2) - Len(f.rest) + j \in 1..Len(s2)
                                                     /\ Keeps(s2[Len(s2) - Len(f.rest) + j], o)
    <2>1. PICK s2 : /\ IsSeq(f.rest) /\ IsSeq(s2) /\ RestOf(f.rest, s2)
                    /\ \/ u \in App /\ m = Len(stack[u]) /\ s2 = plan.calls[u]
                       \/ \E k \in DOMAIN plan.body : s2 = plan.body[k]
      BY <1>10, <1>11, CallFrom
    <2>2. PICK j \in 1..Len(f.rest) : Keeps(f.rest[j], o)
      BY <1>9, <1>11 DEF Further, In
    <2>3. Len(s2) - Len(f.rest) + j \in 1..Len(s2) /\ f.rest[j] = s2[Len(s2) - Len(f.rest) + j]
      BY <2>1, RestPlace
    <2> QED
      BY <2>1, <2>2, <2>3
  <1>12. Mine(u, LAMBDA c : Keeps(c, o))
    <2>1. CASE f.op = "body"
      BY <1>11, <2>1 DEF Mine, Some, In
    <2>2. CASE f.op \in {"packetize", "chain"} /\ f.o = o
      <3>1. Mine(u, LAMBDA c : Keeps(c, f.o))
        BY <1>1, <2>2 DEF Stacks, FrameFrom
      <3> QED
        BY <2>2, <3>1 DEF Mine, Some, In
    <2> QED
      BY <1>9, <2>1, <2>2 DEF Further
  <1>13. Some(plan, App, LAMBDA c : Keeps(c, o))
    BY <1>12 DEF Mine, Some
  <1>14. PICK a \in App :
            /\ ~Some(plan, App \ {a}, LAMBDA c : Keeps(c, o) \/ Ends(c, o))
            /\ \A i, j \in 1..Len(plan.calls[a]) :
                  Ends(plan.calls[a][i], o) /\ Keeps(plan.calls[a][j], o) => j < i
    BY <1>1, <1>7, <1>13, DisciplineAssumption
  <1>15. /\ \A k \in DOMAIN plan.body : \A i \in 1..Len(plan.body[k]) :
               ~Keeps(plan.body[k][i], o) /\ ~Ends(plan.body[k][i], o)
         /\ \A b \in App : b # a => \A i \in 1..Len(plan.calls[b]) :
               ~Keeps(plan.calls[b][i], o) /\ ~Ends(plan.calls[b][i], o)
    BY <1>14 DEF Some, In
  <1>16. t = a /\ 1 = Len(stack[t]) /\ s = plan.calls[a]
    BY <1>4, <1>6, <1>15
  <1>17. u = a
    BY <1>12, <1>15 DEF Mine, Some, In
  <1>18. m = 1 /\ f.op = "body" /\ f.rest = r
    <2>1. m = 1
      BY <1>10, <1>16, <1>17
    <2> QED
      BY <1>2, <1>3, <1>9, <1>10, <1>16, <1>17, <2>1 DEF Further
  <1>19. PICK s2 : /\ \/ u \in App /\ m = Len(stack[u]) /\ s2 = plan.calls[u]
                      \/ \E k \in DOMAIN plan.body : s2 = plan.body[k]
                   /\ \E j \in 1..Len(f.rest) : /\ Len(s2) - Len(f.rest) + j \in 1..Len(s2)
                                                /\ Keeps(s2[Len(s2) - Len(f.rest) + j], o)
    BY <1>11, <1>18
  <1>20. s2 = s
    BY <1>15, <1>16, <1>17, <1>19
  <1>21. PICK j \in 1..Len(r) : Len(s) - Len(r) + j \in 1..Len(s) /\ Keeps(s[Len(s) - Len(r) + j], o)
    BY <1>18, <1>19, <1>20
  <1>22. Len(s) - Len(r) + j < n
    BY <1>6, <1>14, <1>16, <1>21
  <1>23. Len(s) \in Nat
    BY <1>4 DEF IsSeq
  <1> QED
    BY <1>5, <1>6, <1>22, <1>23

\* The first of the calls of a frame, and the others.
LEMMA CallIs ==
    ASSUME Inv, NEW t \in Threads, At(t, "body")
    PROVE  LET c == Head(Top(t).rest) IN
           /\ CallOK(c)
           /\ \A o \in Objects : Keeps(c, o) => Safe(o) /\ Mine(t, LAMBDA d : Keeps(d, o))
           /\ \A o \in Objects : Makes(c, o) => Mine(t, LAMBDA d : Makes(d, o))
           /\ Cleans(c) => Mine(t, Cleans)
           /\ IsSeq(Tail(Top(t).rest))
           /\ \A o \in Objects : In(Tail(Top(t).rest), LAMBDA d : Keeps(d, o)) => Safe(o)
           /\ \/ t \in App /\ Len(stack[t]) = 1 /\ RestOf(Tail(Top(t).rest), plan.calls[t])
              \/ \E k \in DOMAIN plan.body : RestOf(Tail(Top(t).rest), plan.body[k])
  <1>1. Stacks /\ DataTyped /\ plan \in Plans
    BY DEF Inv, DataTyped
  <1>2. stack[t] # <<>> /\ Top(t) = stack[t][1] /\ 1 \in 1..Len(stack[t]) /\ stack[t][1].op = "body"
        /\ Top(t) \in FramesIn(t)
    BY <1>1, BelowIs DEF At, Top, FramesIn
  <1>3. PICK r : r = Top(t).rest
    OBVIOUS
  <1>4. PICK s : /\ IsSeq(r) /\ r # <<>> /\ IsSeq(s) /\ RestOf(r, s)
                 /\ \/ t \in App /\ 1 = Len(stack[t]) /\ s = plan.calls[t]
                    \/ \E k \in DOMAIN plan.body : s = plan.body[k]
    BY <1>2, <1>3, CallFrom
  <1>5. /\ Head(r) = r[1] /\ Len(r) \in Nat \ {0} /\ IsSeq(Tail(r)) /\ Len(Tail(r)) = Len(r) - 1
        /\ \A i \in 1..Len(r) - 1 : Tail(r)[i] = r[i + 1]
    BY <1>4, TailIs
  <1>6. PICK n \in 1..Len(s) : Head(r) = s[n]
    <2>1. 1 \in 1..Len(r)
      BY <1>5
    <2> QED
      BY <1>4, <1>5, <2>1, RestPlace
  <1>7. RestOf(Tail(r), s)
    <2>1. Len(s) \in Nat /\ Len(r) <= Len(s)
      BY <1>4 DEF IsSeq, RestOf
    <2>2. ASSUME NEW i \in 1..Len(r) - 1 PROVE Tail(r)[i] = s[Len(s) - (Len(r) - 1) + i]
      <3>1. i + 1 \in 1..Len(r) /\ Len(s) - Len(r) + (i + 1) = Len(s) - (Len(r) - 1) + i
        BY <1>5, <2>1
      <3>2. r[i + 1] = s[Len(s) - Len(r) + (i + 1)]
        BY <1>4, <3>1, RestPlace
      <3> QED
        BY <1>5, <3>1, <3>2
    <2> QED
      BY <1>5, <2>1, <2>2 DEF RestOf
  <1>8. CallOK(Head(r))
    <2>1. ~Some(plan, App, LAMBDA c : ~CallOK(c))
      BY <1>1, PlansAssumption
    <2> QED
      BY <1>4, <1>6, <2>1 DEF Some, In
  <1>9. ASSUME NEW o \in Objects, NEW i \in 1..Len(r), Keeps(r[i], o) PROVE Safe(o)
    BY <1>2, <1>3, <1>9 DEF Safe, Ahead, In
  <1>10. ASSUME NEW o \in Objects, Keeps(Head(r), o) PROVE Safe(o) /\ Mine(t, LAMBDA d : Keeps(d, o))
    <2>1. 1 \in 1..Len(r)
      BY <1>5
    <2>2. Mine(t, LAMBDA d : Keeps(d, o))
      BY <1>4, <1>6, <1>10 DEF Mine, Some, In
    <2> QED
      BY <1>5, <1>9, <1>10, <2>1, <2>2
  <1>11. Cleans(Head(r)) => Mine(t, Cleans)
    BY <1>4, <1>6 DEF Mine, Some, In
  <1>14. ASSUME NEW o \in Objects, Makes(Head(r), o) PROVE Mine(t, LAMBDA d : Makes(d, o))
    BY <1>4, <1>6, <1>14 DEF Mine, Some, In
  <1>12. ASSUME NEW o \in Objects, In(Tail(r), LAMBDA d : Keeps(d, o)) PROVE Safe(o)
    <2>1. PICK i \in 1..Len(Tail(r)) : Keeps(Tail(r)[i], o)
      BY <1>12 DEF In
    <2>2. i \in 1..Len(r) - 1 /\ i + 1 \in 1..Len(r)
      BY <1>5
    <2> QED
      BY <1>5, <1>9, <2>1, <2>2
  <1>13. \/ t \in App /\ Len(stack[t]) = 1 /\ RestOf(Tail(r), plan.calls[t])
         \/ \E k \in DOMAIN plan.body : RestOf(Tail(r), plan.body[k])
    BY <1>4, <1>7
  <1> QED
    BY <1>3, <1>5, <1>8, <1>10, <1>11, <1>12, <1>13, <1>14

\* Frames with which a call begins.
Good(t, f) ==
    /\ FrameOK(f) /\ FrameFrom(t, f) /\ f.op # "body" /\ ~Announcing(f) /\ ~Naming(f)
    /\ Proper(f) /\ \A q \in Objects : Further(f, q) => Safe(q)
CallPush(t, cs) ==
    /\ IsSeq(cs)
    /\ \A i \in 1..Len(cs) :
          /\ Good(t, cs[i])
          /\ i \in 2..Len(cs) => ~Late(cs[i])
          /\ cs[i].op = "erase" /\ KindOf[cs[i].o] = "server" =>
                i \in 2..Len(cs) /\ cs[i - 1].op = "stop" /\ cs[i - 1].o = cs[i].o

\* The calls after the first.
LEMMA RestIs ==
    ASSUME Inv, NEW t \in Threads, At(t, "body"), NEW b, b = Body(Tail(Top(t).rest))
    PROVE  /\ IsSeq(b) /\ Len(b) <= 1
           /\ \A i \in 1..Len(b) :
                 /\ FrameOK(b[i]) /\ FrameFrom(t, b[i]) /\ ~Late(b[i]) /\ b[i].op = "body"
                 /\ \/ t \in App /\ i = Len(b) /\ Len(stack[t]) <= 1 /\ RestOf(b[i].rest, plan.calls[t])
                    \/ \E k \in DOMAIN plan.body : RestOf(b[i].rest, plan.body[k])
                 /\ Proper(b[i]) /\ ~Naming(b[i]) /\ ~Announcing(b[i])
                 /\ \A q \in Objects : Further(b[i], q) => Safe(q)
  <1>1. PICK r : r = Tail(Top(t).rest)
    OBVIOUS
  <1>2. CASE r = <<>>
    <2>1. b = <<>>
      BY <1>1, <1>2 DEF Body
    <2>2. IsSeq(b) /\ Len(b) = 0 /\ 1..Len(b) = {}
      BY <2>1, EmptyIs
    <2> QED
      BY <2>2
  <1>3. CASE r # <<>>
    <2> DEFINE g == [F("body", None, None, None) EXCEPT !.rest = r]
    <2>1. b = <<g>>
      BY <1>1, <1>3 DEF Body
    <2>2. IsSeq(r) /\ \/ t \in App /\ Len(stack[t]) = 1 /\ RestOf(r, plan.calls[t])
                      \/ \E k \in DOMAIN plan.body : RestOf(r, plan.body[k])
      BY <1>1, CallIs
    <2>3. \A q \in Objects : In(r, LAMBDA d : Keeps(d, q)) => Safe(q)
      BY <1>1, CallIs
    <2>4. g.op = "body" /\ g.rest = r /\ g = [op |-> g.op, o |-> g.o, ev |-> g.ev, x |-> g.x, rest |-> g.rest]
      BY DEF F
    <2> HIDE DEF g
    <2>5. FrameOK(g) /\ FrameFrom(t, g) /\ ~Late(g) /\ ~Naming(g) /\ ~Announcing(g)
      BY <1>3, <2>2, <2>4 DEF FrameOK, FrameFrom, Late, Naming, Announcing
    <2>6. Proper(g)
      BY <2>4 DEF Proper, Ending
    <2>7. ASSUME NEW q \in Objects, Further(g, q) PROVE Safe(q)
      <3>1. In(r, LAMBDA d : Keeps(d, q))
        BY <2>4, <2>7 DEF Further
      <3> QED
        BY <2>3, <3>1
    <2>8. IsSeq(b) /\ Len(b) = 1 /\ b[1] = g
      BY <2>1, OneIs
    <2>9. \A i \in 1..Len(b) : i = 1 /\ b[i] = g /\ i = Len(b)
      <3>1. \A i \in 1..1 : i = 1
        OBVIOUS
      <3> QED
        BY <2>8, <3>1
    <2> QED
      BY <2>2, <2>4, <2>5, <2>6, <2>7, <2>8, <2>9
  <1> QED
    BY <1>2, <1>3

\* A call that begins with good frames preserves Inv.
LEMMA InvokeStep ==
    ASSUME Inv, NEW t \in Threads, At(t, "body"), NEW cs, CallPush(t, cs),
           NEW b, b = Body(Tail(Top(t).rest)), Moves(t, cs \o b),
           UNCHANGED <<env, io, table, lastId, id, handlers, app, slots, chan, life>>,
           DOMAIN userPointer' = DOMAIN userPointer
    PROVE  Inv'
  <1>1. stack[t] # <<>> /\ ~Naming(Top(t)) /\ ~At(t, "stop")
    BY DEF At, Top, Naming
  <1>2. Stacks /\ Once /\ DataTyped /\ SlotsTyped /\ Handled /\ Numbered
    BY DEF Inv
  <1>3. UNCHANGED <<plan, lastId, id, table, media, known, deleted, mIsClosed, alive, init, mIsOpen, net,
                    tasks, mutex, cb, stored, pending, mRecvQueue>>
    BY DEF env, io, handlers, app, slots, chan, life
  <1>4. PICK fs : fs = cs \o b
    OBVIOUS
  <1>5. /\ IsSeq(b) /\ Len(b) <= 1
        /\ \A i \in 1..Len(b) :
                 /\ FrameOK(b[i]) /\ FrameFrom(t, b[i]) /\ ~Late(b[i]) /\ b[i].op = "body"
                 /\ \/ t \in App /\ i = Len(b) /\ Len(stack[t]) <= 1 /\ RestOf(b[i].rest, plan.calls[t])
                    \/ \E k \in DOMAIN plan.body : RestOf(b[i].rest, plan.body[k])
                 /\ Proper(b[i]) /\ ~Naming(b[i]) /\ ~Announcing(b[i])
                 /\ \A q \in Objects : Further(b[i], q) => Safe(q)
    BY RestIs
  <1>6. IsSeq(cs)
    BY DEF CallPush
  <1>7. /\ IsSeq(fs) /\ Len(cs) \in Nat /\ Len(b) \in Nat /\ Len(fs) = Len(cs) + Len(b)
        /\ \A i \in 1..Len(cs) : fs[i] = cs[i]
        /\ \A i \in 1..Len(fs) :
              \/ i \in 1..Len(cs) /\ fs[i] = cs[i]
              \/ i > Len(cs) /\ i - Len(cs) \in 1..Len(b) /\ fs[i] = b[i - Len(cs)]
    BY <1>4, <1>5, <1>6, ConcatIs
  <1>8. \A i \in 1..Len(fs) : /\ Proper(fs[i]) /\ ~Naming(fs[i]) /\ ~Announcing(fs[i])
                              /\ \A q \in Objects : Further(fs[i], q) => Safe(q)
    <2> TAKE i \in 1..Len(fs)
    <2>1. CASE i \in 1..Len(cs) /\ fs[i] = cs[i]
      BY <2>1 DEF CallPush, Good
    <2>2. CASE i - Len(cs) \in 1..Len(b) /\ fs[i] = b[i - Len(cs)]
      BY <1>5, <2>2
    <2> QED
      BY <1>7, <2>1, <2>2
  <1>9. PushOK(t, fs)
    <2> SUFFICES ASSUME NEW i \in 1..Len(fs)
                 PROVE  /\ FrameOK(fs[i]) /\ FrameFrom(t, fs[i])
                        /\ i \in 2..Len(fs) => ~Late(fs[i])
                        /\ fs[i].op = "body" =>
                              \/ /\ t \in App /\ i = Len(fs) /\ Len(stack[t]) <= 1
                                 /\ RestOf(fs[i].rest, plan.calls[t])
                              \/ \E k \in DOMAIN plan.body : RestOf(fs[i].rest, plan.body[k])
                        /\ fs[i].op = "erase" /\ KindOf[fs[i].o] = "server" =>
                              i \in 2..Len(fs) /\ fs[i - 1].op = "stop" /\ fs[i - 1].o = fs[i].o
      BY <1>7 DEF PushOK
    <2>1. CASE i \in 1..Len(cs) /\ fs[i] = cs[i]
      <3>1. /\ FrameOK(cs[i]) /\ FrameFrom(t, cs[i]) /\ cs[i].op # "body"
            /\ i \in 2..Len(cs) => ~Late(cs[i])
            /\ cs[i].op = "erase" /\ KindOf[cs[i].o] = "server" =>
                  i \in 2..Len(cs) /\ cs[i - 1].op = "stop" /\ cs[i - 1].o = cs[i].o
        BY <2>1 DEF CallPush, Good
      <3>2. i \in 2..Len(cs) <=> i # 1
        BY <1>7, <2>1
      <3>3. i \in 2..Len(fs) <=> i # 1
        BY <1>7
      <3>4. i # 1 => i - 1 \in 1..Len(cs) /\ fs[i - 1] = cs[i - 1]
        BY <1>7, <2>1
      <3> QED
        BY <2>1, <3>1, <3>2, <3>3, <3>4
    <2>2. CASE i - Len(cs) \in 1..Len(b) /\ fs[i] = b[i - Len(cs)]
      <3>1. i - Len(cs) = Len(b) => i = Len(fs)
        BY <1>7
      <3>2. PICK j \in 1..Len(b) : j = i - Len(cs)
        BY <2>2
      <3> QED
        BY <1>5, <2>2, <3>1, <3>2
    <2> QED
      BY <1>7, <2>1, <2>2
  <1>10. Moves(t, fs)
    BY <1>4
  <1>11. \A q \in Objects : Safe(q)' => Safe(q)
    BY <1>2, <1>3, <1>7, <1>8, <1>10, SafeKept
  <1>12. \A s \in Objects : KindOf[s] = "server" /\ Quiet(s) => Quiet(s)'
    <2>1. \A s \in Objects : \A i \in 1..Len(fs) : ~Of(fs[i], s)
      BY <1>8 DEF Of
    <2> QED
      BY <1>2, <1>3, <1>7, <1>10, <2>1, QuietKept
  <1>13. /\ \A q \in Objects : ~NamedBy(t, q)
         /\ \A u \in Threads, q \in Objects : AnnouncedBy(u, q)' => AnnouncedBy(u, q)
         /\ \A u \in Threads, q \in Objects : NamedBy(u, q)' => NamedBy(u, q)
    BY <1>1, <1>2, <1>7, <1>8, <1>10, PushedFrames
  <1>14. Stacks' /\ Numbered' /\ Handled' /\ Disciplined' /\ Erasing' /\ ToldOf'
    <2>1. /\ \A q \in Objects : init[q] # {} => init'[q] # {}
          /\ \A q \in Objects : KindOf[q] \in {"pc", "server"} /\ mIsOpen'[q] => id[q] # 0
          /\ \A m \in Tables : \A i \in DOMAIN media'[m] :
                \E q \in Objects : KindOf[q] = "track" /\ Registered(q) /\ i = id[q]
      BY <1>2, <1>3 DEF Handled, Numbered
    <2> QED
      BY <1>1, <1>3, <1>8, <1>9, <1>10, <1>11, <1>12, <1>13, <2>1, StableStep
  <1>15. Once'
    <2>1. \A u \in Threads, q \in Objects : NamedBy(u, q)' => NamedBy(u, q) /\ id[q] \notin known'
      BY <1>2, <1>3, <1>13 DEF Once
    <2>2. /\ \A q \in Objects : Offered(q)' => Offered(q)
          /\ \A i \in 1..Len(net') : Announces(net'[i]) => Announced
          /\ \A q \in Objects : init[q] # {} => init'[q] # {}
      BY <1>2, <1>3 DEF Once, Offered
    <2> QED
      BY <1>2, <1>3, <1>13, <2>1, <2>2, OnceKept
  <1>16. DataTyped' /\ SlotsTyped'
    BY <1>2, <1>3 DEF DataTyped, SlotsTyped
  <1> QED
    BY <1>14, <1>15, <1>16 DEF Inv

\* Calls push a frame, two, three or four.
LEMMA Push1 ==
    ASSUME NEW t, NEW f, Good(t, f), f.op # "erase"
    PROVE  CallPush(t, <<f>>)
  <1>1. IsSeq(<<f>>) /\ Len(<<f>>) = 1 /\ <<f>>[1] = f
    BY OneIs
  <1> DEFINE s == <<f>>
  <1> HIDE DEF s
  <1>2. IsSeq(s) /\ Len(s) = 1 /\ s[1] = f
    BY <1>1 DEF s
  <1>3. \A i \in 1..Len(s) : s[i] = f /\ ~(i \in 2..Len(s))
    BY <1>2
  <1>4. CallPush(t, s)
    BY <1>2, <1>3 DEF CallPush
  <1> QED
    BY <1>4 DEF s

\* Two good frames may begin a call, and so may three and four.
LEMMA Push2 ==
    ASSUME NEW t, NEW f, NEW g, Good(t, f), f.op # "erase", Good(t, g), ~Late(g),
           g.op = "erase" => KindOf[g.o] # "server"
    PROVE  CallPush(t, <<f, g>>)
  <1>1. IsSeq(<<f, g>>) /\ Len(<<f, g>>) = 2 /\ <<f, g>>[1] = f /\ <<f, g>>[2] = g
    BY TwoIs
  <1> DEFINE s == <<f, g>>
  <1> HIDE DEF s
  <1>2. IsSeq(s) /\ Len(s) = 2 /\ s[1] = f /\ s[2] = g
    BY <1>1 DEF s
  <1>3. \A i \in 1..Len(s) : (i = 1 /\ s[i] = f /\ ~(i \in 2..Len(s))) \/ s[i] = g
    BY <1>2
  <1>4. CallPush(t, s)
    BY <1>2, <1>3 DEF CallPush
  <1> QED
    BY <1>4 DEF s

\* Three good frames.
LEMMA Push3 ==
    ASSUME NEW t, NEW f, NEW g, NEW h, Good(t, f), f.op # "erase", Good(t, g), ~Late(g), g.op # "erase",
           Good(t, h), ~Late(h), h.op = "erase" => KindOf[h.o] # "server"
    PROVE  CallPush(t, <<f, g, h>>)
  <1> DEFINE s == <<f, g, h>>
  <1>1. IsSeq(s) /\ Len(s) = 3 /\ s[1] = f /\ s[2] = g /\ s[3] = h
    BY ThreeIs
  <1> HIDE DEF s
  <1>2. \A i \in 1..Len(s) : (i = 1 /\ s[i] = f /\ ~(i \in 2..Len(s))) \/ s[i] = g \/ s[i] = h
    BY <1>1
  <1>3. CallPush(t, s)
    BY <1>1, <1>2 DEF CallPush
  <1> QED
    BY <1>3 DEF s

\* Four good frames.
LEMMA Push4 ==
    ASSUME NEW t, NEW f, NEW g, NEW h, NEW e, Good(t, f), f.op # "erase", Good(t, g), ~Late(g),
           g.op = "stop", Good(t, h), ~Late(h), h.o = g.o, Good(t, e), ~Late(e), e.op # "erase"
    PROVE  CallPush(t, <<f, g, h, e>>)
  <1> DEFINE s == <<f, g, h, e>>
  <1>1. IsSeq(s) /\ Len(s) = 4 /\ s[1] = f /\ s[2] = g /\ s[3] = h /\ s[4] = e
    BY FourIs
  <1> HIDE DEF s
  <1>2. \A i \in 1..Len(s) : \/ i = 1 /\ s[i] = f /\ ~(i \in 2..Len(s))
                             \/ s[i] = g
                             \/ i \in 2..Len(s) /\ s[i] = h /\ s[i - 1] = g
                             \/ s[i] = e
    BY <1>1
  <1>3. CallPush(t, s)
    BY <1>1, <1>2 DEF CallPush
  <1> QED
    BY <1>3 DEF s

\* Frames that begin a call and change no table.
LEMMA PlainGood ==
    ASSUME NEW t, NEW f, f = [op |-> f.op, o |-> f.o, ev |-> f.ev, x |-> f.x, rest |-> f.rest],
           f.o \in Objects,
           \/ f.op \in {"close", "remoteClose", "stop", "reset"}
           \/ f.op = "peek" /\ f.o \in Channels
           \/ f.op = "return" /\ f.ev # "deleted"
           \/ f.op = "assign" /\ f.ev \in ToSet(Slots(KindOf[f.o])) /\ f.x \in {None, "app"}
    PROVE  Good(t, f) /\ ~Late(f)
  <1>1. ~Announcing(f) /\ ~Naming(f) /\ ~Late(f)
    BY DEF Announcing, Naming, Late
  <1>2. FrameOK(f) /\ FrameFrom(t, f)
    BY <1>1 DEF FrameOK, FrameFrom
  <1>3. Proper(f) /\ \A q \in Objects : ~Further(f, q)
    BY DEF Proper, Further, Ending
  <1> QED
    BY <1>1, <1>2, <1>3 DEF Good

\* The frames of a call on a handle that is in its table.
LEMMA CallGood ==
    ASSUME Inv, NEW t \in Threads, At(t, "body"), NEW c, c = Head(Top(t).rest), c.do # "cleanup",
           c.do # "pointer", IsRoot(c) \/ id[Target(c)] \in known
    PROVE  CallPush(t, Frames(c))
  <1>1. /\ CallOK(c)
        /\ \A o \in Objects : Keeps(c, o) => Safe(o) /\ Mine(t, LAMBDA d : Keeps(d, o))
        /\ \A q \in Objects : Makes(c, q) => Mine(t, LAMBDA d : Makes(d, q))
        /\ \A o \in Objects : Ends(c, o) => ~Safe(o)
    BY CallIs, EndsUnsafe
  <1>2. PICK o : o = c.o
    OBVIOUS
  <1>3. o \in Objects /\ Owner[o] \in Objects /\ KindOf[o] \in Kinds
    BY <1>1, <1>2, SlotsAre DEF CallOK
  <1>4. known \subseteq 1..lastId
    BY DEF Inv, DataTyped
  <1>5. c.do # "create" => id[o] \in known /\ id[o] # 0
    BY <1>2, <1>4 DEF Target, IsRoot
  <1>6. c.do = "create" /\ Owner[o] # o => id[Owner[o]] # 0
    BY <1>2, <1>4 DEF Target, IsRoot
  <1> DEFINE f(op) == F(op, o, c.ev, c.x)
  <1>8. \A op \in {"close", "remoteClose", "stop"} : Good(t, f(op)) /\ ~Late(f(op)) /\ f(op).op = op /\ f(op).o = o
    <2> TAKE op \in {"close", "remoteClose", "stop"}
    <2> DEFINE g == f(op)
    <2>1. g = [op |-> g.op, o |-> g.o, ev |-> g.ev, x |-> g.x, rest |-> g.rest] /\ g.op = op /\ g.o = o
      BY DEF F
    <2> HIDE DEF g
    <2>2. Good(t, g) /\ ~Late(g)
      BY <1>3, <2>1, PlainGood
    <2> QED
      BY <2>1, <2>2 DEF g
  <1>9. ASSUME NEW q \in Objects, NEW g, g = F("return", q, None, None) PROVE Good(t, g) /\ ~Late(g) /\ g.op = "return"
    <2>1. g = [op |-> g.op, o |-> g.o, ev |-> g.ev, x |-> g.x, rest |-> g.rest] /\ g.op = "return" /\ g.o = q
          /\ g.ev # "deleted"
      BY <1>9, CapiAssumption DEF F
    <2>2. g.o \in Objects
      BY <2>1
    <2> QED
      BY <2>1, <2>2, PlainGood
  <1>10. Good(t, ResetFrame(o)) /\ ~Late(ResetFrame(o)) /\ ResetFrame(o).op = "reset"
    <2> DEFINE g == ResetFrame(o)
    <2>1. g = [op |-> g.op, o |-> g.o, ev |-> g.ev, x |-> g.x, rest |-> g.rest] /\ g.op = "reset" /\ g.o = o
      BY DEF F, ResetFrame
    <2> HIDE DEF g
    <2>2. Good(t, g) /\ ~Late(g)
      BY <1>3, <2>1, PlainGood
    <2> QED
      BY <2>1, <2>2 DEF g
  <1>11. ASSUME NEW ev \in ToSet(Slots(KindOf[o])), NEW x \in {None, "app"}, NEW g, g = F("assign", o, ev, x)
         PROVE  Good(t, g) /\ ~Late(g) /\ g.op = "assign"
    <2>1. g = [op |-> g.op, o |-> g.o, ev |-> g.ev, x |-> g.x, rest |-> g.rest] /\ g.op = "assign" /\ g.o = o
          /\ g.ev = ev /\ g.x = x
      BY <1>11 DEF F
    <2>2. g.o \in Objects /\ g.ev \in ToSet(Slots(KindOf[g.o])) /\ g.x \in {None, "app"}
      BY <1>3, <2>1
    <2> QED
      BY <2>1, <2>2, PlainGood
  <1>12. ASSUME c.do = "create" PROVE Good(t, f("create")) /\ f("create").op = "create"
    <2>1. Owner[o] = o \/ KindOf[Owner[o]] = "pc"
      BY <1>1, <1>2, <1>12 DEF CallOK
    <2>2. Mine(t, LAMBDA d : Makes(d, o))
      BY <1>1, <1>2, <1>3, <1>12 DEF Makes, Creates
    <2> DEFINE g == f("create")
    <2>3. g.op = "create" /\ g.o = o /\ g = [op |-> g.op, o |-> g.o, ev |-> g.ev, x |-> g.x, rest |-> g.rest]
      BY DEF F
    <2> HIDE DEF g
    <2>4. ~Announcing(g) /\ ~Naming(g)
      BY <2>3 DEF Announcing, Naming
    <2>5. FrameOK(g)
      BY <1>3, <2>1, <2>3, <2>4 DEF FrameOK
    <2>8. FrameFrom(t, g)
      <3>1. Mine(t, LAMBDA d : Makes(d, g.o))
        BY <2>2, <2>3 DEF Mine, Some, In
      <3> QED
        BY <2>3, <2>4, <3>1 DEF FrameFrom
    <2>6. Proper(g) /\ \A q \in Objects : ~Further(g, q)
      BY <1>6, <1>12, <2>3 DEF Proper, Further, Ending
    <2>7. Good(t, g)
      BY <2>3, <2>4, <2>5, <2>6, <2>8 DEF Good
    <2> QED
      BY <2>3, <2>7 DEF g
  <1>13. ASSUME c.do \in {"packetize", "chain"} PROVE Good(t, f(c.do)) /\ f(c.do).op = c.do
    <2>1. KindOf[o] = "track"
      BY <1>1, <1>2, <1>13 DEF CallOK
    <2>2. Keeps(c, o)
      BY <1>2, <1>13 DEF Keeps
    <2>3. Safe(o) /\ Mine(t, LAMBDA d : Keeps(d, o)) /\ id[o] # 0
      BY <1>1, <1>3, <1>5, <1>13, <2>2
    <2> DEFINE g == f(c.do)
    <2>4. g.op = c.do /\ g.o = o /\ g = [op |-> g.op, o |-> g.o, ev |-> g.ev, x |-> g.x, rest |-> g.rest]
      BY DEF F
    <2> HIDE DEF g
    <2>5. FrameFrom(t, g)
      <3>1. Mine(t, LAMBDA d : Keeps(d, g.o))
        BY <2>3, <2>4 DEF Mine, Some, In
      <3> QED
        BY <1>13, <2>4, <3>1 DEF FrameFrom, Announcing, Naming
    <2>6. FrameOK(g) /\ Proper(g) /\ ~Announcing(g) /\ ~Naming(g) /\ g.op # "body"
      BY <1>3, <1>13, <2>1, <2>3, <2>4 DEF FrameOK, Announcing, Naming, Proper, Ending
    <2>7. \A q \in Objects : Further(g, q) => Safe(q)
      BY <1>13, <2>3, <2>4 DEF Further
    <2>8. Good(t, g)
      BY <2>5, <2>6, <2>7 DEF Good
    <2> QED
      BY <2>4, <2>8 DEF g
  <1>14. ASSUME c.do = "delete"
         PROVE  Good(t, f("erase")) /\ ~Late(f("erase")) /\ f("erase").op = "erase" /\ f("erase").o = o
    <2>1. ~Safe(o)
      BY <1>1, <1>2, <1>3, <1>14 DEF Ends
    <2> DEFINE g == f("erase")
    <2>3. g.op = "erase" /\ g.o = o /\ g = [op |-> g.op, o |-> g.o, ev |-> g.ev, x |-> g.x, rest |-> g.rest]
      BY DEF F
    <2> HIDE DEF g
    <2>4. ~Announcing(g) /\ ~Naming(g) /\ ~Late(g)
      BY <2>3 DEF Announcing, Naming, Late
    <2>5. FrameOK(g) /\ FrameFrom(t, g)
      BY <1>3, <2>3, <2>4 DEF FrameOK, FrameFrom
    <2>6. Proper(g) /\ \A q \in Objects : ~Further(g, q)
      BY <1>5, <1>14, <2>1, <2>3 DEF Proper, Further, Ending
    <2>7. Good(t, g)
      BY <2>3, <2>4, <2>5, <2>6 DEF Good
    <2> QED
      BY <2>3, <2>4, <2>7 DEF g
  <1>15. PICK e : e = F("return", o, None, None)
    OBVIOUS
  <1>16. Good(t, e) /\ ~Late(e) /\ e.op = "return"
    BY <1>3, <1>9, <1>15
  <1>17. CASE c.do = "create"
    <2>1. PICK r : r = F("return", Owner[o], None, None)
      OBVIOUS
    <2>2. Frames(c) = <<f("create"), r>>
      BY <1>2, <1>17, <2>1 DEF Frames
    <2>3. Good(t, r) /\ ~Late(r) /\ r.op = "return"
      BY <1>3, <1>9, <2>1
    <2>4. Good(t, f("create")) /\ f("create").op = "create"
      BY <1>12, <1>17
    <2> HIDE DEF f
    <2> QED
      BY <2>2, <2>3, <2>4, Push2
  <1>18. CASE c.do \in {"set", "unset"}
    <2>1. Frames(c) = <<f("assign"), e>>
      BY <1>2, <1>15, <1>18 DEF Frames
    <2>2. Good(t, f("assign")) /\ f("assign").op = "assign"
      <3>1. c.ev \in ToSet(Slots(KindOf[o])) /\ c.x \in {None, "app"}
        BY <1>1, <1>2, <1>18 DEF CallOK
      <3> QED
        BY <1>11, <3>1
    <2> HIDE DEF f
    <2> QED
      BY <1>16, <2>1, <2>2, Push2
  <1>19. CASE c.do = "close"
    <2>1. Frames(c) = <<f("close"), e>>
      BY <1>2, <1>15, <1>19 DEF Frames
    <2>2. Good(t, f("close")) /\ f("close").op = "close"
      BY <1>8
    <2> HIDE DEF f
    <2> QED
      BY <1>16, <2>1, <2>2, Push2
  <1>20. CASE c.do = "receive"
    <2>1. Frames(c) = <<f("peek"), e>>
      BY <1>2, <1>15, <1>20 DEF Frames
    <2>2. Good(t, f("peek")) /\ f("peek").op = "peek"
      <3> DEFINE g == f("peek")
      <3>1. g.op = "peek" /\ g.o = o /\ g = [op |-> g.op, o |-> g.o, ev |-> g.ev, x |-> g.x, rest |-> g.rest]
        BY DEF F
      <3> HIDE DEF g
      <3>2. o \in Channels
        BY <1>1, <1>2, <1>20 DEF CallOK
      <3>3. Good(t, g)
        BY <1>3, <3>1, <3>2, PlainGood
      <3> QED
        BY <3>1, <3>3 DEF g
    <2> HIDE DEF f
    <2> QED
      BY <1>16, <2>1, <2>2, Push2
  <1>21. CASE c.do \in {"packetize", "chain"}
    <2>1. Frames(c) = <<f(c.do), e>>
      BY <1>2, <1>15, <1>21 DEF Frames
    <2>2. Good(t, f(c.do)) /\ f(c.do).op = c.do
      BY <1>13, <1>21
    <2> HIDE DEF f
    <2> QED
      BY <1>16, <1>21, <2>1, <2>2, Push2
  <1>22. CASE c.do = "delete"
    <2>1. /\ Good(t, f("erase")) /\ ~Late(f("erase")) /\ f("erase").op = "erase" /\ f("erase").o = o
      BY <1>14, <1>22
    <2>2. /\ Good(t, f("close")) /\ f("close").op = "close"
          /\ Good(t, f("remoteClose")) /\ f("remoteClose").op = "remoteClose"
          /\ Good(t, f("stop")) /\ f("stop").op = "stop" /\ f("stop").o = o /\ ~Late(f("stop"))
      BY <1>8
    <2>3. CASE KindOf[o] = "server"
      <3>1. PICK a : a = F("assign", o, "announce", None)
        OBVIOUS
      <3>2. Good(t, a) /\ a.op = "assign"
        <4>1. "announce" \in ToSet(Slots(KindOf[o]))
          BY <1>3, <2>3, SlotsAre
        <4> QED
          BY <1>11, <3>1, <4>1
      <3>3. Frames(c) = <<a, f("stop"), f("erase"), e>>
        BY <1>2, <1>15, <1>22, <2>3, <3>1 DEF Frames
      <3> HIDE DEF f
      <3> QED
        BY <1>16, <2>1, <2>2, <3>2, <3>3, Push4
    <2>4. CASE KindOf[o] = "ws" /\ c.x = "forced"
      <3>1. Frames(c) = <<f("remoteClose"), ResetFrame(o), f("erase")>>
        BY <1>2, <1>22, <2>4 DEF Frames
      <3>2. KindOf[f("erase").o] # "server"
        BY <2>1, <2>4
      <3> HIDE DEF f
      <3> QED
        BY <1>10, <2>1, <2>2, <3>1, <3>2, Push3
    <2>5. CASE KindOf[o] # "server" /\ ~(KindOf[o] = "ws" /\ c.x = "forced")
      <3>1. Frames(c) = <<f("close"), f("erase")>>
        BY <1>2, <1>22, <2>5 DEF Frames
      <3>2. KindOf[f("erase").o] # "server"
        BY <2>1, <2>5
      <3> HIDE DEF f
      <3> QED
        BY <2>1, <2>2, <3>1, <3>2, Push2
    <2> QED
      BY <2>3, <2>4, <2>5
  <1>23. c.do \in {"create", "set", "unset", "close", "receive", "packetize", "chain", "delete"}
    BY <1>1 DEF CallOK
  <1> QED
    BY <1>17, <1>18, <1>19, <1>20, <1>21, <1>22, <1>23

\* Every call of the C API that begins preserves Inv.
LEMMA InvokeInv == ASSUME Inv, NEW t \in Threads, Invoke(t) PROVE Inv'
  <1>1. PICK c, b : c = Head(Top(t).rest) /\ b = Body(Tail(Top(t).rest))
    OBVIOUS
  <1>2. At(t, "body") /\ stack[t] # <<>>
        /\ UNCHANGED <<env, io, table, lastId, id, handlers, app, slots, chan, life>>
    BY DEF Invoke, At
  <1>3. IsSeq(b)
    BY <1>1, <1>2, RestIs
  <1>4. CallPush(t, <<>>) /\ <<>> \o b = b
    <2>1. <<>> \o b = b
      BY <1>3, IsSeqOf, ConcatEmptySeq
    <2>2. IsSeq(<<>>) /\ 1..Len(<<>>) = {}
      BY EmptyIs
    <2> QED
      BY <2>1, <2>2 DEF CallPush
  <1>5. PICK cs : CallPush(t, cs) /\ Go(t, cs \o b) /\ DOMAIN userPointer' = DOMAIN userPointer
    <2>1. CASE c.do = "cleanup"
      <3> DEFINE f == F("eraseAll", None, None, None)
      <3>1. Go(t, <<f>> \o b) /\ userPointer' = userPointer
        BY <1>1, <2>1 DEF Invoke
      <3>2. f.op = "eraseAll" /\ f = [op |-> f.op, o |-> f.o, ev |-> f.ev, x |-> f.x, rest |-> f.rest]
        BY DEF F
      <3> HIDE DEF f
      <3>3. Mine(t, Cleans) /\ \A o \in Objects : ~Safe(o)
        BY <1>1, <1>2, <2>1, CallIs, EndsUnsafe DEF Cleans, Ends
      <3>4. FrameOK(f) /\ ~Announcing(f) /\ ~Naming(f) /\ Proper(f) /\ \A q \in Objects : ~Further(f, q)
        BY <3>2, <3>3 DEF FrameOK, Announcing, Naming, Proper, Further
      <3>5. FrameFrom(t, f)
        BY <3>2, <3>3, <3>4 DEF FrameFrom
      <3>6. Good(t, f)
        BY <3>2, <3>4, <3>5 DEF Good
      <3> QED
        BY <3>1, <3>2, <3>6, Push1
    <2>2. CASE c.do = "pointer"
      <3>1. /\ IsRoot(c) \/ id[Target(c)] \in known
            /\ userPointer' = Put(userPointer, id[c.o], c.x) /\ Go(t, b)
        BY <1>1, <2>2 DEF Invoke, SetUserPointer
      <3>2. CallOK(c) /\ \A o \in Objects : Keeps(c, o) => Safe(o)
        BY <1>1, <1>2, CallIs
      <3>3. c.o \in Objects /\ Safe(c.o)
        BY <2>2, <3>2 DEF CallOK, Keeps
      <3>4. id[c.o] # 0
        <4>1. known \subseteq 1..lastId
          BY DEF Inv, DataTyped
        <4> QED
          BY <2>2, <3>1, <4>1 DEF IsRoot, Target
      <3>5. id[c.o] \in DOMAIN userPointer
        BY <3>3, <3>4, PointerOf DEF Inv, Disciplined
      <3>6. DOMAIN userPointer' = DOMAIN userPointer
        BY <3>1, <3>5 DEF Put
      <3> QED
        BY <1>4, <3>1, <3>6
    <2>3. CASE c.do \notin {"cleanup", "pointer"}
      <3>1. /\ IsRoot(c) \/ id[Target(c)] \in known
            /\ userPointer' = userPointer
            /\ Go(t, IF Registered(Target(c)) \/ IsRoot(c) THEN Frames(c) \o b ELSE b)
        BY <1>1, <2>3 DEF Invoke
      <3>2. CallPush(t, Frames(c))
        BY <1>1, <1>2, <2>3, <3>1, CallGood
      <3>3. Go(t, Frames(c) \o b) \/ Go(t, b)
        BY <3>1
      <3> QED
        BY <1>4, <3>1, <3>2, <3>3
    <2> QED
      BY <2>1, <2>2, <2>3
  <1>6. Moves(t, cs \o b)
    BY <1>2, <1>5, GoMoves
  <1> QED
    BY <1>1, <1>2, <1>5, <1>6, InvokeStep

-----------------------------------------------------------------------------
\* Handles given and taken.
LEMMA EmplacedInv ==
    ASSUME Inv, NEW t \in Threads, NEW o \in Objects, NEW fs, PushOK(t, fs), Moves(t, fs),
           stack[t] # <<>>, ~Naming(Top(t)), ~At(t, "stop"),
           Emplace(o), id[o] = 0, Owner[o] = o \/ id[Owner[o]] # 0,
           \A i \in 1..Len(fs) :
              \/ Tame(fs[i])
              \/ fs[i].op = "find" /\ fs[i].o = o /\ known' = known,
           \/ known' = known \cup {lastId + 1}
           \/ known' = known /\ \E i \in 1..Len(fs) : fs[i].op = "find" /\ fs[i].o = o,
           alive' = [alive EXCEPT ![o] = "alive"],
           init' = [q \in Objects |-> init'[q]], \A q \in Objects : q # o => init'[q] = init[q],
           KindOf[o] = "dc" => init'[o] # {},
           UNCHANGED <<plan, net, tasks, media, mutex, deleted, mIsOpen, mIsClosed, pending, stored, mRecvQueue>>,
           \A q \in Objects : Offered(q)' => Offered(q),
           \A q \in Objects : Coming(q)' => Coming(q) /\ q # o,
           \A s \in Objects : KindOf[s] = "server" /\ Quiet(s) => Quiet(s)',
           SlotsTyped'
    PROVE  Inv'
  <1>1. PICK n : n = lastId + 1
    OBVIOUS
  <1>2. Stacks /\ Once /\ DataTyped /\ Handled /\ Numbered /\ Erasing /\ Disciplined /\ ToldOf
    BY DEF Inv
  <1>3. /\ lastId \in Nat /\ n \in Nat /\ n > lastId /\ n # 0 /\ id \in [Objects -> 0..lastId]
        /\ known \subseteq 1..lastId /\ n \notin known /\ 0 \notin known
        /\ \A q \in Objects : id[q] # n
    BY <1>1, <1>2 DEF DataTyped
  <1>4. /\ lastId' = n
        /\ id'[o] = n /\ \A q \in Objects : q # o => id'[q] = id[q]
        /\ id' \in [Objects -> 0..n]
    BY <1>1, <1>3 DEF Emplace
  <1>5. /\ table \in [Kinds -> SUBSET (Nat \X Objects)] /\ KindOf[o] \in Kinds
        /\ table' \in [Kinds -> SUBSET (Nat \X Objects)]
        /\ \A k \in Kinds : \A e : e \in table'[k] <=> e \in table[k] \/ (k = KindOf[o] /\ e = <<n, o>>)
    <2>1. table \in [Kinds -> SUBSET (Nat \X Objects)] /\ KindOf[o] \in Kinds
      BY <1>2, SlotsAre DEF DataTyped
    <2>2. table' = [table EXCEPT ![KindOf[o]] = @ \cup {<<n, o>>}]
      BY <1>1 DEF Emplace
    <2>3. <<n, o>> \in Nat \X Objects
      BY <1>3
    <2> QED
      BY <2>1, <2>2, <2>3
  <1>6. Registered(o)' /\ ~Registered(o)
    <2>1. Registered(o)'
      BY <1>4, <1>5 DEF Registered
    <2>2. ~Registered(o)
      BY <1>2, PointerOf
    <2> QED
      BY <2>1, <2>2
  <1>7. \A q \in Objects : q # o => (Registered(q)' <=> Registered(q))
    <2> SUFFICES ASSUME NEW q \in Objects, q # o PROVE Registered(q)' <=> Registered(q)
      OBVIOUS
    <2>1. KindOf[q] \in Kinds /\ <<id[q], q>> # <<n, o>> /\ id'[q] = id[q]
      BY <1>4, SlotsAre
    <2> QED
      BY <1>5, <2>1 DEF Registered
  <1>8. known \subseteq known' /\ \A i \in known' : i \in known \/ i = n
    BY <1>1
  <1>9. IsSeq(fs)
    BY DEF PushOK
  <1>10. Stacks'
    BY <1>2, StacksKept
  <1>11. \A i \in 1..Len(fs) : ~Announcing(fs[i]) /\ (Naming(fs[i]) => fs[i].o = o /\ known' = known)
                              /\ \A q \in Objects : Further(fs[i], q) => Safe(q)
    <2> TAKE i \in 1..Len(fs)
    <2>1. CASE Tame(fs[i])
      BY <1>2, <2>1, TameProper
    <2>2. CASE fs[i].op = "find" /\ fs[i].o = o /\ known' = known
      BY <2>2 DEF Announcing, Naming, Further
    <2> QED
      BY <2>1, <2>2
  <1>12. \A q \in Objects : Safe(q)' => Safe(q)
    BY <1>2, <1>9, <1>11, SafeKept
  <1>13. /\ \A q \in Objects : ~NamedBy(t, q)
         /\ \A u \in Threads, q \in Objects : AnnouncedBy(u, q)' => AnnouncedBy(u, q)
         /\ \A u \in Threads, q \in Objects :
               NamedBy(u, q)' => (u # t /\ NamedBy(u, q)) \/ (u = t /\ q = o /\ known' = known)
    BY <1>2, <1>9, <1>11, PushedFrames
  <1>14. \A u \in Threads : \A f \in FramesIn(u)' :
            f \in FramesIn(u) \/ Tame(f) \/ (f.op = "find" /\ f.o = o)
    <2> TAKE u \in Threads
    <2> TAKE f \in FramesIn(u)'
    <2>1. CASE u = t
      <3>1. f \in FramesIn(t) \/ \E i \in 1..Len(fs) : f = fs[i]
        BY <1>2, <1>9, <2>1, MovedFrames
      <3> QED
        BY <2>1, <3>1
    <2>2. CASE u # t
      BY <1>2, <1>9, <2>2, MovedFrames
    <2> QED
      BY <2>1, <2>2
  <1>15. Numbered'
    <2>1. \A q, r \in Objects : id'[q] = id'[r] /\ id'[q] # 0 => q = r
      BY <1>2, <1>3, <1>4 DEF Numbered
    <2>2. ASSUME NEW k \in Kinds, NEW e \in table'[k]
          PROVE  KindOf[e[2]] = k /\ e[1] = id'[e[2]] /\ id'[e[2]] # 0
      <3>1. CASE e \in table[k]
        <4>1. e[2] \in Objects
          BY <1>5, <3>1
        <4>2. KindOf[e[2]] = k /\ e[1] = id[e[2]] /\ id[e[2]] # 0
          BY <1>2, <3>1 DEF Numbered
        <4> QED
          BY <1>4, <4>1, <4>2
      <3>2. CASE k = KindOf[o] /\ e = <<n, o>>
        BY <1>3, <1>4, <3>2
      <3> QED
        BY <1>5, <2>2, <3>1, <3>2
    <2>3. DOMAIN userPointer' = {id'[q] : q \in {r \in Objects : Registered(r)'}}
      <3>1. userPointer' = Put(userPointer, n, "null")
        BY <1>1 DEF Emplace
      <3>2. DOMAIN userPointer' = DOMAIN userPointer \cup {n}
        BY <3>1 DEF Put
      <3>3. DOMAIN userPointer = {id[q] : q \in {r \in Objects : Registered(r)}}
        BY <1>2 DEF Numbered
      <3>4. \A i : i \in {id'[q] : q \in {r \in Objects : Registered(r)'}} <=>
               i = n \/ \E q \in Objects : Registered(q) /\ i = id[q]
        BY <1>4, <1>6, <1>7
      <3>5. \A i : i \in DOMAIN userPointer <=> \E q \in Objects : Registered(q) /\ i = id[q]
        BY <3>3
      <3> DEFINE after == {id'[q] : q \in {r \in Objects : Registered(r)'}}
      <3>6. \A i : i \in DOMAIN userPointer' <=> i \in after
        BY <3>2, <3>4, <3>5
      <3> HIDE DEF after
      <3>7. DOMAIN userPointer' = after
        BY <3>6
      <3> QED
        BY <3>7 DEF after
    <2>4. \A m \in Tables : \A i \in DOMAIN media'[m] :
             \E q \in Objects : KindOf[q] = "track" /\ Registered(q)' /\ i = id'[q]
      <3> TAKE m \in Tables
      <3> TAKE i \in DOMAIN media'[m]
      <3>1. PICK q \in Objects : KindOf[q] = "track" /\ Registered(q) /\ i = id[q]
        BY <1>2 DEF Numbered
      <3> QED
        BY <1>4, <1>6, <1>7, <3>1
    <2> QED
      BY <2>1, <2>2, <2>3, <2>4 DEF Numbered
  <1>16. Handled'
    <2>1. alive \in [Objects -> {"new", "alive", "gone"}]
      BY <1>2 DEF DataTyped
    <2>2. \A q \in Objects : id'[q] # 0 =>
             alive'[q] # "new" /\ id'[Owner[q]] # 0 /\ (KindOf[q] = "dc" => init'[q] # {})
      <3> TAKE q \in Objects
      <3>0. Owner[q] \in Objects /\ (id[Owner[q]] # 0 => id'[Owner[q]] # 0)
        BY <1>3, <1>4, SlotsAre
      <3>1. CASE q = o
        BY <1>3, <1>4, <2>1, <3>0, <3>1
      <3>2. CASE q # o
        BY <1>2, <1>4, <2>1, <3>0, <3>2 DEF Handled
      <3> QED
        BY <3>1, <3>2
    <2>3. \A q \in Objects : KindOf[q] \in {"pc", "server"} /\ (alive'[q] # "new" \/ mIsOpen'[q]) => id'[q] # 0
      BY <1>2, <1>3, <1>4, <2>1 DEF Handled
    <2>4. ASSUME NEW u \in Threads, NEW f \in FramesIn(u)'
          PROVE  /\ f.op = "destroy" /\ KindOf[f.o] \in {"pc", "server"} => id'[f.o] # 0
                 /\ f.op = "create" /\ Owner[f.o] # f.o => id'[Owner[f.o]] # 0
                 /\ f.op \in {"packetize", "chain"} => id'[f.o] # 0
      <3>1. FrameOK(f)
        BY <1>10, <2>4 DEF Stacks
      <3>2. f.op \in {"destroy", "create", "packetize", "chain"} => f.o \in Objects /\ Owner[f.o] \in Objects
        BY <3>1, SlotsAre DEF FrameOK
      <3>3. /\ f.op = "destroy" /\ KindOf[f.o] \in {"pc", "server"} => id[f.o] # 0
            /\ f.op = "create" /\ Owner[f.o] # f.o => id[Owner[f.o]] # 0
            /\ f.op \in {"packetize", "chain"} => id[f.o] # 0
        BY <1>2, <1>14 DEF Handled, Tame, Late
      <3> QED
        BY <1>3, <1>4, <3>2, <3>3
    <2> QED
      BY <2>2, <2>3, <2>4 DEF Handled
  <1>17. Once'
    <2>1. \A q \in Objects : Waiting(q)' <=> Waiting(q)
      BY DEF Waiting
    <2>2. Announced' = Announced
      BY DEF Announced
    <2>3. ASSUME NEW q \in Objects
          PROVE  /\ Coming(q)' => /\ id'[q] = 0 /\ id'[Owner[q]] # 0 /\ Owner[q] # q
                                  /\ KindOf[q] = "dc" => init'[q] # {}
                                  /\ Announced
                 /\ Offered(q)' => ~Waiting(q)'
                 /\ \A u \in Threads : AnnouncedBy(u, q)' =>
                       ~Offered(q)' /\ ~Waiting(q)' /\ \A v \in Threads : AnnouncedBy(v, q)' => u = v
                 /\ \A u \in Threads : NamedBy(u, q)' =>
                       /\ Registered(q)' /\ id'[q] \notin known'
                       /\ \A v \in Threads : NamedBy(v, q)' => u = v
      <3>1. ASSUME Coming(q)'
            PROVE  /\ id'[q] = 0 /\ id'[Owner[q]] # 0 /\ Owner[q] # q
                   /\ KindOf[q] = "dc" => init'[q] # {}
                   /\ Announced
        <4>1. Coming(q) /\ q # o
          BY <3>1
        <4>2. id[q] = 0 /\ id[Owner[q]] # 0 /\ Owner[q] # q /\ (KindOf[q] = "dc" => init[q] # {}) /\ Announced
          BY <1>2, <4>1 DEF Once
        <4> QED
          BY <1>3, <1>4, <4>1, <4>2, SlotsAre
      <3>2. Offered(q)' => ~Waiting(q)'
        BY <1>2, <2>1 DEF Once
      <3>3. \A u \in Threads : AnnouncedBy(u, q)' =>
               ~Offered(q)' /\ ~Waiting(q)' /\ \A v \in Threads : AnnouncedBy(v, q)' => u = v
        BY <1>2, <1>13, <2>1 DEF Once
      <3>4. ASSUME NEW u \in Threads, NamedBy(u, q)'
            PROVE  /\ Registered(q)' /\ id'[q] \notin known'
                   /\ \A v \in Threads : NamedBy(v, q)' => u = v
        <4>0. \A v \in Threads : ~NamedBy(v, o)
          BY <1>2, <1>6 DEF Once
        <4>1. CASE u # t /\ NamedBy(u, q)
          <5>1. q # o /\ Registered(q) /\ id[q] \notin known /\ \A v \in Threads : NamedBy(v, q) => u = v
            BY <1>2, <4>0, <4>1 DEF Once
          <5> QED
            BY <1>3, <1>4, <1>7, <1>8, <1>13, <5>1
        <4>2. CASE u = t /\ q = o /\ known' = known
          BY <1>3, <1>4, <1>6, <1>13, <4>0, <4>2
        <4> QED
          BY <1>13, <3>4, <4>1, <4>2
      <3> QED
        BY <3>1, <3>2, <3>3, <3>4
    <2>4. \A p \in Objects : \A i \in 1..Len(pending'[p]) :
             /\ pending'[p][i] \in Objects
             /\ KindOf[pending'[p][i]] = "dc" /\ Owner[pending'[p][i]] = p
             /\ \A j \in 1..Len(pending'[p]) : pending'[p][i] = pending'[p][j] => i = j
      BY <1>2 DEF Once
    <2>5. \A i \in 1..Len(net') : Announces(net'[i]) => Announced
      BY <1>2 DEF Once
    <2> QED
      BY <2>2, <2>3, <2>4, <2>5 DEF Once
  <1>18. Disciplined'
    <2>1. ASSUME NEW q \in Objects, Safe(q)'
          PROVE  /\ id'[q] = 0 \/ Registered(q)'
                 /\ \A u \in Threads : \A f \in FramesIn(u)' : ~Ending(f, q)
      <3>1. /\ id[q] = 0 \/ Registered(q)
            /\ \A u \in Threads : \A f \in FramesIn(u) : ~Ending(f, q)
        BY <1>2, <1>12, <2>1 DEF Disciplined
      <3>2. \A f : Tame(f) \/ f.op = "find" => ~Ending(f, q)
        BY DEF Tame, Late, Ending
      <3> QED
        BY <1>4, <1>6, <1>7, <1>14, <3>1, <3>2
    <2> QED
      BY <2>1 DEF Disciplined, Ending
  <1>19. Erasing'
    <2>1. ASSUME NEW u \in Threads, NEW f \in FramesIn(u)'
          PROVE  /\ f.op = "erase" => id'[f.o] \in known'
                 /\ f.op = "return" /\ f.ev = "deleted" => id'[f.o] # 0 /\ ~Registered(f.o)'
                 /\ f.op = "inherit" /\ KindOf[Owner[f.o]] = "server" => Registered(Owner[f.o])'
      <3>1. FrameOK(f)
        BY <1>10, <2>1 DEF Stacks
      <3>2. f.op \in {"erase", "return", "inherit"} => f.o \in Objects /\ Owner[f.o] \in Objects
        BY <3>1, SlotsAre DEF FrameOK
      <3>3. /\ f.op = "erase" => id[f.o] \in known
            /\ f.op = "return" /\ f.ev = "deleted" => id[f.o] # 0 /\ ~Registered(f.o)
            /\ f.op = "inherit" /\ KindOf[Owner[f.o]] = "server" => Registered(Owner[f.o])
        BY <1>2, <1>14 DEF Erasing, Tame, Late, Naming
      <3> QED
        BY <1>3, <1>4, <1>6, <1>7, <1>8, <3>2, <3>3
    <2>2. ASSUME NEW u \in Threads, At(u, "erase")', KindOf[Top(u).o]' = "server"
          PROVE  Quiet(Top(u).o)'
      <3>1. CASE u # t
        <4>1. stack'[u] = stack[u]
          BY <1>2, <1>9, <3>1, MovesIs
        <4>2. At(u, "erase") /\ Top(u)' = Top(u) /\ KindOf[Top(u).o] = "server" /\ stack[u] # <<>>
          BY <2>2, <4>1 DEF At, Top
        <4>3. PICK s \in Objects : s = Top(u).o
          <5>1. FrameOK(Top(u)) /\ Top(u).op = "erase"
            BY <4>2, TopIs DEF At, Top
          <5> QED
            BY <5>1 DEF FrameOK
        <4>4. Quiet(s)
          BY <1>2, <4>2, <4>3 DEF Erasing
        <4>5. Quiet(s)'
          BY <4>2, <4>3, <4>4
        <4>6. s = Top(u)'.o
          BY <4>2, <4>3
        <4> QED
          BY <4>5, <4>6 DEF Quiet
      <3>2. CASE u = t /\ fs # <<>>
        <4>1. Len(fs) > 0
          BY <1>9, <3>2, NonEmptyIs
        <4>2. 1 \in 1..Len(fs) /\ stack'[t][1] = fs[1] /\ IsSeq(stack'[t]) /\ stack'[t] # <<>>
          BY <1>2, <1>9, <2>2, <3>2, <4>1, MovesIs DEF At
        <4>3. Top(t)' = fs[1]
          BY <4>2, TailIs DEF Top
        <4>4. fs[1].op = "erase"
          BY <2>2, <3>2, <4>3 DEF At, Top
        <4> QED
          BY <4>2, <4>4 DEF Tame
      <3>3. CASE u = t /\ fs = <<>>
        BY <1>2, <2>2, <3>3, StoppedFirst
      <3> QED
        BY <3>1, <3>2, <3>3
    <2>3. deleted' \subseteq Objects /\ \A q \in deleted' : id'[q] # 0 /\ ~Registered(q)'
      BY <1>2, <1>4, <1>7 DEF Erasing
    <2> QED
      BY <2>1, <2>2, <2>3 DEF Erasing
  <1>20. ToldOf'
    <2> SUFFICES ASSUME NEW q \in Objects, Registered(q)'
                 PROVE  id'[q] \in known' \/ (\E u \in Threads : NamedBy(u, q)') \/ ~Registered(Owner[q])'
      BY DEF ToldOf
    <2>1. CASE q = o
      <3>1. CASE known' = known \cup {lastId + 1}
        BY <1>1, <1>4, <2>1, <3>1
      <3>2. CASE \E i \in 1..Len(fs) : fs[i].op = "find" /\ fs[i].o = o
        <4>1. PICK i \in 1..Len(fs) : fs[i].op = "find" /\ fs[i].o = o
          BY <3>2
        <4>2. fs[i] \in FramesIn(t)'
          BY <1>2, <1>9, MovedFrames
        <4> QED
          BY <2>1, <4>1, <4>2 DEF NamedBy, Naming
      <3> QED
        BY <3>1, <3>2
    <2>2. CASE q # o
      <3>1. Registered(q) /\ id[q] # 0
        BY <1>2, <1>7, <2>2, PointerOf
      <3>2. Owner[q] \in Objects /\ Owner[q] # o
        BY <1>2, <3>1, SlotsAre DEF Handled
      <3>3. id[q] \in known \/ (\E u \in Threads : NamedBy(u, q)) \/ ~Registered(Owner[q])
        BY <1>2, <3>1 DEF ToldOf
      <3>4. \A u \in Threads \ {t} : NamedBy(u, q) => NamedBy(u, q)'
        BY <1>2, <1>9, MovedFrames DEF NamedBy
      <3> QED
        BY <1>4, <1>7, <1>8, <1>13, <2>2, <3>2, <3>3, <3>4
    <2> QED
      BY <2>1, <2>2
  <1>21. DataTyped'
    <2>1. known' \subseteq 1..n
      BY <1>3, <1>8
    <2>2. alive' \in [Objects -> {"new", "alive", "gone"}]
      BY <1>2 DEF DataTyped
    <2> QED
      BY <1>2, <1>3, <1>4, <1>5, <2>1, <2>2 DEF DataTyped
  <1> QED
    BY <1>10, <1>15, <1>16, <1>17, <1>18, <1>19, <1>20, <1>21 DEF Inv

\* A new object gets its handle.
LEMMA CreateInv == ASSUME Inv, NEW t \in Threads, Create(t) PROVE Inv'
  <1>0. PICK o : o = Top(t).o
    OBVIOUS
  <1>1. stack[t] # <<>> /\ ~Naming(Top(t)) /\ Top(t).op = "create" /\ Top(t).op # "stop" /\ ~At(t, "stop")
    BY DEF Create, At, Top, Naming
  <1>2. /\ o \in Objects /\ (Owner[o] = o \/ KindOf[Owner[o]] = "pc") /\ Mine(t, Creates)
        /\ Top(t) \in FramesIn(t)
    <2>1. FrameOK(Top(t)) /\ FrameFrom(t, Top(t)) /\ Top(t) \in FramesIn(t)
      BY <1>1, TopIs
    <2>2. Mine(t, LAMBDA c : Makes(c, Top(t).o))
      BY <1>1, <2>1 DEF FrameFrom
    <2>3. Mine(t, Creates)
      BY <2>2 DEF Mine, Some, In, Makes
    <2> QED
      BY <1>0, <1>1, <2>1, <2>3 DEF FrameOK
  <1>3. Stacks /\ Once /\ DataTyped /\ SlotsTyped /\ Handled /\ Numbered
    BY DEF Inv
  <1>4. UNCHANGED <<env, io, handlers, deleted, got, together, stored, chan>>
    BY DEF Create
  <1>5. CASE Go(t, <<>>) /\ UNCHANGED <<tables, known, cb, life>>
    <2>1. SlotsTyped'
      BY <1>3, <1>4, <1>5 DEF SlotsTyped, chan
    <2> QED
      BY <1>1, <1>4, <1>5, <2>1, NoFrames, OnlyFrames DEF chan
  <1>6. CASE /\ Fresh(o) /\ Emplace(o)
             /\ alive' = [alive EXCEPT ![o] = "alive"]
             /\ \E r : init' = [init EXCEPT ![o] = r] /\ (KindOf[o] = "dc" => r # {})
             /\ cb' = IF KindOf[o] = "server" THEN [cb EXCEPT ![o].announce = "app"] ELSE cb
             /\ IF Owner[o] = o
                THEN Go(t, <<>>) /\ known' = known \cup {lastId + 1}
                ELSE Go(t, <<F("find", o, "create", None)>>) /\ known' = known
    <2>1. id[o] = 0 /\ init[o] = {}
      BY <1>2, <1>3, <1>6 DEF Handled, Fresh
    <2>2. Owner[o] = o \/ id[Owner[o]] # 0
      BY <1>0, <1>1, <1>2, <1>3 DEF Handled
    <2>3. KindOf[o] \in Kinds /\ (Owner[o] # o => KindOf[o] \in {"dc", "track"})
      BY <1>2, SlotsAre DEF Kinds
    <2>4. PICK fs : /\ Go(t, fs) /\ PushOK(t, fs)
                    /\ \A i \in 1..Len(fs) : fs[i].op = "find" /\ fs[i].o = o /\ known' = known /\ Owner[o] # o
                    /\ \/ known' = known \cup {lastId + 1}
                       \/ known' = known /\ \E i \in 1..Len(fs) : fs[i].op = "find" /\ fs[i].o = o
      <3>1. CASE Owner[o] = o
        <4>1. PushOK(t, <<>>) /\ 1..Len(<<>>) = {}
          BY NoFrames, TamePush, EmptyIs
        <4> QED
          BY <1>6, <3>1, <4>1
      <3>2. CASE Owner[o] # o
        <4>1. PICK a : a = F("find", o, "create", None)
          OBVIOUS
        <4>2. FrameOK(a) /\ a.op = "find" /\ a.o = o /\ a.ev = "create"
          BY <1>2, <3>2, <4>1 DEF FrameOK, Announcing, Naming, F
        <4>3. FrameFrom(t, a)
          BY <1>2, <3>2, <4>2 DEF FrameFrom, Announcing, Naming
        <4>4. PushOK(t, <<a>>) /\ IsSeq(<<a>>) /\ Len(<<a>>) = 1 /\ <<a>>[1] = a
          BY <4>2, <4>3, OnePush
        <4>5. Go(t, <<a>>) /\ known' = known
          BY <1>6, <3>2, <4>1
        <4>6. \A i \in 1..1 : i = 1
          OBVIOUS
        <4> QED
          BY <3>2, <4>2, <4>4, <4>5, <4>6
      <3> QED
        BY <3>1, <3>2
    <2>5. Moves(t, fs) /\ IsSeq(fs)
      BY <1>1, <2>4, GoMoves DEF PushOK
    <2>6. UNCHANGED <<plan, net, tasks, media, mutex, deleted, mIsOpen, mIsClosed, pending, stored, mRecvQueue>>
      BY <1>4 DEF env, io, handlers, chan
    <2>7. /\ init' = [q \in Objects |-> init'[q]] /\ \A q \in Objects : q # o => init'[q] = init[q]
          /\ KindOf[o] = "dc" => init'[o] # {}
      BY <1>2, <1>3, <1>6 DEF DataTyped
    <2>8. SlotsTyped' /\ \A q \in Objects : Offered(q)' => Offered(q)
      <3>1. CASE KindOf[o] = "server"
        <4>1. cb = [q \in Objects |-> [e \in ToSet(Slots(KindOf[q])) |-> cb[q][e]]]
          BY <1>3 DEF SlotsTyped
        <4>2. cb' = [q \in Objects |-> [e \in ToSet(Slots(KindOf[q])) |->
                        IF q = o /\ e = "announce" THEN "app" ELSE cb[q][e]]]
          BY <1>2, <1>6, <3>1, <4>1
        <4>3. SlotsTyped'
          BY <1>3, <2>6, <4>2 DEF SlotsTyped
        <4>4. \A q \in Objects : q # o => cb'[q] = cb[q]
          BY <1>2, <1>6, <3>1, <4>1
        <4> QED
          BY <3>1, <4>3, <4>4 DEF Offered
      <3>2. CASE KindOf[o] # "server"
        BY <1>3, <1>6, <2>6, <3>2 DEF SlotsTyped, Offered
      <3> QED
        BY <3>1, <3>2
    <2>9. ~Coming(o)
      <3> SUFFICES ASSUME Coming(o) PROVE FALSE
        OBVIOUS
      <3>1. Owner[o] # o /\ KindOf[o] = "track"
        BY <1>2, <1>3, <2>1, <2>3 DEF Once
      <3>2. ~Offered(o) /\ ~Waiting(o)
        BY <1>3, <3>1 DEF Offered, Waiting, Once
      <3>3. ASSUME NEW u \in Threads, AnnouncedBy(u, o) PROVE FALSE
        <4>1. PICK f \in FramesIn(u) : Announcing(f) /\ f.x = o
          BY <3>3 DEF AnnouncedBy
        <4>2. FrameOK(f)
          BY <1>3 DEF Stacks
        <4> QED
          BY <3>1, <4>1, <4>2 DEF FrameOK
      <3> QED
        BY <3>2, <3>3 DEF Coming
    <2>10. \A q \in Objects : Coming(q)' => Coming(q) /\ q # o
      <3>1. \A i \in 1..Len(fs) : ~Announcing(fs[i])
        BY <2>4 DEF Announcing
      <3>2. \A u \in Threads, q \in Objects : AnnouncedBy(u, q)' => AnnouncedBy(u, q)
        BY <1>3, <2>5, <3>1, PushedFrames
      <3>3. \A q \in Objects : Waiting(q)' <=> Waiting(q)
        BY <2>6 DEF Waiting
      <3> QED
        BY <2>8, <2>9, <3>2, <3>3 DEF Coming
    <2>11. \A s \in Objects : KindOf[s] = "server" /\ Quiet(s) => Quiet(s)'
      <3>1. ASSUME NEW s \in Objects, KindOf[s] = "server", NEW i \in 1..Len(fs) PROVE ~Of(fs[i], s)
        BY <1>2, <2>4, <3>1 DEF Of, Announcing
      <3> QED
        BY <1>3, <2>5, <2>6, <3>1, QuietKept
    <2>12. \A i \in 1..Len(fs) : \/ Tame(fs[i])
                                 \/ fs[i].op = "find" /\ fs[i].o = o /\ known' = known
      BY <2>4
    <2>13. Emplace(o) /\ alive' = [alive EXCEPT ![o] = "alive"]
      BY <1>6
    <2> QED
      BY <1>1, <1>2, <2>1, <2>2, <2>4, <2>5, <2>6, <2>7, <2>8, <2>10, <2>11, <2>12, <2>13, EmplacedInv
  <1>7. ASSUME ~(KindOf[o] = "track" /\ TrackDescription(Top(t).x) = {})
        PROVE  /\ Fresh(o) /\ Emplace(o)
               /\ alive' = [alive EXCEPT ![o] = "alive"]
               /\ \E r : init' = [init EXCEPT ![o] = r] /\ (KindOf[o] = "dc" => r # {})
               /\ cb' = IF KindOf[o] = "server" THEN [cb EXCEPT ![o].announce = "app"] ELSE cb
               /\ IF Owner[o] = o
                  THEN Go(t, <<>>) /\ known' = known \cup {lastId + 1}
                  ELSE Go(t, <<F("find", o, "create", None)>>) /\ known' = known
    <2>1. /\ Fresh(o) /\ Emplace(o)
          /\ alive' = [alive EXCEPT ![o] = "alive"]
          /\ cb' = IF KindOf[o] = "server" THEN [cb EXCEPT ![o].announce = "app"] ELSE cb
          /\ IF Owner[o] = o
             THEN Go(t, <<>>) /\ known' = known \cup {lastId + 1}
             ELSE Go(t, <<F("find", o, "create", None)>>) /\ known' = known
      BY <1>0, <1>7 DEF Create, Return
    <2>2. \E r : init' = [init EXCEPT ![o] = r] /\ (KindOf[o] = "dc" => r # {})
      <3> DEFINE r == CASE KindOf[o] = "dc" -> {ReliabilityOf(Top(t).x)}
                        [] KindOf[o] = "track" -> TrackDescription(Top(t).x)
                        [] OTHER -> {}
      <3>1. init' = [init EXCEPT ![o] = r]
        BY <1>0, <1>7 DEF Create
      <3>2. KindOf[o] = "dc" => r # {}
        OBVIOUS
      <3> HIDE DEF r
      <3> QED
        BY <3>1, <3>2
    <2> QED
      BY <2>1, <2>2
  <1>8. KindOf[o] = "track" /\ TrackDescription(Top(t).x) = {} => Go(t, <<>>) /\ UNCHANGED <<tables, known, cb, life>>
    BY <1>0 DEF Create, Return
  <1> QED
    BY <1>5, <1>6, <1>7, <1>8

\* An announced object gets its handle, before the application hears of it.
LEMMA ClosureAnnounceInv ==
    ASSUME Inv, NEW t \in Threads, Closure(t), Top(t).ev = "announce"
    PROVE  Inv'
  <1>0. PICK new : new = Top(t).x
    OBVIOUS
  <1>1. /\ stack[t] # <<>> /\ ~Naming(Top(t)) /\ Top(t).op = "closure" /\ ~At(t, "stop")
        /\ Announcing(Top(t))
    BY DEF Closure, At, Top, Naming, Announcing
  <1>2. /\ new \in Objects /\ Owner[new] = Top(t).o /\ Owner[new] # new /\ Owner[new] \in Objects
        /\ FrameOK(Top(t)) /\ Announced
        /\ KindOf[Owner[new]] = "server" => t = Server
        /\ Top(t) \in FramesIn(t)
    BY <1>0, <1>1, TopIs DEF FrameOK, FrameFrom
  <1>3. Stacks /\ Once /\ DataTyped /\ SlotsTyped /\ Handled /\ Numbered
    BY DEF Inv
  <1>4. AnnouncedBy(t, new)
    BY <1>0, <1>1, <1>2 DEF AnnouncedBy
  <1>5. id[new] = 0 /\ id[Owner[new]] # 0 /\ (KindOf[new] = "dc" => init[new] # {})
    BY <1>2, <1>3, <1>4 DEF Once, Coming
  <1>6. /\ Emplace(new) /\ alive' = [alive EXCEPT ![new] = "alive"]
        /\ Go(t, <<F("find", new, "announce", None), [Top(t) EXCEPT !.op = "in"]>>)
    BY <1>0 DEF Closure
  <1>7. UNCHANGED <<plan, net, tasks, media, mutex, deleted, mIsOpen, mIsClosed, pending, stored, mRecvQueue,
                    known, init, cb>>
    BY DEF Closure, env, io, handlers, slots, chan
  <1>8. PICK a : a = F("find", new, "announce", None)
    OBVIOUS
  <1>9. PICK b : b = [Top(t) EXCEPT !.op = "in"]
    OBVIOUS
  <1>10. FrameOK(a) /\ FrameFrom(t, a) /\ a.op = "find" /\ a.o = new
    <2>1. a.op = "find" /\ a.o = new /\ a.ev = "announce" /\ FrameOK(a)
      BY <1>2, <1>8 DEF FrameOK, Announcing, Naming, F
    <2> QED
      BY <1>2, <2>1 DEF FrameFrom, Announcing, Naming
  <1>11. Tame(b)
    BY <1>1, <1>2, <1>9 DEF FrameOK, Tame, Late, Announcing, Naming
  <1> DEFINE fs == <<a, b>>
  <1>12. Go(t, fs)
    BY <1>6, <1>8, <1>9
  <1>13. IsSeq(fs) /\ Len(fs) = 2 /\ fs[1] = a /\ fs[2] = b
    BY TwoIs
  <1> HIDE DEF fs
  <1>14. \A i \in 1..Len(fs) : (i = 1 /\ fs[i] = a) \/ (i \in 2..Len(fs) /\ Tame(fs[i]))
    <2> TAKE i \in 1..Len(fs)
    <2>1. i = 1 \/ i = 2
      BY <1>13
    <2> QED
      BY <1>11, <1>13, <2>1
  <1>15. PushOK(t, fs)
    <2> SUFFICES ASSUME NEW i \in 1..Len(fs)
                 PROVE  /\ FrameOK(fs[i]) /\ FrameFrom(t, fs[i])
                        /\ i \in 2..Len(fs) => ~Late(fs[i])
                        /\ fs[i].op = "body" => \E k \in DOMAIN plan.body : RestOf(fs[i].rest, plan.body[k])
                        /\ fs[i].op # "erase"
      BY <1>13 DEF PushOK
    <2>1. CASE i = 1 /\ fs[i] = a
      <3>1. ~(i \in 2..Len(fs))
        BY <2>1
      <3> QED
        BY <1>10, <2>1, <3>1
    <2>2. CASE Tame(fs[i])
      BY <2>2 DEF Tame, FrameFrom, Late
    <2> QED
      BY <1>14, <2>1, <2>2
  <1>16. Moves(t, fs)
    BY <1>1, <1>12, GoMoves
  <1>17. \A i \in 1..Len(fs) : ~Announcing(fs[i]) /\ (Naming(fs[i]) => fs[i] = a)
    <2> TAKE i \in 1..Len(fs)
    <2>1. CASE fs[i] = a
      BY <1>10, <2>1 DEF Announcing
    <2>2. CASE Tame(fs[i])
      BY <2>2 DEF Tame, Late
    <2> QED
      BY <1>14, <2>1, <2>2
  <1>18. SlotsTyped' /\ \A q \in Objects : Offered(q)' <=> Offered(q)
    BY <1>3, <1>7 DEF SlotsTyped, Offered
  <1>19. \A q \in Objects : Coming(q)' => Coming(q) /\ q # new
    <2>1. \A u \in Threads, q \in Objects : AnnouncedBy(u, q)' => u # t /\ AnnouncedBy(u, q)
      BY <1>3, <1>13, <1>16, <1>17, PushedFrames
    <2>2. \A q \in Objects : Waiting(q)' <=> Waiting(q)
      BY <1>7 DEF Waiting
    <2>3. ~Offered(new) /\ ~Waiting(new) /\ \A u \in Threads : AnnouncedBy(u, new) => t = u
      BY <1>2, <1>3, <1>4 DEF Once
    <2> QED
      BY <1>18, <2>1, <2>2, <2>3 DEF Coming
  <1>20. \A s \in Objects : KindOf[s] = "server" /\ Quiet(s) => Quiet(s)'
    <2>1. ASSUME NEW s \in Objects, Quiet(s), t = Server, NEW i \in 1..Len(fs) PROVE ~Of(fs[i], s)
      <3>1. s # Owner[new]
        BY <1>1, <1>2, <2>1 DEF Quiet
      <3> QED
        BY <1>10, <1>17, <3>1 DEF Of
    <2> QED
      BY <1>3, <1>7, <1>13, <1>16, <2>1, QuietKept
  <1>21. \A i \in 1..Len(fs) : \/ Tame(fs[i])
                               \/ fs[i].op = "find" /\ fs[i].o = new /\ known' = known
    BY <1>7, <1>10, <1>14
  <1>22. known' = known /\ \E i \in 1..Len(fs) : fs[i].op = "find" /\ fs[i].o = new
    BY <1>7, <1>10, <1>13
  <1>23. /\ init' = [q \in Objects |-> init'[q]] /\ \A q \in Objects : q # new => init'[q] = init[q]
         /\ KindOf[new] = "dc" => init'[new] # {}
    BY <1>3, <1>5, <1>7 DEF DataTyped
  <1>24. UNCHANGED <<plan, net, tasks, media, mutex, deleted, mIsOpen, mIsClosed, pending, stored, mRecvQueue>>
    BY <1>7
  <1> QED
    BY <1>1, <1>2, <1>5, <1>6, <1>15, <1>16, <1>18, <1>19, <1>20, <1>21, <1>22, <1>23, <1>24, EmplacedInv

-----------------------------------------------------------------------------
\* Handles erased.
LEMMA ErasedInv ==
    ASSUME Inv, NEW t \in Threads, NEW fs, PushOK(t, fs), Moves(t, fs),
           stack[t] # <<>>, ~Naming(Top(t)), ~At(t, "stop"),
           \A i \in 1..Len(fs) :
              /\ fs[i].op \in {"destroy", "return", "erasedAll"}
              /\ fs[i].op = "destroy" /\ KindOf[fs[i].o] \in {"pc", "server"} => id[fs[i].o] # 0
              /\ fs[i].op = "return" /\ fs[i].ev = "deleted" => id[fs[i].o] # 0 /\ ~Registered(fs[i].o)',
           UNCHANGED <<plan, lastId, id, known, deleted, mIsOpen, mIsClosed, alive, init, net, tasks,
                       cb, stored, pending, mRecvQueue>>,
           mutex' \in Threads \cup {None},
           table' \in [Kinds -> SUBSET (Nat \X Objects)], media' = [k \in Tables |-> media'[k]],
           Numbered',
           \A q \in Objects : Registered(q)' => Registered(q),
           \A q \in Objects : Safe(q) /\ Registered(q) => Registered(q)',
           \A u \in Threads, q \in Objects : NamedBy(u, q) => Registered(q)',
           \A u \in Threads : \A f \in FramesIn(u) :
              f.op = "inherit" /\ KindOf[Owner[f.o]] = "server" => Registered(Owner[f.o])'
    PROVE  Inv'
  <1>1. Stacks /\ Once /\ DataTyped /\ SlotsTyped /\ Handled /\ Numbered /\ Disciplined /\ Erasing /\ ToldOf
    BY DEF Inv
  <1>2. IsSeq(fs)
    BY DEF PushOK
  <1>3. Stacks'
    BY <1>1, StacksKept
  <1>4. \A i \in 1..Len(fs) : ~Announcing(fs[i]) /\ ~Naming(fs[i])
                              /\ (\A q \in Objects : ~Further(fs[i], q) /\ ~Ending(fs[i], q))
    <2> TAKE i \in 1..Len(fs)
    <2>1. fs[i].op \in {"destroy", "return", "erasedAll"}
      OBVIOUS
    <2> QED
      BY <2>1 DEF Announcing, Naming, Further, Ending
  <1>5. \A q \in Objects : Safe(q)' => Safe(q)
    BY <1>1, <1>2, <1>4, SafeKept
  <1>6. /\ \A q \in Objects : ~NamedBy(t, q)
        /\ \A u \in Threads, q \in Objects :
              (AnnouncedBy(u, q)' => AnnouncedBy(u, q)) /\ (NamedBy(u, q)' => NamedBy(u, q))
    BY <1>1, <1>2, <1>4, PushedFrames
  <1>7. \A u \in Threads \ {t} : FramesIn(u)' = FramesIn(u) /\ stack'[u] = stack[u]
    BY <1>1, <1>2, MovedFrames, MovesIs
  <1>8. \A u \in Threads : \A f \in FramesIn(u)' :
           f \in FramesIn(u) \/ \E i \in 1..Len(fs) : f = fs[i]
    <2> TAKE u \in Threads
    <2> TAKE f \in FramesIn(u)'
    <2>1. CASE u = t
      BY <1>1, <1>2, <2>1, MovedFrames
    <2>2. CASE u # t
      BY <1>7, <2>2
    <2> QED
      BY <2>1, <2>2
  <1>9. Handled'
    <2>1. \A u \in Threads : \A f \in FramesIn(u)' :
             /\ f.op = "destroy" /\ KindOf[f.o] \in {"pc", "server"} => id[f.o] # 0
             /\ f.op = "create" /\ Owner[f.o] # f.o => id[Owner[f.o]] # 0
             /\ f.op \in {"packetize", "chain"} => id[f.o] # 0
      BY <1>1, <1>8 DEF Handled
    <2> QED
      BY <1>1, <2>1 DEF Handled
  <1>10. Once'
    <2>1. /\ \A q \in Objects : (Waiting(q)' <=> Waiting(q)) /\ (Offered(q)' <=> Offered(q))
          /\ Announced' = Announced
      BY DEF Waiting, Offered, Announced
    <2>2. \A q \in Objects : Coming(q)' => Coming(q)
      BY <1>6, <2>1 DEF Coming
    <2>3. ASSUME NEW q \in Objects
          PROVE  /\ Coming(q)' => /\ id[q] = 0 /\ id[Owner[q]] # 0 /\ Owner[q] # q
                                  /\ KindOf[q] = "dc" => init[q] # {}
                                  /\ Announced
                 /\ Offered(q) => ~Waiting(q)
                 /\ \A u \in Threads : AnnouncedBy(u, q)' =>
                       ~Offered(q) /\ ~Waiting(q) /\ \A v \in Threads : AnnouncedBy(v, q)' => u = v
                 /\ \A u \in Threads : NamedBy(u, q)' =>
                       /\ Registered(q)' /\ id[q] \notin known
                       /\ \A v \in Threads : NamedBy(v, q)' => u = v
      BY <1>1, <1>6, <2>2 DEF Once
    <2>4. \A p \in Objects : \A i \in 1..Len(pending[p]) :
             /\ pending[p][i] \in Objects
             /\ KindOf[pending[p][i]] = "dc" /\ Owner[pending[p][i]] = p
             /\ \A j \in 1..Len(pending[p]) : pending[p][i] = pending[p][j] => i = j
      BY <1>1 DEF Once
    <2>5. \A i \in 1..Len(net) : Announces(net[i]) => Announced
      BY <1>1 DEF Once
    <2> QED
      BY <2>1, <2>3, <2>4, <2>5 DEF Once
  <1>11. Disciplined'
    <2>1. ASSUME NEW q \in Objects, Safe(q)'
          PROVE  /\ id[q] = 0 \/ Registered(q)'
                 /\ \A u \in Threads : \A f \in FramesIn(u)' : ~Ending(f, q)
      <3>1. /\ id[q] = 0 \/ Registered(q)
            /\ \A u \in Threads : \A f \in FramesIn(u) : ~Ending(f, q)
        BY <1>1, <1>5, <2>1 DEF Disciplined
      <3> QED
        BY <1>4, <1>5, <1>8, <2>1, <3>1
    <2> QED
      BY <2>1 DEF Disciplined, Ending
  <1>12. \A s \in Objects : KindOf[s] = "server" /\ Quiet(s) => Quiet(s)'
    <2>1. \A s \in Objects : \A i \in 1..Len(fs) : ~Of(fs[i], s)
      BY <1>4 DEF Of
    <2> QED
      BY <1>1, <1>2, <2>1, QuietKept
  <1>13. Erasing'
    <2>1. ASSUME NEW u \in Threads, NEW f \in FramesIn(u)'
          PROVE  /\ f.op = "erase" => id[f.o] \in known
                 /\ f.op = "return" /\ f.ev = "deleted" => id[f.o] # 0 /\ ~Registered(f.o)'
                 /\ f.op = "inherit" /\ KindOf[Owner[f.o]] = "server" => Registered(Owner[f.o])'
      <3>1. CASE f \in FramesIn(u)
        <4>1. f.op = "return" => f.o \in Objects
          BY <1>1, <3>1 DEF Stacks, FrameOK
        <4> QED
          BY <1>1, <3>1, <4>1 DEF Erasing
      <3>2. CASE \E i \in 1..Len(fs) : f = fs[i]
        BY <3>2
      <3> QED
        BY <1>8, <3>1, <3>2
    <2>2. ASSUME NEW u \in Threads, At(u, "erase")', KindOf[Top(u).o]' = "server"
          PROVE  Quiet(Top(u).o)'
      <3>1. CASE u # t
        <4>1. stack'[u] = stack[u]
          BY <1>7, <3>1
        <4>2. At(u, "erase") /\ Top(u)' = Top(u) /\ KindOf[Top(u).o] = "server" /\ stack[u] # <<>>
          BY <2>2, <4>1 DEF At, Top
        <4>3. PICK s \in Objects : s = Top(u).o
          <5>1. FrameOK(Top(u)) /\ Top(u).op = "erase"
            BY <4>2, TopIs DEF At, Top
          <5> QED
            BY <5>1 DEF FrameOK
        <4>4. Quiet(s)
          BY <1>1, <4>2, <4>3 DEF Erasing
        <4>5. Quiet(s)'
          BY <1>12, <4>2, <4>3, <4>4
        <4>6. s = Top(u)'.o
          BY <4>2, <4>3
        <4> QED
          BY <4>5, <4>6 DEF Quiet
      <3>2. CASE u = t /\ fs # <<>>
        <4>1. Len(fs) > 0
          BY <1>2, <3>2, NonEmptyIs
        <4>2. 1 \in 1..Len(fs) /\ stack'[t][1] = fs[1] /\ IsSeq(stack'[t]) /\ stack'[t] # <<>>
          BY <1>1, <1>2, <2>2, <3>2, <4>1, MovesIs DEF At
        <4>3. Top(t)' = fs[1]
          BY <4>2, TailIs DEF Top
        <4>4. fs[1].op = "erase"
          BY <2>2, <3>2, <4>3 DEF At, Top
        <4> QED
          BY <4>2, <4>4
      <3>3. CASE u = t /\ fs = <<>>
        BY <1>1, <2>2, <3>3, StoppedFirst
      <3> QED
        BY <3>1, <3>2, <3>3
    <2>3. deleted' \subseteq Objects /\ \A q \in deleted' : id'[q] # 0 /\ ~Registered(q)'
      BY <1>1 DEF Erasing
    <2> QED
      BY <2>1, <2>2, <2>3 DEF Erasing
  <1>14. ToldOf'
    <2> SUFFICES ASSUME NEW q \in Objects, Registered(q)'
                 PROVE  id[q] \in known \/ (\E u \in Threads : NamedBy(u, q)') \/ ~Registered(Owner[q])'
      BY DEF ToldOf
    <2>1. Registered(q) /\ Owner[q] \in Objects
      BY SlotsAre
    <2>2. id[q] \in known \/ (\E u \in Threads : NamedBy(u, q)) \/ ~Registered(Owner[q])
      BY <1>1, <2>1 DEF ToldOf
    <2>3. \A u \in Threads \ {t} : NamedBy(u, q) => NamedBy(u, q)'
      BY <1>7 DEF NamedBy
    <2> QED
      BY <1>6, <2>1, <2>2, <2>3
  <1>15. DataTyped' /\ SlotsTyped'
    BY <1>1 DEF DataTyped, SlotsTyped
  <1> QED
    BY <1>3, <1>9, <1>10, <1>11, <1>13, <1>14, <1>15 DEF Inv

\* erase*: the handle goes from its table, with all that is kept under it.
LEMMA EraseInv == ASSUME Inv, NEW t \in Threads, Erase(t) PROVE Inv'
  <1>0. PICK o : o = Top(t).o
    OBVIOUS
  <1>1. /\ stack[t] # <<>> /\ ~Naming(Top(t)) /\ Top(t).op = "erase" /\ Top(t).op # "stop" /\ ~At(t, "stop")
        /\ At(t, "erase")
    BY DEF Erase, At, Top, Naming
  <1>2. o \in Objects /\ Top(t) \in FramesIn(t)
    BY <1>0, <1>1, TopIs DEF FrameOK
  <1>3. Stacks /\ Once /\ DataTyped /\ SlotsTyped /\ Handled /\ Numbered /\ Disciplined /\ Erasing
    BY DEF Inv
  <1>4. id[o] \in known /\ id[o] # 0 /\ KindOf[o] \in Kinds
    BY <1>0, <1>1, <1>2, <1>3, SlotsAre DEF Erasing, DataTyped
  <1>5. None # "deleted"
    BY CapiAssumption
  <1>6. UNCHANGED <<env, io, lastId, id, mMediaHandler, chain, app, slots, chan, life>>
    BY DEF Erase
  <1>7. CASE ~Registered(o)
    <2>1. Tame(F("return", o, None, None))
      BY <1>2, <1>5, SimpleTame
    <2>2. Go(t, <<F("return", o, None, None)>>) /\ UNCHANGED <<table, userPointer, media>>
      BY <1>0, <1>7 DEF Erase
    <2>3. SlotsTyped'
      BY <1>3, <1>6 DEF SlotsTyped, slots, chan
    <2> QED
      BY <1>1, <1>6, <2>1, <2>2, <2>3, OneFrame, OnlyFrames DEF tables, handlers, app, slots, chan
  <1>8. CASE Registered(o)
    <2>1. EraseEntry(o) /\ Go(t, <<F("return", o, "deleted", None)>>)
      BY <1>0, <1>8 DEF Erase
    <2>2. /\ \A k \in Kinds : \A e : e \in table'[k] <=> e \in table[k] /\ ~(k = KindOf[o] /\ e = <<id[o], o>>)
          /\ table' \in [Kinds -> SUBSET (Nat \X Objects)]
      <3>1. table \in [Kinds -> SUBSET (Nat \X Objects)]
        BY <1>3 DEF DataTyped
      <3>2. table' = [table EXCEPT ![KindOf[o]] = @ \ {<<id[o], o>>}]
        BY <2>1 DEF EraseEntry
      <3> QED
        BY <1>4, <3>1, <3>2
    <2>3. UNCHANGED <<plan, lastId, id, known, deleted, mIsOpen, mIsClosed, alive, init, net, tasks, mutex,
                      cb, stored, pending, mRecvQueue>>
      BY <1>6 DEF env, io, app, slots, chan, life
    <2>4. ~Registered(o)'
      BY <1>4, <2>2, <2>3 DEF Registered
    <2>5. \A q \in Objects : q # o => (Registered(q)' <=> Registered(q))
      <3> SUFFICES ASSUME NEW q \in Objects, q # o PROVE Registered(q)' <=> Registered(q)
        OBVIOUS
      <3>1. KindOf[q] \in Kinds /\ <<id[q], q>> # <<id[o], o>>
        BY SlotsAre
      <3> QED
        BY <2>2, <2>3, <3>1 DEF Registered
    <2>6. \A q \in Objects : id[q] = id[o] => q = o
      BY <1>2, <1>3, <1>4 DEF Numbered
    <2>7. /\ media' = [k \in Tables |-> media'[k]]
          /\ \A m \in Tables : \A i \in DOMAIN media'[m] :
                i \in DOMAIN media[m] /\ (KindOf[o] = "track" => i # id[o])
      <3>1. CASE KindOf[o] = "track"
        <4>1. media' = [k \in Tables |-> Without(media[k], id[o])]
          BY <2>1, <3>1 DEF EraseEntry
        <4>2. \A k \in Tables : media'[k] = Without(media[k], id[o])
          BY <4>1
        <4>3. \A k \in Tables : DOMAIN media'[k] = DOMAIN media[k] \ {id[o]}
          BY <4>2 DEF Without
        <4> QED
          BY <4>1, <4>3
      <3>2. CASE KindOf[o] # "track"
        BY <1>3, <2>1, <3>2 DEF EraseEntry, DataTyped
      <3> QED
        BY <3>1, <3>2
    <2>8. Numbered'
      <3>1. \A k \in Kinds : \A e \in table'[k] : KindOf[e[2]] = k /\ e[1] = id[e[2]] /\ id[e[2]] # 0
        BY <1>3, <2>2 DEF Numbered
      <3>2. DOMAIN userPointer' = {id[q] : q \in {r \in Objects : Registered(r)'}}
        <4>1. userPointer' = Without(userPointer, id[o])
          BY <2>1 DEF EraseEntry
        <4>2. DOMAIN userPointer' = DOMAIN userPointer \ {id[o]}
          BY <4>1 DEF Without
        <4>3. DOMAIN userPointer = {id[q] : q \in {r \in Objects : Registered(r)}}
          BY <1>3 DEF Numbered
        <4>4. \A i : i \in DOMAIN userPointer <=> \E q \in Objects : Registered(q) /\ i = id[q]
          BY <4>3
        <4> DEFINE after == {id[q] : q \in {r \in Objects : Registered(r)'}}
        <4>5. \A i : i \in after <=> \E q \in Objects : Registered(q)' /\ i = id[q]
          OBVIOUS
        <4>6. \A i : i \in DOMAIN userPointer' <=> i \in after
          <5> HIDE DEF after
          <5> TAKE i
          <5>1. ASSUME i \in DOMAIN userPointer' PROVE i \in after
            <6>1. PICK q \in Objects : Registered(q) /\ i = id[q]
              BY <4>2, <4>4, <5>1
            <6>2. q # o
              BY <4>2, <5>1, <6>1
            <6> QED
              BY <2>5, <4>5, <6>1, <6>2
          <5>2. ASSUME i \in after PROVE i \in DOMAIN userPointer'
            <6>1. PICK q \in Objects : Registered(q)' /\ i = id[q]
              BY <4>5, <5>2
            <6>2. q # o
              BY <2>4, <6>1
            <6> QED
              BY <2>5, <2>6, <4>2, <4>4, <6>1, <6>2
          <5> QED
            BY <5>1, <5>2
        <4> HIDE DEF after
        <4>7. DOMAIN userPointer' = after
          BY <4>6
        <4> QED
          BY <4>7 DEF after
      <3>3. \A m \in Tables : \A i \in DOMAIN media'[m] :
               \E q \in Objects : KindOf[q] = "track" /\ Registered(q)' /\ i = id[q]
        <4> TAKE m \in Tables
        <4> TAKE i \in DOMAIN media'[m]
        <4>1. PICK q \in Objects : KindOf[q] = "track" /\ Registered(q) /\ i = id[q]
          BY <1>3, <2>7 DEF Numbered
        <4>2. q # o
          BY <2>7, <4>1
        <4> QED
          BY <2>5, <4>1, <4>2
      <3> QED
        BY <1>3, <2>3, <3>1, <3>2, <3>3 DEF Numbered
    <2>9. ~Safe(o)
      BY <1>0, <1>1, <1>2, <1>3 DEF Disciplined, Ending
    <2>10. \A u \in Threads, q \in Objects : NamedBy(u, q) => Registered(q)'
      BY <1>3, <1>4, <2>5 DEF Once
    <2>11. ASSUME NEW u \in Threads, NEW f \in FramesIn(u), f.op = "inherit", KindOf[Owner[f.o]] = "server"
           PROVE  Registered(Owner[f.o])'
      <3>1. Registered(Owner[f.o]) /\ FrameOK(f) /\ FrameFrom(u, f) /\ Naming(f)
        BY <1>3, <2>11 DEF Erasing, Stacks, Naming
      <3>2. u = Server /\ Owner[f.o] \in Objects
        BY <2>11, <3>1, SlotsAre DEF FrameOK, FrameFrom
      <3>3. Owner[f.o] # o
        <4> SUFFICES ASSUME Owner[f.o] = o PROVE FALSE
          OBVIOUS
        <4>1. Quiet(o)
          BY <1>0, <1>1, <1>3, <2>11 DEF Erasing
        <4> QED
          BY <2>11, <3>1, <3>2, <4>1 DEF Quiet
      <3> QED
        BY <2>5, <3>1, <3>2, <3>3
    <2>12. PICK a : a = F("return", o, "deleted", None)
      OBVIOUS
    <2>13. FrameOK(a) /\ FrameFrom(t, a) /\ a.op = "return" /\ a.o = o
      <3>1. a.op = "return" /\ a.o = o /\ FrameOK(a)
        BY <1>2, <2>12 DEF FrameOK, Announcing, Naming, F
      <3> QED
        BY <3>1 DEF FrameFrom, Announcing, Naming
    <2>14. PushOK(t, <<a>>) /\ IsSeq(<<a>>) /\ Len(<<a>>) = 1 /\ <<a>>[1] = a
      BY <2>13, OnePush
    <2>15. PICK fs : fs = <<a>>
      OBVIOUS
    <2>16. \A i \in 1..Len(fs) : fs[i] = a
      <3>1. \A i \in 1..1 : i = 1
        OBVIOUS
      <3> QED
        BY <2>14, <2>15, <3>1
    <2>17. Moves(t, fs) /\ PushOK(t, fs)
      BY <1>1, <2>1, <2>12, <2>14, <2>15, GoMoves
    <2>18. \A i \in 1..Len(fs) :
              /\ fs[i].op \in {"destroy", "return", "erasedAll"}
              /\ fs[i].op = "destroy" /\ KindOf[fs[i].o] \in {"pc", "server"} => id[fs[i].o] # 0
              /\ fs[i].op = "return" /\ fs[i].ev = "deleted" => id[fs[i].o] # 0 /\ ~Registered(fs[i].o)'
      BY <1>4, <2>4, <2>13, <2>16
    <2>19. \A q \in Objects : (Registered(q)' => Registered(q)) /\ (Safe(q) /\ Registered(q) => Registered(q)')
      BY <2>4, <2>5, <2>9
    <2>20. mutex' \in Threads \cup {None}
      BY <1>3, <2>3 DEF DataTyped
    <2> QED
      BY <1>1, <2>2, <2>3, <2>7, <2>8, <2>10, <2>11, <2>17, <2>18, <2>19, <2>20, ErasedInv
  <1> QED
    BY <1>7, <1>8

\* eraseAll(): while rtcCleanup() runs, no other call or event makes a handle.
LEMMA CleaningAlone ==
    ASSUME Inv, NEW t \in Threads, At(t, "eraseAll"), NEW u \in Threads, NEW f \in FramesIn(u)
    PROVE  ~Naming(f)
  <1> SUFFICES ASSUME Naming(f) PROVE FALSE
    OBVIOUS
  <1>1. Stacks /\ DataTyped
    BY DEF Inv
  <1>2. plan \in Plans
    BY <1>1 DEF DataTyped
  <1>3. Mine(t, Cleans) /\ stack[t] # <<>> /\ Top(t).op = "eraseAll"
    BY TopIs DEF FrameFrom, At, Top
  <1>4. Some(plan, App, Cleans)
    <2>1. {t} \cap App \subseteq App
      OBVIOUS
    <2> QED
      BY <1>3, <2>1 DEF Mine, Some
  <1>5. /\ \A i \in 1..Len(plan.net) : ~Announces(plan.net[i])
        /\ \E a \in App : ~Some(plan, App \ {a}, LAMBDA c : Creates(c) \/ Cleans(c))
    BY <1>2, <1>4, DisciplineAssumption
  <1>6. PICK a \in App : ~Some(plan, App \ {a}, LAMBDA c : Creates(c) \/ Cleans(c))
    BY <1>5
  <1>7. /\ \A v \in App \ {a} : ~In(plan.calls[v], Creates) /\ ~In(plan.calls[v], Cleans)
        /\ \A k \in DOMAIN plan.body : ~In(plan.body[k], Creates) /\ ~In(plan.body[k], Cleans)
    BY <1>6 DEF Some, In
  <1>8. t = a
    BY <1>3, <1>7 DEF Mine, Some
  <1>9. FrameFrom(u, f)
    BY <1>1 DEF Stacks
  <1>10. ~Announced
    BY <1>5 DEF Announced
  <1>11. Mine(u, Creates)
    BY <1>9, <1>10 DEF FrameFrom
  <1>12. u = a
    BY <1>7, <1>11 DEF Mine, Some
  <1>13. f = Top(t)
    BY <1>1, <1>8, <1>12, LateOnTop DEF Late
  <1> QED
    BY <1>3, <1>13 DEF Naming

\* eraseAll() preserves Inv: nothing is kept under the handles it ends.
LEMMA EraseAllInv == ASSUME Inv, NEW t \in Threads, EraseAll(t) PROVE Inv'
  <1> DEFINE held == {o \in Objects : alive[o] = "alive"
                       /\ \A u \in Threads \ {t} : \A i \in DOMAIN stack[u] :
                             stack[u][i].op \notin {"erase", "return"} \/ stack[u][i].o # o}
  <1>1. /\ stack[t] # <<>> /\ ~Naming(Top(t)) /\ Top(t).op = "eraseAll" /\ ~At(t, "stop") /\ At(t, "eraseAll")
    BY DEF EraseAll, At, Top, Naming
  <1>2. Top(t) \in FramesIn(t)
    BY <1>1, TopIs
  <1>3. Stacks /\ Once /\ DataTyped /\ SlotsTyped /\ Handled /\ Numbered /\ Disciplined /\ Erasing
    BY DEF Inv
  <1>4. UNCHANGED <<plan, lastId, id, known, deleted, mIsOpen, mIsClosed, alive, init, net, tasks,
                    cb, stored, pending, mRecvQueue>>
    BY DEF EraseAll, io, app, slots, chan, life
  <1>5. /\ mutex' = t
        /\ table' = [k \in Kinds |-> {}]
        /\ userPointer' = << >>
        /\ media' = [k \in Tables |-> << >>]
    BY DEF EraseAll
  <1>6. PICK s : s = SetToSeq(held)
    OBVIOUS
  <1>7. Go(t, [i \in DOMAIN s |-> F("destroy", s[i], None, None)] \o <<F("erasedAll", None, None, None)>>)
    BY <1>6 DEF EraseAll
  <1>8. held \subseteq Objects /\ \A o \in held : alive[o] = "alive"
    OBVIOUS
  <1> HIDE DEF held
  <1>9. IsFiniteSet(held)
    BY <1>8, CapiAssumption, FS_Subset
  <1>10. IsSeq(s) /\ \A i \in 1..Len(s) : s[i] \in held
    BY <1>6, <1>9, OrderIs
  <1>11. ASSUME NEW i \in 1..Len(s)
         PROVE  s[i] \in Objects /\ (KindOf[s[i]] \in {"pc", "server"} => id[s[i]] # 0)
    BY <1>3, <1>8, <1>10 DEF Handled
  <1>12. \A i \in 1..Len(s) : Tame(F("destroy", s[i], None, None))
    BY <1>11, SimpleTame
  <1> DEFINE d == [i \in DOMAIN s |-> F("destroy", s[i], None, None)]
  <1>13. IsSeq(d) /\ \A i \in 1..Len(d) : Tame(d[i])
    BY <1>10, <1>12, FrameEach
  <1>14. \A i \in 1..Len(d) : d[i].op = "destroy"
    <2>1. DOMAIN d = DOMAIN s /\ \A i \in DOMAIN d : d[i].op = "destroy"
      BY DEF F
    <2>2. d = [i \in 1..Len(d) |-> d[i]]
      BY <1>13 DEF IsSeq
    <2> QED
      BY <2>1, <2>2
  <1>15. PICK e : e = F("erasedAll", None, None, None)
    OBVIOUS
  <1>16. Tame(e) /\ e.op = "erasedAll"
    BY <1>15 DEF Tame, FrameOK, Late, Announcing, Naming, F
  <1>17. PICK r : r = <<e>>
    OBVIOUS
  <1>18. IsSeq(r) /\ \A i \in 1..Len(r) : Tame(r[i]) /\ r[i].op = "erasedAll"
    <2>1. \A i \in 1..1 : i = 1
      OBVIOUS
    <2> QED
      BY <1>16, <1>17, <2>1, OneIs
  <1>19. Go(t, d \o r)
    BY <1>7, <1>15, <1>17
  <1> HIDE DEF d
  <1>20. PICK fs : fs = d \o r
    OBVIOUS
  <1>21. IsSeq(fs) /\ \A i \in 1..Len(fs) : Tame(fs[i])
    BY <1>13, <1>18, <1>20, BothTame
  <1>22. \A i \in 1..Len(fs) : fs[i].op \in {"destroy", "erasedAll"}
    BY <1>13, <1>14, <1>18, <1>20, ConcatIs
  <1>23. Moves(t, fs) /\ PushOK(t, fs)
    BY <1>1, <1>19, <1>20, <1>21, GoMoves, TamePush
  <1>24. \A i \in 1..Len(fs) :
            /\ fs[i].op \in {"destroy", "return", "erasedAll"}
            /\ fs[i].op = "destroy" /\ KindOf[fs[i].o] \in {"pc", "server"} => id[fs[i].o] # 0
            /\ fs[i].op = "return" /\ fs[i].ev = "deleted" => id[fs[i].o] # 0 /\ ~Registered(fs[i].o)'
    <2> TAKE i \in 1..Len(fs)
    <2>1. Tame(fs[i]) /\ fs[i].op \in {"destroy", "erasedAll"}
      BY <1>21, <1>22
    <2> QED
      BY <2>1 DEF Tame
  <1>25. \A q \in Objects : ~Registered(q)' /\ ~Safe(q)
    <2> TAKE q \in Objects
    <2>1. KindOf[q] \in Kinds
      BY SlotsAre
    <2>2. ~Registered(q)'
      BY <1>5, <2>1 DEF Registered
    <2>3. Ending(Top(t), q)
      BY <1>1 DEF Ending
    <2> QED
      BY <1>2, <1>3, <2>2, <2>3 DEF Disciplined
  <1>26. /\ \A u \in Threads, q \in Objects : ~NamedBy(u, q)
         /\ \A u \in Threads : \A f \in FramesIn(u) : f.op # "inherit"
    BY <1>1, CleaningAlone DEF NamedBy, Naming
  <1>27. Numbered'
    <2>1. \A k \in Kinds : table'[k] = {}
      BY <1>5
    <2>2. DOMAIN userPointer' = {}
      BY <1>5
    <2>3. {id'[o] : o \in {q \in Objects : Registered(q)'}} = {}
      BY <1>25
    <2>4. \A m \in Tables : DOMAIN media'[m] = {}
      BY <1>5
    <2>5. \A o, q \in Objects : id'[o] = id'[q] /\ id'[o] # 0 => o = q
      BY <1>3, <1>4 DEF Numbered
    <2> QED
      BY <2>1, <2>2, <2>3, <2>4, <2>5 DEF Numbered
  <1>28. /\ mutex' \in Threads \cup {None}
         /\ table' \in [Kinds -> SUBSET (Nat \X Objects)]
         /\ media' = [k \in Tables |-> media'[k]]
    BY <1>5
  <1> QED
    BY <1>1, <1>4, <1>23, <1>24, <1>25, <1>26, <1>27, <1>28, ErasedInv

-----------------------------------------------------------------------------
\* The invariant holds at first.
LEMMA InitInv == ASSUME Init PROVE Inv
  <1>1. /\ plan \in Plans /\ net = plan.net /\ tasks = <<>> /\ lastId = 0 /\ mutex = None
        /\ table = [k \in Kinds |-> {}] /\ userPointer = << >> /\ id = [o \in Objects |-> 0]
        /\ media = [k \in Tables |-> << >>] /\ known = {} /\ deleted = {}
        /\ alive = [o \in Objects |-> "new"] /\ init = [o \in Objects |-> {}]
        /\ mIsOpen = [o \in Objects |-> FALSE] /\ mIsClosed = [o \in Objects |-> FALSE]
    BY DEF Init
  <1>2. /\ cb = [o \in Objects |-> [ev \in ToSet(Slots(KindOf[o])) |-> None]]
        /\ stored = [o \in Objects |-> {}] /\ mRecvQueue = [o \in Channels |-> <<>>]
        /\ pending = [o \in Objects |-> <<>>]
        /\ stack = [t \in Threads |-> IF t \in App THEN Body(plan.calls[t]) ELSE <<>>]
    BY DEF Init
  <1>3. PICK none : none = <<>>
    OBVIOUS
  <1>4. IsSeq(none) /\ Len(none) = 0 /\ 1..Len(none) = {}
    BY <1>3, EmptyIs
  <1>5. None # "lib" /\ RecvQueueLimit \in Nat \ {0}
    BY CapiAssumption
  <1>6. DataTyped
    <2>1. IsSeq(net) /\ \A i \in 1..Len(net) : EventOK(net[i])
      BY <1>1, PlansAssumption
    <2>2. IsSeq(tasks) /\ \A i \in 1..Len(tasks) : TaskOK(tasks[i])
      BY <1>1, <1>3, <1>4
    <2> QED
      BY <1>1, <2>1, <2>2 DEF DataTyped
  <1>7. SlotsTyped
    <2>1. /\ \A o \in Objects : IsSeq(pending[o])
          /\ \A o \in Channels : IsSeq(mRecvQueue[o]) /\ Len(mRecvQueue[o]) <= RecvQueueLimit
      BY <1>2, <1>3, <1>4, <1>5
    <2> QED
      BY <1>2, <1>5, <2>1 DEF SlotsTyped
  <1>8. ASSUME NEW t \in Threads
        PROVE  \/ stack[t] = none
               \/ \E a : /\ stack[t] = <<a>> /\ FrameOK(a) /\ a.op = "body" /\ t \in App
                         /\ a.rest = plan.calls[t]
    <2>1. CASE t \notin App
      BY <1>2, <1>3, <2>1
    <2>2. CASE t \in App
      <3>1. stack[t] = Body(plan.calls[t]) /\ IsSeq(plan.calls[t])
        BY <1>1, <1>2, <2>2, PlansAssumption
      <3>2. PICK r : r = plan.calls[t]
        OBVIOUS
      <3>3. CASE r = <<>>
        BY <1>3, <3>1, <3>2, <3>3 DEF Body
      <3>4. CASE r # <<>>
        <4>1. PICK a : a = [F("body", None, None, None) EXCEPT !.rest = r]
          OBVIOUS
        <4>2. stack[t] = <<a>>
          BY <3>1, <3>2, <3>4, <4>1 DEF Body
        <4>3. a.op = "body" /\ a.rest = r /\ FrameOK(a)
          BY <3>1, <3>2, <3>4, <4>1 DEF F, FrameOK, Announcing, Naming
        <4> QED
          BY <2>2, <3>2, <4>2, <4>3
      <3> QED
        BY <3>3, <3>4
    <2> QED
      BY <2>1, <2>2
  <1>9. ASSUME NEW t \in Threads
        PROVE  /\ IsSeq(stack[t])
               /\ \A i \in 1..Len(stack[t]) :
                     /\ i = 1 /\ Len(stack[t]) = 1 /\ t \in App
                     /\ stack[t][i].op = "body" /\ FrameOK(stack[t][i])
                     /\ stack[t][i].rest = plan.calls[t]
    <2>1. CASE stack[t] = none
      BY <1>4, <2>1
    <2>2. CASE stack[t] # none
      <3>1. PICK a : /\ stack[t] = <<a>> /\ FrameOK(a) /\ a.op = "body" /\ t \in App
                     /\ a.rest = plan.calls[t]
        BY <1>8, <2>2
      <3>2. IsSeq(stack[t]) /\ Len(stack[t]) = 1 /\ stack[t][1] = a
        BY <3>1, OneIs
      <3>3. \A i \in 1..1 : i = 1
        OBVIOUS
      <3> QED
        BY <3>1, <3>2, <3>3
    <2> QED
      BY <2>1, <2>2
  <1>10. \A t \in Threads : \A f \in FramesIn(t) : f.op = "body" /\ FrameOK(f)
    BY <1>9 DEF FramesIn
  <1>11. Stacks
    <2>1. ASSUME NEW t \in Threads, NEW f \in FramesIn(t) PROVE FrameOK(f) /\ FrameFrom(t, f)
      BY <1>10, <2>1 DEF FrameFrom, Announcing, Naming
    <2>2. ASSUME NEW t \in Threads, NEW i \in 1..Len(stack[t]) PROVE BodyFrom(t, i)
      <3>1. /\ i = 1 /\ Len(stack[t]) = 1 /\ t \in App
            /\ stack[t][i].rest = plan.calls[t]
        BY <1>9, <2>2
      <3>2. PICK r : r = plan.calls[t]
        OBVIOUS
      <3>3. IsSeq(r)
        BY <1>1, <3>1, <3>2, PlansAssumption
      <3>4. RestOf(r, r)
        BY <3>3 DEF RestOf, IsSeq
      <3> QED
        BY <3>1, <3>2, <3>4 DEF BodyFrom
    <2>3. ASSUME NEW t \in Threads, NEW i \in 2..Len(stack[t]) PROVE FALSE
      <3>1. IsSeq(stack[t])
        BY <1>9
      <3>2. i \in 1..Len(stack[t])
        BY <3>1 DEF IsSeq
      <3>3. i = 1
        BY <1>9, <3>2
      <3> QED
        BY <3>3
    <2>4. \A t \in Threads : Lower(t) = {}
      BY <2>3 DEF Lower
    <2>5. stack = [t \in Threads |-> stack[t]]
      BY <1>2
    <2> QED
      BY <1>9, <2>1, <2>2, <2>3, <2>4, <2>5 DEF Stacks
  <1>12. \A o \in Objects : ~Registered(o)
    <2> TAKE o \in Objects
    <2>1. KindOf[o] \in Kinds
      BY SlotsAre
    <2> QED
      BY <1>1, <2>1 DEF Registered
  <1>13. Numbered
    <2>1. DOMAIN userPointer = {}
      BY <1>1
    <2>2. {id[o] : o \in {q \in Objects : Registered(q)}} = {}
      BY <1>12
    <2>3. \A m \in Tables : DOMAIN media[m] = {}
      BY <1>1
    <2> QED
      BY <1>1, <2>1, <2>2, <2>3 DEF Numbered
  <1>14. Handled
    BY <1>1, <1>10 DEF Handled
  <1>15. Once
    <2>1. \A p \in Objects : 1..Len(pending[p]) = {}
      BY <1>2, <1>3, <1>4
    <2>2. \A o \in Objects : ~Offered(o)
      <3> TAKE o \in Objects
      <3>1. KindOf[o] = "dc" => "open" \in ToSet(Slots(KindOf[o]))
        BY SlotsAre
      <3> QED
        BY <1>2, <1>5, <3>1 DEF Offered
    <2>3. \A o \in Objects : ~Waiting(o)
      BY <2>1 DEF Waiting
    <2>4. \A t \in Threads, o \in Objects : ~AnnouncedBy(t, o) /\ ~NamedBy(t, o)
      BY <1>10 DEF AnnouncedBy, NamedBy, Announcing, Naming
    <2>5. \A o \in Objects : ~Coming(o)
      BY <2>2, <2>3, <2>4 DEF Coming
    <2>6. \A i \in 1..Len(net) : Announces(net[i]) => Announced
      BY <1>1 DEF Announced
    <2> QED
      BY <2>1, <2>2, <2>4, <2>5, <2>6 DEF Once
  <1>16. Disciplined
    BY <1>1, <1>10 DEF Disciplined, Ending
  <1>17. Erasing
    <2>1. \A t \in Threads : ~At(t, "erase")
      <3> TAKE t \in Threads
      <3>1. stack[t] # <<>> => Top(t) \in FramesIn(t)
        BY <1>11, BelowIs DEF FramesIn
      <3> QED
        BY <1>10, <3>1 DEF At, Top
    <2> QED
      BY <1>1, <1>10, <2>1 DEF Erasing
  <1>18. ToldOf
    BY <1>12 DEF ToldOf
  <1> QED
    BY <1>6, <1>7, <1>11, <1>13, <1>14, <1>15, <1>16, <1>17, <1>18 DEF Inv

\* Every step keeps it.
LEMMA NextInv == ASSUME Inv, [Next]_vars PROVE Inv'
  <1>1. CASE \E t \in Threads : Step(t)
    <2>1. PICK t \in Threads : Step(t)
      BY <1>1
    <2>2. CASE Trigger(t)
      <3>1. CASE cb[Top(t).o][Top(t).ev] = "lib"
        BY <2>2, <3>1, TriggerLibInv
      <3>2. CASE cb[Top(t).o][Top(t).ev] # "lib" /\ (Top(t).ev # "announce" \/ cb[Top(t).o][Top(t).ev] = None)
        BY <2>2, <3>2, TriggerInv
      <3>3. CASE Top(t).ev = "announce" /\ cb[Top(t).o][Top(t).ev] # None
        BY <2>2, <3>3, TriggerAnnounceInv
      <3> QED
        BY <3>1, <3>2, <3>3
    <2>3. CASE Closure(t)
      BY <2>3, ClosureInv, ClosureAnnounceInv
    <2>4. CASE Invoke(t) \/ EndCall(t) \/ Create(t) \/ FindPointer(t) \/ Inherit(t)
      BY <2>4, InvokeInv, EndCallInv, CreateInv, FindPointerInv, InheritInv
    <2>5. CASE Assign(t) \/ Called(t) \/ Opened(t) \/ Available(t) \/ Flush(t) \/ FlushLoop(t)
               \/ Announce(t) \/ Reset(t)
      BY <2>5, AssignInv, CalledInv, OpenedInv, AvailableInv, FlushInv, FlushLoopInv, AnnounceInv, ResetInv
    <2>6. CASE Close(t) \/ RemoteClose(t) \/ Erase(t) \/ Destroy(t) \/ Stop(t) \/ EraseAll(t) \/ ErasedAll(t)
      BY <2>6, CloseInv, RemoteCloseInv, EraseInv, DestroyInv, StopInv, EraseAllInv, ErasedAllInv
    <2>7. CASE Peek(t) \/ Discard(t) \/ Packetize(t) \/ Chain(t)
      BY <2>7, PeekInv, DiscardInv, KeptInv
    <2> QED
      BY <2>1, <2>2, <2>3, <2>4, <2>5, <2>6, <2>7 DEF Step
  <1>2. CASE Receive
    BY <1>2, ReceiveInv, ReceiveOpenInv
  <1>3. CASE Accept
    BY <1>3, AcceptInv
  <1>4. CASE RunTask
    BY <1>4, RunTaskInv
  <1>5. CASE UNCHANGED vars
    <2>1. UNCHANGED <<plan, mutex, net, tasks, table, userPointer, lastId, id, media, known, deleted,
                      cb, stored, mIsOpen, mIsClosed, mRecvQueue, pending, alive, init, stack>>
      BY <1>5 DEF vars, env, io, tables, handlers, app, slots, chan, life
    <2>2. DataTyped' /\ SlotsTyped'
      BY <2>1 DEF Inv, DataTyped, SlotsTyped
    <2>3. \A t \in Threads : FramesIn(t)' = FramesIn(t) /\ Lower(t)' = Lower(t)
      BY <2>1 DEF FramesIn, Lower
    <2>4. Stacks'
      <3>1. ASSUME NEW t \in Threads, NEW f PROVE FrameFrom(t, f)' <=> FrameFrom(t, f)
        BY <2>1 DEF FrameFrom, Mine, Some, In, Announced
      <3>2. ASSUME NEW t \in Threads, NEW i PROVE BodyFrom(t, i)' <=> BodyFrom(t, i)
        BY <2>1 DEF BodyFrom
      <3>3. Stacks
        BY DEF Inv
      <3> QED
        BY <2>1, <2>3, <3>1, <3>2, <3>3 DEF Stacks
    <2>5. Numbered' /\ Handled' /\ ToldOf'
      BY <2>1 DEF Inv, Numbered, Handled, ToldOf, Registered, FramesIn, NamedBy
    <2>6. Once'
      BY <2>1 DEF Inv, Once, Registered, FramesIn, NamedBy, AnnouncedBy, Coming, Offered, Waiting, Announced
    <2>7. Disciplined' /\ Erasing'
      <3>1. \A o \in Objects : Safe(o)' <=> Safe(o)
        BY <2>1 DEF Safe, Ahead, FramesIn, Some, In
      <3>2. \A o \in Objects : Registered(o)' <=> Registered(o)
        BY <2>1 DEF Registered
      <3>3. Disciplined'
        BY <2>1, <2>3, <3>1, <3>2 DEF Inv, Disciplined, Ending
      <3>4. Erasing'
        <4>1. ASSUME NEW t \in Threads, NEW f \in FramesIn(t)'
              PROVE  /\ f.op = "erase" => id'[f.o] \in known'
                     /\ f.op = "return" /\ f.ev = "deleted" => id'[f.o] # 0 /\ ~Registered(f.o)'
                     /\ f.op = "inherit" /\ KindOf[Owner[f.o]] = "server" => Registered(Owner[f.o])'
          BY <2>1, <2>3 DEF Inv, Erasing, Registered
        <4>2. ASSUME NEW t \in Threads, At(t, "erase")', KindOf[Top(t).o]' = "server"
              PROVE  Quiet(Top(t).o)'
          <5>1. At(t, "erase") /\ KindOf[Top(t).o] = "server"
            BY <2>1, <4>2 DEF At, Top
          <5>2. Quiet(Top(t).o)
            BY <5>1 DEF Inv, Erasing
          <5> QED
            BY <2>1, <5>2 DEF Quiet, FramesIn, Top
        <4>3. deleted' \subseteq Objects /\ \A o \in deleted' : id'[o] # 0 /\ ~Registered(o)'
          BY <2>1, <3>2 DEF Inv, Erasing
        <4> QED
          BY <4>1, <4>2, <4>3 DEF Erasing
      <3> QED
        BY <3>3, <3>4
    <2> QED
      BY <2>2, <2>4, <2>5, <2>6, <2>7 DEF Inv
  <1> QED
    BY <1>1, <1>2, <1>3, <1>4, <1>5 DEF Next

\* Inv: the invariant holds in every state of every behaviour, for any number of
\* objects, threads, calls, callbacks and events.
THEOREM Invariance == Spec => []Inv
  <1>1. Init => Inv
    BY InitInv
  <1>2. Inv /\ [Next]_vars => Inv'
    BY NextInv
  <1> QED
    BY <1>1, <1>2, PTL DEF Spec

\* Every entry of a table is the handle of an object.
LEMMA EntryIs ==
    ASSUME Inv, NEW k \in Kinds, NEW e \in table[k]
    PROVE  /\ e[2] \in Objects /\ KindOf[e[2]] = k /\ e = <<id[e[2]], e[2]>> /\ e[1] = id[e[2]]
           /\ id[e[2]] \in 1..lastId /\ Registered(e[2])
  <1>1. table \in [Kinds -> SUBSET (Nat \X Objects)] /\ id \in [Objects -> 0..lastId] /\ lastId \in Nat
    BY DEF Inv, DataTyped
  <1>2. e \in Nat \X Objects
    BY <1>1
  <1>3. KindOf[e[2]] = k /\ e[1] = id[e[2]] /\ id[e[2]] # 0
    BY DEF Inv, Numbered
  <1> QED
    BY <1>1, <1>2, <1>3 DEF Registered

\* The invariant implies the property.
LEMMA CapiInvHolds == ASSUME Inv PROVE CapiInv
  <1>1. Stacks /\ DataTyped /\ SlotsTyped /\ Numbered /\ Erasing /\ ToldOf
    BY DEF Inv
  <1>2. TypeOK
    <2>1. \A k \in Kinds : table[k] \subseteq (1..lastId) \X {o \in Objects : KindOf[o] = k}
      <3> TAKE k \in Kinds
      <3>1. ASSUME NEW e \in table[k] PROVE e \in (1..lastId) \X {o \in Objects : KindOf[o] = k}
        <4>1. e[2] \in {o \in Objects : KindOf[o] = k} /\ id[e[2]] \in 1..lastId /\ e = <<id[e[2]], e[2]>>
          BY EntryIs
        <4> QED
          BY <4>1
      <3> QED
        BY <3>1
    <2>2. DOMAIN userPointer \subseteq 1..lastId
      <3>1. ASSUME NEW o \in Objects, Registered(o) PROVE id[o] \in 1..lastId
        BY <1>1, <3>1, PointerOf DEF DataTyped
      <3> QED
        BY <1>1, <3>1 DEF Numbered
    <2>3. \A o \in Objects : \A ev \in DOMAIN cb[o] : cb[o][ev] \in {None, "app", "lib"}
      <3> TAKE o \in Objects
      <3>1. DOMAIN cb[o] = ToSet(Slots(KindOf[o]))
        BY <1>1 DEF SlotsTyped
      <3> QED
        BY <1>1, <3>1 DEF SlotsTyped
    <2> QED
      BY <1>1, <2>1, <2>2, <2>3 DEF TypeOK, DataTyped, SlotsTyped, Erasing
  <1>3. TablesConsistent
    <2>1. ASSUME NEW k \in Kinds, NEW l \in Kinds, NEW e \in table[k], NEW f \in table[l], e[1] = f[1]
          PROVE  e = f /\ k = l
      <3>1. /\ e[2] \in Objects /\ KindOf[e[2]] = k /\ e = <<id[e[2]], e[2]>> /\ e[1] = id[e[2]] /\ id[e[2]] \in 1..lastId
            /\ f[2] \in Objects /\ KindOf[f[2]] = l /\ f = <<id[f[2]], f[2]>> /\ f[1] = id[f[2]]
        BY EntryIs
      <3>2. id[e[2]] = id[f[2]] /\ id[e[2]] # 0
        <4>1. \A i \in 1..lastId : i # 0
          BY <1>1 DEF DataTyped
        <4>2. e[1] = id[e[2]] /\ f[1] = id[f[2]] /\ id[e[2]] # 0
          BY <3>1, <4>1
        <4> QED
          BY <2>1, <4>2
      <3>3. e[2] = f[2]
        BY <1>1, <3>1, <3>2 DEF Numbered
      <3> QED
        BY <3>1, <3>3
    <2>2. ASSUME NEW i \in DOMAIN userPointer PROVE \E k \in Kinds : \E e \in table[k] : e[1] = i
      <3>1. PICK o \in Objects : Registered(o) /\ i = id[o]
        BY <1>1 DEF Numbered
      <3> QED
        BY <3>1, SlotsAre DEF Registered
    <2>3. ASSUME NEW m \in Tables, NEW i \in DOMAIN media[m] PROVE \E e \in table["track"] : e[1] = i
      <3>1. PICK o \in Objects : KindOf[o] = "track" /\ Registered(o) /\ i = id[o]
        BY <1>1 DEF Numbered
      <3> QED
        BY <3>1 DEF Registered
    <2> QED
      BY <2>1, <2>2, <2>3 DEF TablesConsistent
  <1>4. HandlesTold
    <2> SUFFICES ASSUME NEW k \in Kinds, NEW e \in table[k]
                 PROVE  \/ e[1] \in known
                        \/ \E t \in Threads : stack[t] # <<>> /\ Top(t).op \in {"find", "inherit"} /\ Top(t).o = e[2]
                        \/ id[Owner[e[2]]] \notin DOMAIN userPointer
      BY DEF HandlesTold
    <2>1. e[2] \in Objects /\ e[1] = id[e[2]] /\ Registered(e[2]) /\ Owner[e[2]] \in Objects
      BY EntryIs, SlotsAre
    <2>2. CASE ~Registered(Owner[e[2]])
      BY <1>1, <2>1, <2>2, PointerOf
    <2>3. ASSUME NEW t \in Threads, NamedBy(t, e[2])
          PROVE  stack[t] # <<>> /\ Top(t).op \in {"find", "inherit"} /\ Top(t).o = e[2]
      <3>1. PICK f \in FramesIn(t) : Naming(f) /\ f.o = e[2]
        BY <2>3 DEF NamedBy
      <3>2. stack[t] # <<>> /\ f = Top(t)
        BY <1>1, <3>1, LateOnTop DEF Late
      <3> QED
        BY <3>1, <3>2 DEF Naming
    <2> QED
      BY <1>1, <2>1, <2>2, <2>3 DEF ToldOf
  <1> QED
    BY <1>2, <1>3, <1>4 DEF CapiInv

\* CapiInv: the tables of capi.cpp are sound in the middle of any call of any
\* threads.  One number is the handle of one object, a user pointer and what
\* is kept for a track go with the handle, and every handle in a table is known
\* to the application, or about to be told to it, or of an owner that is gone.
THEOREM HandlesSound == Spec => []CapiInv
  <1>1. Inv => CapiInv
    BY CapiInvHolds
  <1> QED
    BY <1>1, Invariance, PTL

-----------------------------------------------------------------------------
\* A step of a thread leaves the stacks of the others alone.
LEMMA GoOthers ==
    ASSUME Stacks, NEW u \in Threads, NEW fs, Go(u, fs) \/ stack' = stack, NEW t \in Threads, t # u
    PROVE  stack'[t] = stack[t]
  BY DEF Go, Stacks

\* A step of a thread leaves the stacks of the others alone.
LEMMA StepOthers ==
    ASSUME Stacks, NEW u \in Threads, Step(u), NEW t \in Threads, t # u
    PROVE  stack'[t] = stack[t]
  <1>1. ASSUME NEW fs, Go(u, fs) PROVE stack'[t] = stack[t]
    BY <1>1, GoOthers
  <1>2. CASE Invoke(u)
    BY <1>1, <1>2 DEF Invoke
  <1>3. CASE EndCall(u) \/ Create(u) \/ FindPointer(u) \/ Inherit(u)
    BY <1>1, <1>3 DEF EndCall, Create, FindPointer, Inherit, Return
  <1>4. CASE Assign(u) \/ Trigger(u) \/ Closure(u) \/ Called(u)
    BY <1>1, <1>4 DEF Assign, Trigger, Closure, Called, Return
  <1>5. CASE Opened(u) \/ Available(u) \/ Flush(u) \/ FlushLoop(u) \/ Announce(u) \/ Reset(u)
    BY <1>1, <1>5 DEF Opened, Available, Flush, FlushLoop, Announce, Reset, Return
  <1>6. CASE Close(u) \/ RemoteClose(u) \/ Erase(u) \/ Destroy(u)
    BY <1>1, <1>6 DEF Close, RemoteClose, Erase, Destroy, Return
  <1>7. CASE Stop(u)
    BY <1>1, <1>7 DEF Stop, Return
  <1>8. CASE EraseAll(u)
    <2> DEFINE s == SetToSeq({o \in Objects : alive[o] = "alive"
                               /\ \A v \in Threads \ {u} : \A i \in DOMAIN stack[v] :
                                     stack[v][i].op \notin {"erase", "return"} \/ stack[v][i].o # o})
               fs == [i \in DOMAIN s |-> F("destroy", s[i], None, None)] \o <<F("erasedAll", None, None, None)>>
    <2>1. Go(u, fs)
      BY <1>8 DEF EraseAll
    <2> HIDE DEF fs
    <2> QED
      BY <1>1, <2>1
  <1>9. CASE ErasedAll(u) \/ Discard(u) \/ Packetize(u) \/ Chain(u)
    BY <1>1, <1>9 DEF ErasedAll, Discard, Packetize, Chain, Return
  <1>10. CASE Peek(u)
    BY <1>1, <1>10 DEF Peek, Return
  <1> QED
    BY <1>2, <1>3, <1>4, <1>5, <1>6, <1>7, <1>8, <1>9, <1>10 DEF Step

\* A thread that is about to call a callback does that, and nothing else.
LEMMA ClosureStep ==
    ASSUME Inv, [Next]_vars, NEW t \in Threads, At(t, "closure"), stack'[t] # stack[t]
    PROVE  Closure(t)
  <1>1. Stacks
    BY DEF Inv
  <1>2. stack[t] # <<>> /\ Top(t).op = "closure" /\ \A op : At(t, op) => op = "closure"
    BY DEF At, Top
  <1>3. CASE Receive
    <2>1. t # Net
      BY <1>2, <1>3 DEF Receive
    <2>2. stack' = stack \/ \E fs : stack' = [stack EXCEPT ![Net] = fs]
      BY <1>3 DEF Receive
    <2> QED
      BY <1>1, <2>1, <2>2 DEF Stacks
  <1>4. CASE Accept
    <2>1. t # Server /\ \E fs : stack' = [stack EXCEPT ![Server] = fs]
      BY <1>2, <1>4 DEF Accept
    <2> QED
      BY <1>1, <2>1 DEF Stacks
  <1>5. CASE RunTask
    <2>1. t # Proc /\ \E fs : stack' = [stack EXCEPT ![Proc] = fs]
      BY <1>2, <1>5 DEF RunTask
    <2> QED
      BY <1>1, <2>1 DEF Stacks
  <1>6. CASE \E u \in Threads : Step(u)
    <2>1. Step(t)
      BY <1>1, <1>6, StepOthers
    <2>2. ~(Invoke(t) \/ EndCall(t) \/ Create(t) \/ FindPointer(t) \/ Inherit(t))
      BY <1>2 DEF Invoke, EndCall, Create, FindPointer, Inherit
    <2>3. ~(Assign(t) \/ Trigger(t) \/ Called(t) \/ Opened(t) \/ Available(t) \/ Flush(t))
      BY <1>2 DEF Assign, Trigger, Called, Opened, Available, Flush
    <2>4. ~(FlushLoop(t) \/ Announce(t) \/ Reset(t) \/ Close(t) \/ RemoteClose(t) \/ Erase(t))
      BY <1>2 DEF FlushLoop, Announce, Reset, Close, RemoteClose, Erase
    <2>5. ~(Destroy(t) \/ Stop(t) \/ EraseAll(t) \/ ErasedAll(t))
      BY <1>2 DEF Destroy, Stop, EraseAll, ErasedAll
    <2>6. ~(Peek(t) \/ Discard(t) \/ Packetize(t) \/ Chain(t))
      BY <1>2 DEF Peek, Discard, Packetize, Chain
    <2> QED
      BY <2>1, <2>2, <2>3, <2>4, <2>5, <2>6 DEF Step
  <1>7. CASE UNCHANGED vars
    BY <1>7 DEF vars
  <1> QED
    BY <1>3, <1>4, <1>5, <1>6, <1>7 DEF Next

\* No step starts a callback of an object whose callbacks rtcDelete*() has reset.
LEMMA NoneStartsHolds == ASSUME Inv, [Next]_vars PROVE NoneStarts
  <1> SUFFICES ASSUME NEW o \in Channels, NEW t \in Threads, Enters(t, o), o \in deleted PROVE FALSE
    BY DEF NoneStarts
  <1>1. /\ At(t, "closure") /\ Top(t).o = o /\ o \in Objects
        /\ stack'[t] # stack[t] /\ Len(stack'[t]) >= Len(stack[t])
    BY DEF Enters, Channels
  <1>2. Closure(t) /\ Stacks /\ stack[t] # <<>> /\ Top(t).op = "closure"
    BY <1>1, ClosureStep DEF Inv, At, Top
  <1>3. id[o] \notin DOMAIN userPointer
    BY <1>1, PointerOf DEF Inv, Erasing
  <1>4. Top(t).ev # "announce"
    <2> SUFFICES ASSUME Top(t).ev = "announce" PROVE FALSE
      OBVIOUS
    <2>1. FrameOK(Top(t)) /\ Announcing(Top(t))
      BY <1>2, TopIs DEF Announcing
    <2>2. PICK x \in Objects : Owner[x] = o /\ o # x /\ KindOf[x] # "track"
      BY <1>1, <2>1 DEF FrameOK
    <2>3. KindOf[o] \in {"pc", "server"}
      BY <2>2, SlotsAre DEF Kinds
    <2> QED
      BY <1>1, <2>3, SlotsAre
  <1>5. Go(t, <<>>)
    BY <1>1, <1>2, <1>3, <1>4 DEF Closure, Return
  <1>6. /\ IsSeq(stack'[t]) /\ Len(stack'[t]) = Len(<<>>) + Len(Below(t))
    BY <1>2, <1>5, GoMoves, EmptyIs, MovesIs
  <1>7. Len(<<>>) = 0 /\ Len(stack[t]) \in Nat /\ Len(Below(t)) = Len(stack[t]) - 1
    BY <1>2, EmptyIs, BelowIs
  <1> QED
    BY <1>1, <1>6, <1>7

\* NoneStarts: no callback of a channel is called once rtcDelete*() has returned
\* for its handle.
THEOREM NoneStartsAfterDelete == Spec => [][NoneStarts]_vars
  <1>1. Inv /\ [Next]_vars => [NoneStarts]_vars
    BY NoneStartsHolds
  <1> QED
    BY <1>1, Invariance, PTL DEF Spec

-----------------------------------------------------------------------------
\* What the peer asked of a channel arrives with its OPEN: the reliability of a
\* channel that an OPEN made is told back as rtcDataChannelInit asked for it.
LEMMA ReliabilityAgrees ==
    ASSUME NEW i \in rtcReliability
    PROVE  GetReliability(FromOpen(OpenMessage(ReliabilityOf(i)))) = Promised(i, TRUE)
  <1>1. /\ i.unordered \in BOOLEAN /\ i.unreliable \in BOOLEAN
        /\ i.maxPacketLifeTime \in Int /\ i.maxRetransmits \in Int
    BY DEF rtcReliability
  <1> DEFINE r == ReliabilityOf(i)
             m == OpenMessage(r)
             q == FromOpen(m)
             bit == IF i.unordered THEN 128 ELSE 0
  <1>2. /\ r.unordered = i.unordered
        /\ ~i.unreliable => r.type = "Reliable"
        /\ i.unreliable /\ i.maxPacketLifeTime > 0 => r.type = "Timed" /\ r.rexmit = i.maxPacketLifeTime
        /\ i.unreliable /\ ~(i.maxPacketLifeTime > 0) => r.type = "Rexmit" /\ r.rexmit = i.maxRetransmits
    BY <1>1 DEF ReliabilityOf
  <1> HIDE DEF r
  <1>3. /\ bit \in {0, 128} /\ (bit = 128 <=> i.unordered)
        /\ r.type = "Reliable" => m.channelType = bit
        /\ r.type = "Timed" => m.channelType = 2 + bit /\ m.reliabilityParameter = r.rexmit
        /\ r.type = "Rexmit" => m.channelType = 1 + bit /\ m.reliabilityParameter = Larger(r.rexmit, 0)
    BY <1>1, <1>2
       DEF OpenMessage, CHANNEL_RELIABLE, CHANNEL_PARTIAL_RELIABLE_REXMIT,
           CHANNEL_PARTIAL_RELIABLE_TIMED, UnorderedBit
  <1> HIDE DEF m, bit
  <1>4. \A n \in {0, 1, 2} : (n + bit) % 128 = n /\ (n + bit >= 128 <=> bit = 128)
    <2>1. 0 % 128 = 0 /\ 1 % 128 = 1 /\ 2 % 128 = 2 /\ 128 % 128 = 0 /\ 129 % 128 = 1 /\ 130 % 128 = 2
      OBVIOUS
    <2> QED
      BY <1>3, <2>1
  <1>5. /\ q.unordered = (m.channelType >= 128)
        /\ m.channelType % 128 = 0 => q.type = "Reliable"
        /\ m.channelType % 128 = 1 => q.type = "Rexmit" /\ q.rexmit = m.reliabilityParameter
        /\ m.channelType % 128 = 2 => q.type = "Timed" /\ q.rexmit = m.reliabilityParameter
    BY DEF FromOpen, CHANNEL_RELIABLE, CHANNEL_PARTIAL_RELIABLE_REXMIT,
           CHANNEL_PARTIAL_RELIABLE_TIMED, UnorderedBit
  <1> HIDE DEF q
  <1>6. bit \in Int
    BY <1>3
  <1>7. /\ q.unordered = i.unordered
        /\ r.type = "Reliable" => q.type = "Reliable"
        /\ r.type = "Timed" => q.type = "Timed" /\ q.rexmit = r.rexmit
        /\ r.type = "Rexmit" => q.type = "Rexmit" /\ q.rexmit = Larger(r.rexmit, 0)
    <2>1. r.type = "Reliable" \/ r.type = "Timed" \/ r.type = "Rexmit"
      BY <1>1, <1>2
    <2>2. CASE r.type = "Reliable"
      <3>1. m.channelType = 0 + bit
        BY <1>3, <1>6, <2>2
      <3> QED
        BY <1>1, <1>3, <1>4, <1>5, <2>2, <3>1
    <2>3. CASE r.type = "Timed"
      BY <1>1, <1>3, <1>4, <1>5, <2>3
    <2>4. CASE r.type = "Rexmit"
      BY <1>1, <1>3, <1>4, <1>5, <2>4
    <2> QED
      BY <2>1, <2>2, <2>3, <2>4
  <1>8. Larger(i.maxRetransmits, 0) = IF i.maxRetransmits < 0 THEN 0 ELSE i.maxRetransmits
    BY <1>1 DEF Larger
  <1>9. GetReliability(q) = Promised(i, TRUE)
    <2>1. CASE ~i.unreliable
      BY <1>1, <1>2, <1>7, <2>1 DEF GetReliability, Promised
    <2>2. CASE i.unreliable /\ i.maxPacketLifeTime > 0
      <3>1. ~(i.maxPacketLifeTime <= 0)
        BY <1>1, <2>2
      <3> QED
        BY <1>2, <1>7, <2>2, <3>1 DEF GetReliability, Promised
    <2>3. CASE i.unreliable /\ ~(i.maxPacketLifeTime > 0)
      <3>1. i.maxPacketLifeTime <= 0
        BY <1>1, <2>3
      <3> QED
        BY <1>2, <1>7, <1>8, <2>3, <3>1 DEF GetReliability, Promised
    <2> QED
      BY <1>1, <2>1, <2>2, <2>3
  <1> QED
    BY <1>9 DEF q, m, r

\* An OPEN to come is one of the plan, ...
Planned ==
    \A i \in 1..Len(net) : net[i][1] = "OPEN" =>
       \E j \in 1..Len(plan.net) :
          plan.net[j][1] = "OPEN" /\ plan.net[j][2] = net[i][2] /\ plan.net[j][3] = net[i][3]
\* ... and a channel that an OPEN of the plan makes has the reliability it brought.
Brought ==
    \A j \in 1..Len(plan.net) : plan.net[j][1] = "OPEN" =>
       \A r \in init[plan.net[j][2]] : r = FromOpen(OpenMessage(ReliabilityOf(plan.net[j][3])))

\* A call makes no channel that an OPEN makes.
LEMMA MadeElsewhere ==
    ASSUME Inv, NEW t \in Threads, Create(t), NEW j \in 1..Len(plan.net), plan.net[j][1] = "OPEN"
    PROVE  plan.net[j][2] # Top(t).o
  <1>1. stack[t] # <<>> /\ Top(t).op = "create"
    BY DEF Create, At, Top
  <1>2. Mine(t, LAMBDA c : Makes(c, Top(t).o))
    BY <1>1, TopIs DEF FrameFrom
  <1>3. plan \in Plans
    BY DEF Inv, DataTyped
  <1>4. ~Some(plan, App, LAMBDA c : Makes(c, plan.net[j][2]))
    BY <1>3, OpensAssumption
  <1>5. ASSUME Top(t).o = plan.net[j][2] PROVE FALSE
    BY <1>2, <1>4, <1>5 DEF Mine, Some, In
  <1> QED
    BY <1>5

\* Only Create() and an OPEN change what init says, and events are only taken from
\* the plan, but for the resets of close().
LEMMA BroughtKept ==
    ASSUME Inv, Planned, Brought, [Next]_vars
    PROVE  Planned' /\ Brought'
  <1>1. /\ plan \in Plans /\ IsSeq(net) /\ init = [o \in Objects |-> init[o]]
        /\ \A i \in 1..Len(net) : EventOK(net[i])
    BY DEF Inv, DataTyped
  <1>2. ASSUME UNCHANGED <<plan, net, init>> PROVE Planned' /\ Brought'
    BY <1>2 DEF Planned, Brought
  <1>3. ASSUME net # <<>>, net' = Tail(net), plan' = plan PROVE Planned'
    <2>1. IsSeq(Tail(net)) /\ Len(net) \in Nat \ {0} /\ Len(Tail(net)) = Len(net) - 1
          /\ \A i \in 1..Len(net) - 1 : Tail(net)[i] = net[i + 1]
      BY <1>1, <1>3, TailIs
    <2>2. \A i \in 1..Len(Tail(net)) : i + 1 \in 1..Len(net) /\ Tail(net)[i] = net[i + 1]
      BY <2>1
    <2> QED
      BY <1>3, <2>2 DEF Planned
  <1>4. ASSUME NEW t \in Threads, Close(t) PROVE Planned' /\ Brought'
    <2>1. plan' = plan /\ init' = init
      BY <1>4 DEF Close, env, life
    <2>2. \/ net' = net
          \/ \E o : net' = Append(net, <<"reset", o, None>>)
      BY <1>4 DEF Close
    <2>3. CASE net' = net
      BY <1>2, <2>1, <2>3
    <2>4. CASE \E o : net' = Append(net, <<"reset", o, None>>)
      <3>1. PICK o : net' = Append(net, <<"reset", o, None>>)
        BY <2>4
      <3> DEFINE e == <<"reset", o, None>>
      <3>2. e[1] = "reset"
        BY ThreeIs
      <3> HIDE DEF e
      <3>3. /\ Len(net) \in Nat /\ Len(Append(net, e)) = Len(net) + 1
            /\ \A i \in 1..Len(net) : Append(net, e)[i] = net[i]
            /\ Append(net, e)[Len(net) + 1] = e
        BY <1>1, AppendIs
      <3>4. \A i \in 1..Len(net') : i \in 1..Len(net) \/ i = Len(net) + 1
        BY <3>1, <3>3 DEF e
      <3>5. net' = Append(net, e)
        BY <3>1 DEF e
      <3>6. Planned'
        BY <2>1, <3>2, <3>3, <3>4, <3>5 DEF Planned
      <3> QED
        BY <2>1, <3>6 DEF Brought
    <2> QED
      BY <2>2, <2>3, <2>4
  <1>5. ASSUME NEW t \in Threads, Create(t) PROVE Planned' /\ Brought'
    <2>1. plan' = plan /\ net' = net /\ \A o \in Objects : o # Top(t).o => init'[o] = init[o]
      BY <1>1, <1>5 DEF Create, env, io, life
    <2>2. \A j \in 1..Len(plan.net) : plan.net[j][1] = "OPEN" =>
              plan.net[j][2] \in Objects /\ plan.net[j][2] # Top(t).o
      BY <1>1, <1>5, MadeElsewhere, PlansAssumption DEF EventOK
    <2> QED
      BY <2>1, <2>2 DEF Planned, Brought
  <1>6. ASSUME Receive PROVE Planned' /\ Brought'
    <2>1. net # <<>> /\ net' = Tail(net) /\ plan' = plan
      BY <1>6 DEF Receive, env
    <2>2. \/ init' = init
          \/ /\ Head(net)[1] = "OPEN"
             /\ init' = [init EXCEPT ![Head(net)[2]] =
                           {FromOpen(OpenMessage(ReliabilityOf(Head(net)[3])))}]
      BY <1>6 DEF Receive
    <2>3. CASE init' = init
      BY <1>3, <2>1, <2>3 DEF Brought
    <2>4. CASE /\ Head(net)[1] = "OPEN"
               /\ init' = [init EXCEPT ![Head(net)[2]] =
                             {FromOpen(OpenMessage(ReliabilityOf(Head(net)[3])))}]
      <3>1. Head(net) = net[1] /\ 1 \in 1..Len(net)
        BY <1>1, <2>1, TailIs
      <3>2. PICK k \in 1..Len(plan.net) :
               plan.net[k][1] = "OPEN" /\ plan.net[k][2] = Head(net)[2] /\ plan.net[k][3] = Head(net)[3]
        BY <2>4, <3>1 DEF Planned
      <3>3. ASSUME NEW j \in 1..Len(plan.net), plan.net[j][1] = "OPEN", NEW r \in init'[plan.net[j][2]]
            PROVE  r = FromOpen(OpenMessage(ReliabilityOf(plan.net[j][3])))
        <4>1. plan.net[j][2] \in Objects
          BY <1>1, <3>3, PlansAssumption DEF EventOK
        <4>2. CASE plan.net[j][2] = Head(net)[2]
          <5>1. plan.net[j][3] = Head(net)[3]
            BY <1>1, <3>2, <3>3, <4>2, OpensAssumption
          <5> QED
            BY <1>1, <2>4, <3>3, <4>1, <4>2, <5>1
        <4>3. CASE plan.net[j][2] # Head(net)[2]
          BY <1>1, <2>4, <3>3, <4>1, <4>3 DEF Brought
        <4> QED
          BY <4>2, <4>3
      <3> QED
        BY <1>3, <2>1, <3>3 DEF Brought
    <2> QED
      BY <2>2, <2>3, <2>4
  <1>7. ASSUME Accept PROVE Planned' /\ Brought'
    <2>1. net # <<>> /\ net' = Tail(net) /\ plan' = plan /\ init' = init
      BY <1>7 DEF Accept, env, life
    <2> QED
      BY <1>3, <2>1 DEF Brought
  <1>8. ASSUME NEW t \in Threads, Step(t) PROVE Planned' /\ Brought'
    <2>1. CASE Invoke(t) \/ EndCall(t) \/ FindPointer(t) \/ Inherit(t)
      <3>1. UNCHANGED <<plan, net, init>>
        BY <2>1 DEF Invoke, EndCall, FindPointer, Inherit, env, io, life
      <3> QED
        BY <1>2, <3>1
    <2>2. CASE Assign(t) \/ Trigger(t) \/ Closure(t) \/ Called(t)
      <3>1. UNCHANGED <<plan, net, init>>
        BY <2>2 DEF Assign, Trigger, Closure, Called, env, io, life
      <3> QED
        BY <1>2, <3>1
    <2>3. CASE Opened(t) \/ Available(t) \/ Flush(t) \/ FlushLoop(t) \/ Announce(t) \/ Reset(t)
      <3>1. UNCHANGED <<plan, net, init>>
        BY <2>3 DEF Opened, Available, Flush, FlushLoop, Announce, Reset, env, io, life
      <3> QED
        BY <1>2, <3>1
    <2>4. CASE RemoteClose(t) \/ Erase(t) \/ Destroy(t) \/ Stop(t)
      <3>1. UNCHANGED <<plan, net, init>>
        BY <2>4 DEF RemoteClose, Erase, Destroy, Stop, env, io, life
      <3> QED
        BY <1>2, <3>1
    <2>5. CASE EraseAll(t) \/ ErasedAll(t) \/ Peek(t) \/ Discard(t) \/ Packetize(t) \/ Chain(t)
      <3>1. UNCHANGED <<plan, net, init>>
        BY <2>5 DEF EraseAll, ErasedAll, Peek, Discard, Packetize, Chain, env, io, life
      <3> QED
        BY <1>2, <3>1
    <2> QED
      BY <1>4, <1>5, <1>8, <2>1, <2>2, <2>3, <2>4, <2>5 DEF Step
  <1>9. ASSUME RunTask \/ UNCHANGED vars PROVE Planned' /\ Brought'
    <2>1. UNCHANGED <<plan, net, init>>
      BY <1>9 DEF RunTask, vars, env, io, life
    <2> QED
      BY <1>2, <2>1
  <1> QED
    BY <1>6, <1>7, <1>8, <1>9 DEF Next

\* ReliabilityCarried: what the application at either end is told of a channel is
\* what rtcDataChannelInit asked for at its creation, for any init.
THEOREM ReliabilityIsCarried == Spec => []ReliabilityCarried
  <1>1. Init => Planned /\ Brought
    <2> SUFFICES ASSUME Init PROVE Planned /\ Brought
      OBVIOUS
    <2>1. plan \in Plans /\ net = plan.net /\ init = [o \in Objects |-> {}]
      BY DEF Init
    <2>2. \A j \in 1..Len(plan.net) : plan.net[j][2] \in Objects
      BY <2>1, PlansAssumption DEF EventOK
    <2> QED
      BY <2>1, <2>2 DEF Planned, Brought
  <1>2. Inv /\ (Planned /\ Brought) /\ [Next]_vars => (Planned /\ Brought)'
    BY BroughtKept
  <1>3. Inv /\ Planned /\ Brought => ReliabilityCarried
    <2> SUFFICES ASSUME Inv, Brought, NEW j \in DOMAIN plan.net, plan.net[j][1] = "OPEN",
                        NEW r \in init[plan.net[j][2]]
                 PROVE  GetReliability(r) = Promised(plan.net[j][3], TRUE)
      BY DEF ReliabilityCarried
    <2>1. plan \in Plans
      BY DEF Inv, DataTyped
    <2>2. j \in 1..Len(plan.net)
      BY <2>1, PlansAssumption DEF IsSeq
    <2>3. plan.net[j][3] \in rtcReliability
      BY <2>1, <2>2, OpensAssumption
    <2>4. r = FromOpen(OpenMessage(ReliabilityOf(plan.net[j][3])))
      BY <2>2 DEF Brought
    <2> QED
      BY <2>3, <2>4, ReliabilityAgrees
  <1> QED
    BY <1>1, <1>2, <1>3, Invariance, PTL DEF Spec

-----------------------------------------------------------------------------
\* A message with its final zero: the size a call without a buffer tells is the
\* least with which a call with a buffer takes it.
LEMMA MessageFits ==
    ASSUME NEW text \in BOOLEAN, NEW len \in Nat \ {0}, NEW size \in Nat
    PROVE  ReceiveMessage(text, len, TRUE, -size).discard
              <=> size >= Magnitude(ReceiveMessage(text, len, FALSE, 0).size)
  <1>1. \A n \in Nat : Magnitude(-n) = n /\ Magnitude(n) = n
    BY DEF Magnitude, Larger
  <1>2. Magnitude(-size) = size
    BY <1>1
  <1>3. CASE text
    <2>1. ReceiveMessage(text, len, FALSE, 0).size = -(len + 1)
      BY <1>3 DEF ReceiveMessage, CopyAndReturn
    <2>2. Magnitude(-(len + 1)) = len + 1
      <3>1. len + 1 \in Nat
        OBVIOUS
      <3> QED
        BY <1>1, <3>1
    <2>3. ReceiveMessage(text, len, TRUE, -size).discard
             <=> CopyAndReturn(len + 1, TRUE, Magnitude(-size)) >= 0
      BY <1>3 DEF ReceiveMessage
    <2>4. CopyAndReturn(len + 1, TRUE, size) >= 0 <=> size >= len + 1
      BY DEF CopyAndReturn, TOO_SMALL
    <2> QED
      BY <1>2, <2>1, <2>2, <2>3, <2>4
  <1>4. CASE ~text
    <2>1. ReceiveMessage(text, len, FALSE, 0).size = len
      BY <1>4 DEF ReceiveMessage, CopyAndReturn
    <2>2. Magnitude(len) = len
      BY <1>1
    <2>3. ReceiveMessage(text, len, TRUE, -size).discard
             <=> CopyAndReturn(len + 0, TRUE, Magnitude(-size)) >= 0
      BY <1>4 DEF ReceiveMessage
    <2>4. CopyAndReturn(len + 0, TRUE, size) >= 0 <=> size >= len
      BY DEF CopyAndReturn, TOO_SMALL
    <2> QED
      BY <1>2, <2>1, <2>2, <2>3, <2>4
  <1> QED
    BY <1>3, <1>4

\* Both of a pair of buffers take what they are given if they have the size told.
LEMMA PairFits ==
    ASSUME NEW there \in BOOLEAN, NEW len \in Nat \ {0}, NEW size \in Nat
    PROVE  GetPair(there, <<len, 1>>, <<TRUE, TRUE>>, <<size, size>>) >= 0
              <=> there /\ size >= GetPair(there, <<len, 1>>, <<FALSE, FALSE>>, <<0, 0>>)
  <1>1. CASE ~there
    <2>1. GetPair(there, <<len, 1>>, <<TRUE, TRUE>>, <<size, size>>) = -3
      BY <1>1 DEF GetPair, NOT_AVAIL
    <2> QED
      BY <1>1, <2>1
  <1>2. CASE there
    <2>1. GetPair(there, <<len, 1>>, <<FALSE, FALSE>>, <<0, 0>>) = len
      BY <1>2 DEF GetPair, CopyAndReturn, Larger
    <2>2. GetPair(there, <<len, 1>>, <<TRUE, TRUE>>, <<size, size>>) = IF size >= len THEN len ELSE -4
      BY <1>2 DEF GetPair, CopyAndReturn, Larger, TOO_SMALL
    <2>3. (IF size >= len THEN len ELSE -4) >= 0 <=> size >= len
      OBVIOUS
    <2> QED
      BY <1>2, <2>1, <2>2, <2>3
  <1> QED
    BY <1>1, <1>2

\* One buffer takes it likewise.
LEMMA OneFits ==
    ASSUME NEW there \in BOOLEAN, NEW len \in Nat \ {0}, NEW size \in Nat
    PROVE  /\ there => GetOptional(there, len, FALSE, 0) = len
           /\ GetOptional(there, len, TRUE, size) >= 0
                 <=> there /\ size >= GetOptional(there, len, FALSE, 0)
  BY DEF GetOptional, CopyAndReturn, TOO_SMALL, NOT_AVAIL

\* BuffersFit: the size that a call without a buffer tells is enough, and the least
\* that is, for one buffer, for two, and for a message.
THEOREM SizesToldAreEnough == Spec => []BuffersFit
  <1>1. Inv => BuffersFit
    <2> SUFFICES ASSUME Inv, NEW o \in Objects, NEW len \in 1..2
                 PROVE  LET there == mIsOpen[o]
                            told == GetOptional(there, len, FALSE, 0)
                            both == GetPair(there, <<len, 1>>, <<FALSE, FALSE>>, <<0, 0>>)
                            message(text) == Magnitude(ReceiveMessage(text, len, FALSE, 0).size)
                        IN /\ there => told = len
                           /\ \A size \in 0..3 :
                                 /\ GetOptional(there, len, TRUE, size) >= 0 <=> there /\ size >= told
                                 /\ GetPair(there, <<len, 1>>, <<TRUE, TRUE>>, <<size, size>>) >= 0
                                      <=> there /\ size >= both
                                 /\ \A text \in BOOLEAN :
                                       ReceiveMessage(text, len, TRUE, -size).discard
                                         <=> size >= message(text)
      BY DEF BuffersFit
    <2>1. mIsOpen[o] \in BOOLEAN
      BY DEF Inv, DataTyped
    <2>2. len \in Nat \ {0} /\ \A size \in 0..3 : size \in Nat
      OBVIOUS
    <2>3. mIsOpen[o] => GetOptional(mIsOpen[o], len, FALSE, 0) = len
      BY <2>1, <2>2, OneFits
    <2>4. ASSUME NEW size \in 0..3
          PROVE  GetOptional(mIsOpen[o], len, TRUE, size) >= 0
                    <=> mIsOpen[o] /\ size >= GetOptional(mIsOpen[o], len, FALSE, 0)
      BY <2>1, <2>2, OneFits
    <2>5. ASSUME NEW size \in 0..3
          PROVE  GetPair(mIsOpen[o], <<len, 1>>, <<TRUE, TRUE>>, <<size, size>>) >= 0
                    <=> mIsOpen[o] /\ size >= GetPair(mIsOpen[o], <<len, 1>>, <<FALSE, FALSE>>, <<0, 0>>)
      BY <2>1, <2>2, PairFits
    <2>6. ASSUME NEW size \in 0..3, NEW text \in BOOLEAN
          PROVE  ReceiveMessage(text, len, TRUE, -size).discard
                    <=> size >= Magnitude(ReceiveMessage(text, len, FALSE, 0).size)
      BY <2>2, MessageFits
    <2> QED
      BY <2>3, <2>4, <2>5, <2>6
  <1> QED
    BY <1>1, Invariance, PTL
=============================================================================
