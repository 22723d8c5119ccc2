------------------------------ MODULE Signaling ------------------------------
(***************************************************************************)
(* Offers and answers between two peers: setLocalDescription() and         *)
(* setRemoteDescription() (src/src/peerconnection.cpp:75-240) with what    *)
(* they do to the descriptions, the roles and the candidates               *)
(* (src/src/impl/peerconnection.cpp:393-406, 780-1070 and                  *)
(* src/src/impl/icetransport.cpp).  Both may make offers at the same time. *)
(*                                                                         *)
(* The callbacks of a peer run in order on its processor, and its          *)
(* application sends what it is given on an ordered path: the two queues   *)
(* are one.  A provisional answer is an answer, as in the code, which      *)
(* therefore never reaches the two provisional states.  Tracks are not     *)
(* destroyed and the connection is not closed.                             *)
(***************************************************************************)
EXTENDS Naturals, SequencesExt, FiniteSets

CONSTANTS
    Peers,                  \* the two peers
    Polite,                 \* those whose application accepts an offer while its
                            \* own is pending; the others ignore such an offer
    OtherThread,            \* those whose application uses a second thread, which
                            \* does not wait for setRemoteDescription() to return
    Tracks,                 \* Tracks[p]: tracks the application of p may add
    App,                    \* the media section of the data channels
    MaxChannels,            \* bound on the data channels each peer creates
    AutoNegotiation         \* ~config.disableAutoNegotiation

ASSUME SignalingAssumption ==
    /\ IsFiniteSet(Peers) /\ Cardinality(Peers) = 2
    /\ Polite \subseteq Peers /\ OtherThread \subseteq Peers
    /\ \A p \in Peers : App \notin Tracks[p]
    /\ MaxChannels \in Nat
    /\ AutoNegotiation \in BOOLEAN

VARIABLES
    signalingState,
    negotiationNeeded,
    mLocal,                 \* mLocalDescription
    mCurrent,               \* mCurrentLocalDescription
    mRemote,                \* mRemoteDescription
    mRole,                  \* of the ICE transport, which gives the DTLS role
    mTracks,                \* tracks that exist, its own and the peer's
    channels,               \* number of data channels created
    gathering,              \* "new", "inProgress", or "done" with its candidate out
    answering,              \* setRemoteDescription() of an offer is about to answer
    calling,                \* createDataChannel() is about to negotiate
    issued,                 \* number of descriptions each peer has issued
    ignored,                \* the application has ignored an offer
    path                    \* from each peer: what is on its way to the other

descriptions == <<mLocal, mCurrent, mRemote>>
media == <<mTracks, channels>>
vars == <<signalingState, negotiationNeeded, descriptions, mRole, media, gathering,
          answering, calling, issued, ignored, path>>

States == {"Stable", "HaveLocalOffer", "HaveRemoteOffer"}
Roles == {"ActPass", "Active", "Passive"}
NoDescription == [type |-> "none"]
Candidate == [type |-> "candidate"]
Media == {App} \cup UNION {Tracks[p] : p \in Peers}

\* A description, named by its number among those its peer issued; an answer
\* also names the offer it replies to.
Description == [type : {"offer", "answer"}, number : Nat, reply : Nat,
                role : Roles, media : SUBSET Media]

TypeOK ==
    /\ signalingState \in [Peers -> States]
    /\ {negotiationNeeded, answering, calling, ignored} \subseteq [Peers -> BOOLEAN]
    /\ {mLocal, mCurrent, mRemote} \subseteq [Peers -> Description \cup {NoDescription}]
    /\ mRole \in [Peers -> Roles]
    /\ mTracks \in [Peers -> SUBSET (Media \ {App})]
    /\ channels \in [Peers -> 0..MaxChannels]
    /\ gathering \in [Peers -> {"new", "inProgress", "done"}]
    /\ issued \in [Peers -> Nat]
    /\ path \in [Peers -> Seq(Description \cup {Candidate})]
    /\ \A p \in Peers : signalingState[p] = "HaveRemoteOffer" => mRemote[p].type = "offer"

Init ==
    /\ signalingState = [p \in Peers |-> "Stable"]
    /\ negotiationNeeded = [p \in Peers |-> FALSE]
    /\ mLocal = [p \in Peers |-> NoDescription]
    /\ mCurrent = [p \in Peers |-> NoDescription]
    /\ mRemote = [p \in Peers |-> NoDescription]
    /\ mRole = [p \in Peers |-> "ActPass"]
    /\ mTracks = [p \in Peers |-> {}]
    /\ channels = [p \in Peers |-> 0]
    /\ gathering = [p \in Peers |-> "new"]
    /\ answering = [p \in Peers |-> FALSE]
    /\ calling = [p \in Peers |-> FALSE]
    /\ issued = [p \in Peers |-> 0]
    /\ ignored = [p \in Peers |-> FALSE]
    /\ path = [p \in Peers |-> <<>>]

-----------------------------------------------------------------------------
Other(p) == CHOOSE q \in Peers : q # p
MediaOf(d) == IF d = NoDescription THEN {} ELSE d.media

\* A thread of the application may call: the one that receives is not in a call,
\* or there is another.
MayCall(p) == p \in OtherThread \/ (~answering[p] /\ ~calling[p])

\* The media of a new local description: those of the remote one, in answer to
\* which tracks are created, and in an offer the peer's own.
LocalMedia(p, type) ==
    MediaOf(mRemote[p]) \cup
    (IF type = "offer" THEN mTracks[p] \cup (IF channels[p] > 0 THEN {App} ELSE {}) ELSE {})

\* IceTransport::getLocalDescription: an offer leaves the role open.
NewDescription(p, type) ==
    [type |-> type,
     number |-> issued[p] + 1,
     reply |-> IF type = "offer" THEN 0 ELSE mRemote[p].number,
     role |-> IF type = "offer" THEN "ActPass" ELSE mRole[p],
     media |-> LocalMedia(p, type)]

\* processLocalDescription and the change of state; with the lock released, the
\* first description starts the gathering of candidates.
Issue(p, type) ==
    /\ mLocal' = [mLocal EXCEPT ![p] = NewDescription(p, type)]
    /\ mCurrent' = [mCurrent EXCEPT ![p] = IF mLocal[p] = NoDescription THEN @ ELSE mLocal[p]]
    /\ mTracks' = [mTracks EXCEPT ![p] = @ \cup (MediaOf(mRemote[p]) \ {App})]
    /\ issued' = [issued EXCEPT ![p] = @ + 1]
    /\ path' = [path EXCEPT ![p] = Append(@, NewDescription(p, type))]
    /\ signalingState' = [signalingState EXCEPT ![p] = IF type = "offer" THEN "HaveLocalOffer"
                                                       ELSE "Stable"]
    /\ gathering' = [gathering EXCEPT ![p] = IF @ = "new" THEN "inProgress" ELSE @]

NothingIssued ==
    UNCHANGED <<mLocal, mCurrent, mTracks, issued, path, signalingState, gathering>>

\* setLocalDescription(Offer): the flag is reset first, and the offer is ignored
\* in the state HaveLocalOffer and refused in HaveRemoteOffer.
SetLocalOffer(p) ==
    \/ ~negotiationNeeded[p] /\ UNCHANGED negotiationNeeded /\ NothingIssued
    \/ /\ negotiationNeeded[p]
       /\ negotiationNeeded' = [negotiationNeeded EXCEPT ![p] = FALSE]
       /\ IF signalingState[p] = "Stable" THEN Issue(p, "offer") ELSE NothingIssued

SetLocalAnswer_Any(p) ==
    /\ UNCHANGED negotiationNeeded
    /\ Issue(p, "answer")

\* setLocalDescription(Answer): ignored in HaveLocalOffer, refused in Stable.
SetLocalAnswer(p) ==
    /\ UNCHANGED negotiationNeeded
    /\ IF signalingState[p] = "HaveRemoteOffer" THEN Issue(p, "answer") ELSE NothingIssued

\* setLocalDescription() without a type.
SetLocal(p) ==
    IF signalingState[p] = "HaveRemoteOffer" THEN SetLocalAnswer(p) ELSE SetLocalOffer(p)

RolledBack_Keep(p) == mLocal

\* rollbackLocalDescription: the former description, if any, is restored.
RolledBack(p) ==
    IF mCurrent[p] = NoDescription THEN mLocal
    ELSE [mLocal EXCEPT ![p] = mCurrent[p]]

Unpend(p) == [mCurrent EXCEPT ![p] = NoDescription]

-----------------------------------------------------------------------------
\* The application creates a data channel; a description with an application
\* section needs no new negotiation for it.
CreateChannel(p) ==
    /\ MayCall(p) /\ ~calling[p]
    /\ channels[p] < MaxChannels
    /\ channels' = [channels EXCEPT ![p] = @ + 1]
    /\ negotiationNeeded' = [negotiationNeeded EXCEPT ![p] = @ \/ App \notin MediaOf(mLocal[p])]
    /\ calling' = [calling EXCEPT ![p] = AutoNegotiation]
    /\ UNCHANGED <<signalingState, descriptions, mRole, mTracks, gathering, answering,
                   issued, ignored, path>>

\* ... and createDataChannel() goes on to negotiate.
CreateNegotiate(p) ==
    /\ calling[p]
    /\ calling' = [calling EXCEPT ![p] = FALSE]
    /\ SetLocal(p)
    /\ UNCHANGED <<mRemote, mRole, channels, answering, ignored>>

AddTrack(p) ==
    /\ MayCall(p)
    /\ \E t \in Tracks[p] \ mTracks[p] : mTracks' = [mTracks EXCEPT ![p] = @ \cup {t}]
    /\ negotiationNeeded' = [negotiationNeeded EXCEPT ![p] = TRUE]
    /\ UNCHANGED <<signalingState, descriptions, mRole, channels, gathering, answering, calling,
                   issued, ignored, path>>

\* The application calls setLocalDescription().
Negotiate(p) ==
    /\ MayCall(p)
    /\ SetLocal(p)
    /\ UNCHANGED <<mRemote, mRole, channels, answering, calling, ignored>>

\* The application of a polite peer may itself roll back before it sets the offer
\* it has received: setLocalDescription(Rollback).
Rollback(p) ==
    /\ MayCall(p) /\ p \in Polite
    /\ path[Other(p)] # <<>> /\ Head(path[Other(p)]).type = "offer"
    /\ signalingState[p] = "HaveLocalOffer"
    /\ mLocal' = RolledBack(p)
    /\ mCurrent' = Unpend(p)
    /\ signalingState' = [signalingState EXCEPT ![p] = "Stable"]
    /\ UNCHANGED <<negotiationNeeded, mRemote, mRole, media, gathering, answering, calling,
                   issued, ignored, path>>

LocalCandidate_Early(p) ==
    /\ gathering[p] # "done"
    /\ gathering' = [gathering EXCEPT ![p] = "done"]
    /\ path' = [path EXCEPT ![p] = Append(@, Candidate)]
    /\ UNCHANGED <<signalingState, negotiationNeeded, descriptions, mRole, media, answering,
                   calling, issued, ignored>>

\* processLocalCandidate, from the agent's thread.
LocalCandidate(p) ==
    /\ gathering[p] = "inProgress"
    /\ gathering' = [gathering EXCEPT ![p] = "done"]
    /\ path' = [path EXCEPT ![p] = Append(@, Candidate)]
    /\ UNCHANGED <<signalingState, negotiationNeeded, descriptions, mRole, media, answering,
                   calling, issued, ignored>>

-----------------------------------------------------------------------------
Settled_Again(p, d) == IF d.role = "Active" THEN "Passive" ELSE "Active"

\* IceTransport::setRemoteDescription: an open role is settled, first of all.
Settled(p, d) ==
    IF mRole[p] # "ActPass" THEN mRole[p]
    ELSE IF d.role = "Active" THEN "Passive" ELSE "Active"

\* It rejects an answer with an open role and a role that is the same as its own.
Compatible(p, d) == ~(d.type = "answer" /\ d.role = "ActPass") /\ Settled(p, d) # d.role

Accept_KeepRemote(p, d, newState, oldState) ==
    /\ mRole' = [mRole EXCEPT ![p] = Settled(p, d)]
    /\ signalingState' = [signalingState EXCEPT ![p] = newState]
    /\ answering' = [answering EXCEPT ![p] = d.type = "offer" /\ AutoNegotiation]
    /\ UNCHANGED mRemote

\* setRemoteDescription up to processRemoteDescription, in a state where the type
\* is right: the role stays settled even if the description is then rejected.
Accept(p, d, newState, oldState) ==
    /\ mRole' = IF d.type = "answer" /\ d.role = "ActPass" THEN mRole
                ELSE [mRole EXCEPT ![p] = Settled(p, d)]
    /\ IF Compatible(p, d)
       THEN /\ mRemote' = [mRemote EXCEPT ![p] = d]
            /\ signalingState' = [signalingState EXCEPT ![p] = newState]
            /\ answering' = [answering EXCEPT ![p] = d.type = "offer" /\ AutoNegotiation]
       ELSE /\ signalingState' = [signalingState EXCEPT ![p] = oldState]
            /\ UNCHANGED <<mRemote, answering>>

Refuse == UNCHANGED <<signalingState, mRole, mLocal, mCurrent, mRemote, answering>>

SetRemoteOffer_NoRollback(p, d) ==
    \/ /\ signalingState[p] = "Stable"
       /\ Accept(p, d, "HaveRemoteOffer", "Stable")
       /\ UNCHANGED <<mLocal, mCurrent>>
    \/ signalingState[p] # "Stable" /\ Refuse

\* setRemoteDescription of an offer; a pending local one is rolled back.
SetRemoteOffer(p, d) ==
    \/ /\ signalingState[p] = "Stable"
       /\ Accept(p, d, "HaveRemoteOffer", "Stable")
       /\ UNCHANGED <<mLocal, mCurrent>>
    \/ /\ signalingState[p] = "HaveLocalOffer"
       /\ mLocal' = RolledBack(p)
       /\ mCurrent' = Unpend(p)
       /\ Accept(p, d, "HaveRemoteOffer", "Stable")
    \/ signalingState[p] = "HaveRemoteOffer" /\ Refuse

\* setRemoteDescription of an answer.
SetRemoteAnswer(p, d) ==
    \/ /\ signalingState[p] = "HaveLocalOffer"
       /\ Accept(p, d, "Stable", "HaveLocalOffer")
       /\ UNCHANGED <<mLocal, mCurrent>>
    \/ signalingState[p] # "HaveLocalOffer" /\ Refuse

Ignores(p, d) == d.type = "offer" /\ signalingState[p] = "HaveLocalOffer" /\ p \notin Polite

\* The application of p receives the next description or candidate.  A candidate
\* without a remote description is refused, and otherwise added.
Receive(p) ==
    LET d == Head(path[Other(p)]) IN
    /\ ~answering[p] /\ (calling[p] => p \in OtherThread)
    /\ path[Other(p)] # <<>>
    /\ path' = [path EXCEPT ![Other(p)] = Tail(@)]
    /\ \/ d.type = "candidate" /\ Refuse /\ UNCHANGED ignored
       \/ Ignores(p, d) /\ Refuse /\ ignored' = [ignored EXCEPT ![p] = TRUE]
       \/ d.type = "offer" /\ ~Ignores(p, d) /\ SetRemoteOffer(p, d) /\ UNCHANGED ignored
       \/ d.type = "answer" /\ SetRemoteAnswer(p, d) /\ UNCHANGED ignored
    /\ UNCHANGED <<negotiationNeeded, media, gathering, calling, issued>>

\* setRemoteDescription() has released the lock, and answers.
Answer(p) ==
    /\ answering[p]
    /\ answering' = [answering EXCEPT ![p] = FALSE]
    /\ SetLocalAnswer(p)
    /\ UNCHANGED <<mRemote, mRole, channels, calling, ignored>>

Library(p) == CreateNegotiate(p) \/ LocalCandidate(p) \/ Receive(p) \/ Answer(p)

Next ==
    \/ \E p \in Peers : CreateChannel(p) \/ AddTrack(p) \/ Negotiate(p) \/ Rollback(p)
    \/ \E p \in Peers : Library(p)

\* Calls in progress go on, and the path delivers.
Fairness == \A p \in Peers : WF_vars(Library(p))

Spec == Init /\ [][Next]_vars /\ Fairness

-----------------------------------------------------------------------------
\* Once settled, the roles of the peers are complementary: one of them, and only
\* one, starts the DTLS handshake.
RolesComplementary ==
    \A p, q \in Peers : p # q /\ mRole[p] # "ActPass" => mRole[p] # mRole[q]

\* Whatever offers crossed, the peers agree: without a local offer pending, the
\* local description of each is the one the other has, or an answer on its way.
\* After a rollback it is the last that was negotiated.
Agreed ==
    \A p \in Peers :
        signalingState[p] # "HaveLocalOffer" /\ mRemote[Other(p)] # NoDescription =>
            mLocal[p] = mRemote[Other(p)] \/ mLocal[p] \in ToSet(path[p])

\* An answer finds the very offer it replies to still pending: setRemoteDescription
\* never refuses one, nor completes an offer with the answer to another.
AnswerFits ==
    \A p \in Peers : LET in == path[Other(p)] IN
        in # <<>> /\ Head(in).type = "answer" =>
            /\ signalingState[p] = "HaveLocalOffer"
            /\ mLocal[p].number = Head(in).reply
            /\ Compatible(p, Head(in))

\* A candidate never precedes the description it belongs to, so that
\* addRemoteCandidate() accepts it, unless the application ignored that offer.
CandidateFits ==
    \A p \in Peers : LET in == path[Other(p)] IN
        in # <<>> /\ Head(in).type = "candidate" => mRemote[p] # NoDescription \/ ignored[p]

\* Every offer is answered or rolled back.
Settles == \A p \in Peers : (signalingState[p] # "Stable") ~> (signalingState[p] = "Stable")

\* Whatever offers cross, what arrives fits what is pending, and roles differ.
SignalingInv == TypeOK /\ RolesComplementary /\ AnswerFits /\ CandidateFits
=============================================================================
