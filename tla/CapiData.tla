------------------------------ MODULE CapiData ------------------------------
(***************************************************************************)
(* The values that pass through the C API: results and buffers             *)
(* (src/src/capi.cpp), the reliability of a data channel on its way from   *)
(* rtcDataChannelInit through the OPEN message to the remote application   *)
(* (src/src/impl/datachannel.cpp), and the descriptions of tracks.         *)
(***************************************************************************)
EXTENDS Integers, Sequences, FiniteSets, TLC

SUCCESS == 0
INVALID == -1
NOT_AVAIL == -3
TOO_SMALL == -4

Larger(a, b) == IF a > b THEN a ELSE b
Magnitude(a) == Larger(a, -a)

-----------------------------------------------------------------------------
(* Buffers.  A call gives a buffer or none, and its size; what is copied   *)
(* is len elements, for a string with its final zero.                      *)

CopyAndReturn_NoZero(len, buffer, size) ==
    IF ~buffer THEN len ELSE IF size < len - 1 THEN TOO_SMALL ELSE len

CopyAndReturn(len, buffer, size) ==
    IF ~buffer THEN len ELSE IF size < len THEN TOO_SMALL ELSE len

\* rtcGetLocalDescription and its like: the value may not be there yet.
GetOptional(avail, len, buffer, size) ==
    IF avail THEN CopyAndReturn(len, buffer, size) ELSE NOT_AVAIL

\* rtcGetSelectedCandidatePair fills two buffers.
GetPair(avail, len, buffer, size) ==
    LET ret(side) == CopyAndReturn(len[side], buffer[side], size[side]) IN
    IF ~avail THEN NOT_AVAIL
    ELSE IF ret(1) < 0 THEN ret(1)
    ELSE IF ret(2) < 0 THEN ret(2)
    ELSE Larger(ret(1), ret(2))

\* rtcReceiveMessage of a message of len bytes, plus the final zero of a text.
\* A size told of a text is negative.  The message was moved into
\* copyAndReturn() when a size is told of one that does not fit.
ReceiveMessage(text, len, buffer, size) ==
    LET zero == IF text THEN 1 ELSE 0
        sign(n) == IF text THEN -n ELSE n
        ret == CopyAndReturn(len + zero, buffer, Magnitude(size))
    IN [ret |-> IF ret >= 0 THEN SUCCESS ELSE ret,
        size |-> IF ret >= 0 THEN sign(ret) ELSE sign(zero),
        discard |-> ret >= 0 /\ buffer]

-----------------------------------------------------------------------------
(* The reliability of a data channel.                                      *)

CHANNEL_RELIABLE == 0
CHANNEL_PARTIAL_RELIABLE_REXMIT == 1
CHANNEL_PARTIAL_RELIABLE_TIMED == 2
UnorderedBit == 128

Inits == [unordered : BOOLEAN, unreliable : BOOLEAN,
          maxPacketLifeTime : 0..1, maxRetransmits : -1..1]

\* rtcCreateDataChannelEx
ReliabilityOf(init) ==
    [unordered |-> init.unordered,
     type |-> IF ~init.unreliable THEN "Reliable"
              ELSE IF init.maxPacketLifeTime > 0 THEN "Timed" ELSE "Rexmit",
     rexmit |-> IF ~init.unreliable THEN 0
                ELSE IF init.maxPacketLifeTime > 0 THEN init.maxPacketLifeTime
                ELSE init.maxRetransmits]

\* OutgoingDataChannel::open
OpenMessage(r) ==
    [channelType |->
        (CASE r.type = "Rexmit" -> CHANNEL_PARTIAL_RELIABLE_REXMIT
           [] r.type = "Timed" -> CHANNEL_PARTIAL_RELIABLE_TIMED
           [] OTHER -> CHANNEL_RELIABLE) + (IF r.unordered THEN UnorderedBit ELSE 0),
     reliabilityParameter |->
        CASE r.type = "Rexmit" -> Larger(r.rexmit, 0)
          [] r.type = "Timed" -> r.rexmit
          [] OTHER -> 0]

FromOpen_Exact(m) ==
    LET type == m.channelType IN
    [unordered |-> m.channelType >= UnorderedBit,
     type |-> CASE type = CHANNEL_PARTIAL_RELIABLE_REXMIT -> "Rexmit"
                [] type = CHANNEL_PARTIAL_RELIABLE_TIMED -> "Timed"
                [] OTHER -> "Reliable",
     rexmit |-> IF type \in {CHANNEL_PARTIAL_RELIABLE_REXMIT, CHANNEL_PARTIAL_RELIABLE_TIMED}
                THEN m.reliabilityParameter ELSE 0]

\* IncomingDataChannel::processOpenMessage
FromOpen(m) ==
    LET type == m.channelType % UnorderedBit IN
    [unordered |-> m.channelType >= UnorderedBit,
     type |-> CASE type = CHANNEL_PARTIAL_RELIABLE_REXMIT -> "Rexmit"
                [] type = CHANNEL_PARTIAL_RELIABLE_TIMED -> "Timed"
                [] OTHER -> "Reliable",
     rexmit |-> IF type \in {CHANNEL_PARTIAL_RELIABLE_REXMIT, CHANNEL_PARTIAL_RELIABLE_TIMED}
                THEN m.reliabilityParameter ELSE 0]

\* rtcGetDataChannelReliability
GetReliability(r) ==
    [unordered |-> r.unordered,
     unreliable |-> r.type # "Reliable",
     maxPacketLifeTime |-> IF r.type = "Timed" THEN r.rexmit ELSE 0,
     maxRetransmits |-> IF r.type = "Rexmit" THEN r.rexmit ELSE 0]

-----------------------------------------------------------------------------
(* Tracks.                                                                 *)

VideoCodecs == {"H264", "VP8", "VP9"}
AudioCodecs == {"OPUS", "PCMU", "PCMA"}

\* rtcAddTrackEx: a description of the type of the codec, whose name is also
\* the default mid, or none ("Unexpected codec").
TrackDescription(trackInit) ==
    LET type == IF trackInit.codec \in AudioCodecs THEN "audio" ELSE "video" IN
    IF trackInit.codec \notin VideoCodecs \cup AudioCodecs THEN {}
    ELSE {[type |-> type, mid |-> IF trackInit.mid = "" THEN type ELSE trackInit.mid]}

=============================================================================
