-------------------------------- MODULE Rtp --------------------------------
(***************************************************************************)
(* Media packets: RTP and RTCP structures (src/src/rtp.cpp), the H264      *)
(* packetizer (src/src/h264rtppacketizer.cpp, src/src/nalunit.cpp) and the *)
(* store of the NACK responder (src/src/rtcpnackresponder.cpp).            *)
(*                                                                         *)
(* A payload is a sequence of small numbers, its bytes.  The widths of a   *)
(* sequence number and of the bitmask of a NACK are parameters.            *)
(***************************************************************************)
EXTENDS Integers, FiniteSets, TLC, SequencesExt

CONSTANTS
    SeqModulus,  \* 2^16
    BlpBits,     \* 16
    MaxFragment, \* maximumFragmentSize
    StoreSize    \* maximumSize of the NACK responder's storage

ASSUME WidthsAssumption ==
    /\ SeqModulus \in Nat \ {0} /\ BlpBits \in Nat /\ BlpBits < SeqModulus
    /\ MaxFragment \in Nat /\ MaxFragment > 3
    /\ StoreSize \in Nat \ {0}

CeilDiv(a, b) == (a + b - 1) \div b

-----------------------------------------------------------------------------
(* From a message to NAL units.                                            *)

\* One byte of a search for a start sequence: the zeros seen so far, at most
\* three, or the length of the sequence matched.
StartSequenceMatchSucc(match, byte, separator) ==
    LET detectShort == separator \in {"Short", "Any"}
        detectLong == separator \in {"Long", "Any"}
        none == [zeros |-> 0, length |-> 0]
    IN  IF match.length > 0 THEN match
        ELSE IF byte = 0 THEN
            [zeros |-> IF match.zeros < 2 \/ (match.zeros = 2 /\ detectLong) \/ match.zeros = 3
                       THEN Min({match.zeros + 1, 3}) ELSE match.zeros, length |-> 0]
        ELSE IF byte = 1 /\ match.zeros = 2 /\ detectShort THEN [none EXCEPT !.length = 3]
        ELSE IF byte = 1 /\ match.zeros = 3 /\ detectLong THEN [none EXCEPT !.length = 4]
        ELSE none

\* The unit of each length; one that is incomplete ends the message.
SplitByLength(message) ==
    LET at[index \in 0..Len(message)] ==
            LET end == index + 4 + message[index + 4] IN
            IF index + 4 >= Len(message) \/ end > Len(message) THEN <<>>
            ELSE <<SubSeq(message, index + 5, end)>> \o at[end]
    IN  at[0]

\* What precedes the first start sequence is skipped.  Without any there is
\* one unit, empty.
SplitByStartSequence(message, separator) ==
    LET step(s, index) ==
            LET m == StartSequenceMatchSucc(s.match, message[index], separator)
                unit == SubSeq(message, s.start, index - m.length)
            IN  IF m.length = 0 THEN [s EXCEPT !.match = m]
                ELSE [match |-> [zeros |-> 0, length |-> 0], start |-> index + 1, found |-> TRUE,
                      units |-> IF s.found THEN Append(s.units, unit) ELSE s.units]
        first == [match |-> [zeros |-> 0, length |-> 0], start |-> Len(message) + 1,
                  found |-> FALSE, units |-> <<>>]
        all == FoldLeft(step, first, [i \in DOMAIN message |-> i])
    IN  Append(all.units, SubSeq(message, all.start, Len(message)))

SplitMessage(message, separator) ==
    IF separator = "Length" THEN SplitByLength(message)
    ELSE SplitByStartSequence(message, separator)

-----------------------------------------------------------------------------
(* From NAL units to fragments of at most MaxFragment bytes.  The header   *)
(* of a unit is its first byte; a fragment repeats it.                     *)

Whole(unit) == [type |-> "Whole", header |-> unit, data |-> unit]

\* FU-A: two bytes of a fragment are headers.
FragmentsFrom_NoHeaders(unit) ==
    LET count == CeilDiv(Len(unit), MaxFragment)
        size == CeilDiv(Len(unit), count)
        pieces == CeilDiv(Len(unit) - 1, size)
    IN  [i \in 1..pieces |->
            [type |-> IF i = 1 THEN "Start" ELSE IF i < pieces THEN "Middle" ELSE "End",
             header |-> <<unit[1]>>,
             data |-> SubSeq(unit, 2 + (i - 1) * size, Min({1 + i * size, Len(unit)}))]]

FragmentsFrom(unit) ==
    LET count == CeilDiv(Len(unit), MaxFragment)
        size == CeilDiv(Len(unit), count) - 2
        pieces == CeilDiv(Len(unit) - 1, size)
    IN  [i \in 1..pieces |->
            [type |-> IF i = 1 THEN "Start" ELSE IF i < pieces THEN "Middle" ELSE "End",
             header |-> <<unit[1]>>,
             data |-> SubSeq(unit, 2 + (i - 1) * size, Min({1 + i * size, Len(unit)}))]]

GenerateFragments(units) ==
    FlattenSeq([i \in DOMAIN units |->
        IF Len(units[i]) > MaxFragment THEN FragmentsFrom(units[i]) ELSE <<Whole(units[i])>>])

FragmentSize(fragment) ==
    Len(fragment.data) + (IF fragment.type = "Whole" THEN 0 ELSE 2)

-----------------------------------------------------------------------------
(* Packets.  An RTP packet has an extension header when there is something *)
(* to put in it: extSize is what the packetizer keeps for it, extWords the *)
(* length it declares.                                                     *)

NoPacket ==
    [kind |-> "rtp", ssrc |-> 0, seq |-> 0, mark |-> FALSE, extSize |-> 0, extWords |-> 0,
     body |-> Whole(<<>>), parts |-> <<>>, count |-> 0, mid |-> "", index |-> 0]

IsRtcp(packet) == packet.kind # "rtp"

\* elements: the lengths of the mid and the rid; rotated: a rotation is set,
\* which goes with the last packet of a frame.
Packetize(fragment, mark, ssrc, seq, elements, rotated) ==
    LET body == FoldLeft(LAMBDA sum, n : sum + 1 + n, 0, elements)
                + (IF rotated /\ mark THEN 2 ELSE 0)
    IN  [NoPacket EXCEPT !.ssrc = ssrc, !.seq = seq, !.mark = mark, !.body = fragment,
                         !.extSize = IF body = 0 THEN 0 ELSE 4 + body,
                         !.extWords = IF body = 0 THEN 0 ELSE CeilDiv(body, 4)]

\* Where the payload begins for a reader of the headers, after where it was
\* put: RtpHeader::getBody().
BodyShift(packet) ==
    IF packet.extSize = 0 THEN 0 ELSE 4 + 4 * packet.extWords - packet.extSize

\* The part of the SSRCs of a RTCP packet that forwardMedia() looks at.
RtcpSsrcs(packet) == IF packet.kind = "remb" THEN {0, packet.ssrc} ELSE {packet.ssrc}

\* RtcpNack::addMissingPacket, with the bitmask as the set of its bits.
AddMissingPacket(parts, missing) ==
    LET last == parts[Len(parts)] IN
    IF parts = <<>> \/ missing < last.pid \/ missing > last.pid + BlpBits
    THEN Append(parts, [pid |-> missing, blp |-> {}])
    ELSE [parts EXCEPT ![Len(parts)].blp = (@ \cup {missing - (1 + last.pid)}) \cap (0..BlpBits - 1)]

GetSequenceNumbers_BitsOnly(part) ==
    LET bits == SetToSortSeq(part.blp, <) IN
    [i \in DOMAIN bits |-> (part.pid + 1 + bits[i]) % SeqModulus]

GetSequenceNumbers(part) ==
    LET bits == SetToSortSeq(part.blp, <) IN
    <<part.pid>> \o [i \in DOMAIN bits |-> (part.pid + 1 + bits[i]) % SeqModulus]

-----------------------------------------------------------------------------
(* The store of a NACK responder: a map, and the list of its keys from the *)
(* oldest.  A key that is there keeps its packet.                          *)

EmptyStore == [map |-> <<>>, order |-> <<>>]

Store(s, packet) ==
    LET map == s.map @@ (packet.seq :> packet)
        order == Append(s.order, packet.seq)
    IN  IF Cardinality(DOMAIN map) <= StoreSize THEN [map |-> map, order |-> order]
        ELSE [map |-> Restrict(map, DOMAIN map \ {order[1]}), order |-> Tail(order)]

\* The packets a NACK asks for that are still there.
Requested(s, nack) ==
    LET asked == FlattenSeq([i \in DOMAIN nack.parts |-> GetSequenceNumbers(nack.parts[i])])
        there == SelectSeq(asked, LAMBDA seq : seq \in DOMAIN s.map)
    IN  [i \in DOMAIN there |-> s.map[there[i]]]

=============================================================================
