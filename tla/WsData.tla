------------------------------- MODULE WsData -------------------------------
(***************************************************************************)
(* What a WebSocket puts on its connection: the lines of an HTTP exchange  *)
(* (src/src/impl/http.cpp, wshandshake.cpp, httpproxytransport.cpp) and    *)
(* the frames of RFC 6455 (src/src/impl/wstransport.cpp).  A connection    *)
(* carries cells, which may be cut between any two of them:                *)
(*    <<"line", what>>     a line of HTTP: its first line, or a header     *)
(*    <<"blank", "">>      the line that ends them                         *)
(*    <<"head", [...]>>    the first two bytes of a frame                  *)
(*    <<"length", n>>      its extended payload length                     *)
(*    <<"key", n>>         its masking key                                 *)
(*    <<"byte", n>>        a byte of payload, masked when there is a key   *)
(*    <<"hello", "">>      the peer's part of a TLS handshake              *)
(*    <<"bye", "">>        the close alert of TLS                          *)
(***************************************************************************)
EXTENDS Integers, SequencesExt

CONSTANTS ShortLength, Key

\* Lengths up to ShortLength fit in the header (125 in the code), and Key is the
\* masking key a client generates.
ASSUME WsDataAssumption == ShortLength \in Nat /\ Key \in Nat \ {0}

\* XOR, as far as the properties can tell: its own inverse for a given key.
Mask(b, key) == IF b = key THEN 0 ELSE IF b = 0 THEN key ELSE b

Frame(opcode, fin, payload) == [opcode |-> opcode, fin |-> fin, payload |-> payload]

\* sendFrame: masked by a client, not by a server.
Cells(frame, mask) ==
    LET n == Len(frame.payload)
        key == IF mask THEN Key ELSE 0
    IN << <<"head", [opcode |-> frame.opcode, fin |-> frame.fin, mask |-> mask,
                     length |-> IF n > ShortLength THEN ShortLength + 1 ELSE n]>> >>
       \o (IF n > ShortLength THEN << <<"length", n>> >> ELSE <<>>)
       \o (IF mask THEN << <<"key", Key>> >> ELSE <<>>)
       \o [i \in 1..n |-> <<"byte", Mask(frame.payload[i], key)>>]

\* readFrame: how many cells the first frame of the buffer takes, none while it
\* is incomplete, and the frame, with its payload unmasked.
ReadFrame(buffer) ==
    LET head == buffer[1][2]
        long == head.length > ShortLength
        ext == IF long THEN 1 ELSE 0
        header == 1 + ext + (IF head.mask THEN 1 ELSE 0)
        n == IF long THEN buffer[2][2] ELSE head.length
        key == IF head.mask THEN buffer[2 + ext][2] ELSE 0
    IN IF buffer # <<>> /\ header <= Len(buffer) /\ n \in 0..Len(buffer) - header
       THEN [len |-> header + n,
             frame |-> Frame(head.opcode, head.fin,
                             [i \in 1..n |-> Mask(buffer[header + i][2], key)])]
       ELSE [len |-> 0, frame |-> Frame("none", FALSE, <<>>)]

-----------------------------------------------------------------------------
Lines(whats) == [i \in DOMAIN whats |-> <<"line", whats[i]>>] \o << <<"blank", "">> >>

\* parseHttpLines: the number of cells up to the empty line, none without it.
HttpLength(buffer) ==
    LET ends == {i \in DOMAIN buffer : buffer[i][1] = "blank"}
    IN IF ends = {} THEN 0 ELSE CHOOSE i \in ends : \A j \in ends : i <= j

\* parseHttpHeaders: looked up without regard to order.
HttpHeaders(buffer) == {buffer[i][2] : i \in 2..(HttpLength(buffer) - 1)}

\* generateHttpRequest, generateHttpResponse and generateHttpError of WsHandshake,
\* and generateHttpRequest of HttpProxyTransport.
UpgradeRequest == Lines(<<"GET", "host", "upgrade", "key">>)
UpgradeResponse == Lines(<<"101", "upgrade", "accept">>)
UpgradeError(code) == Lines(<<code, "upgrade">>)
ConnectRequest == Lines(<<"CONNECT", "host">>)

\* parseHttpRequest: isHttpRequest() looks at what has arrived so far, the rest
\* waits for the whole request.
ParseRequest(buffer) ==
    LET headers == HttpHeaders(buffer) IN
    CASE buffer # <<>> /\ buffer[1] \notin {"line"} \X {"GET", "POST"} -> "400"
      [] HttpLength(buffer) = 0 -> "more"
      [] buffer[1] # <<"line", "GET">> -> "405"
      [] "host" \notin headers -> "400"
      [] "upgrade" \notin headers -> "426"
      [] "key" \notin headers -> "400"
      [] OTHER -> "done"

\* parseHttpResponse of WsHandshake.
ParseResponse(buffer) ==
    CASE HttpLength(buffer) = 0 -> "more"
      [] buffer[1] # <<"line", "101">> \/ ~({"upgrade", "accept"} \subseteq HttpHeaders(buffer)) -> "error"
      [] OTHER -> "done"

\* parseHttpResponse of HttpProxyTransport.
ParseProxyResponse(buffer) ==
    CASE HttpLength(buffer) = 0 -> "more"
      [] buffer[1] # <<"line", "200">> -> "error"
      [] OTHER -> "done"
=============================================================================
