-------------------------------- MODULE Http --------------------------------
(***************************************************************************)
(* net/http/HttpParser.cpp and the HTTP half of HttpServer::handleHttp:    *)
(* requests of one connection, arriving in pieces.  The data callback is   *)
(* shown all unread bytes each time; checkCompleted looks whether they are *)
(* a whole message, tryParse then runs http_parser over all of them and    *)
(* takes them all.                                                         *)
(*                                                                         *)
(* A message is a sequence of characters: "r" and "n" for CR and LF, a     *)
(* digit, "x" for a byte of data, and one character for each longer text   *)
(* (path, query, header line, trailer).  The peer waits for the answer     *)
(* before it sends the next request, asks to keep the connection with a    *)
(* Keep-Alive header, and sends nothing more without one or after asking   *)
(* for a WebSocket.                                                        *)
(***************************************************************************)
EXTENDS Integers, Sequences, SequencesExt

CONSTANTS
    Requests,           \* requests the peer sends
    MaxRequests         \* bound: requests sent

ASSUME HttpAssumption == MaxRequests \in Nat

VARIABLES
    httpParser,         \* class HTTPParser
    httpWire,           \* sent and not arrived
    httpBuffer,         \* the unread bytes of the connection
    httpSent,           \* history: requests sent
    httpGot,            \* history: what the user's callback read from the parser
    wsConnected         \* the 101 answer was sent

httpVars == <<httpParser, httpWire, httpBuffer, httpSent, httpGot, wsConnected>>

-----------------------------------------------------------------------------
(* Messages. *)

RL == <<"r", "n">>
DOUBLE_RL == RL \o RL
Digits == <<"0", "1", "2", "3", "4", "5", "6", "7", "8", "9">>
ToDigit(n) == Digits[n + 1]
ToInt(c) == CHOOSE n \in 0..9 : ToDigit(n) = c

BodyLen(r) == FoldLeft(LAMBDA n, piece : n + Len(piece), 0, r.body)

\* Header lines are characters of their own, with the value behind them where
\* it matters.
Headers(r) ==
    FlattenSeq([i \in DOMAIN r.headers |-> <<r.headers[i]>> \o RL])
    \o CASE r.coding = "length"  -> <<"Content-Length: ", ToDigit(BodyLen(r))>> \o RL
         [] r.coding = "chunked" -> <<"Transfer-Encoding: chunked">> \o RL
         [] OTHER                -> <<>>

Body(r) ==
    CASE r.coding = "length"  -> FlattenSeq(r.body)
      [] r.coding = "chunked" ->
            FlattenSeq([i \in DOMAIN r.body |-> <<ToDigit(Len(r.body[i]))>> \o RL \o r.body[i] \o RL])
            \o <<"0">> \o RL \o (IF r.trailer THEN <<"trailer">> \o RL ELSE <<>>) \o RL
      [] OTHER                -> <<>>

Message(r) ==
    <<r.path>> \o (IF r.query = "" THEN <<>> ELSE <<r.query>>) \o RL
    \o Headers(r) \o RL \o Body(r)
-----------------------------------------------------------------------------
(* HTTPParser *)

\* strstr: where pattern starts in s at or behind from, 0 for nullptr.
strstr(s, pattern, from) ==
    LET at == {i \in from..(Len(s) - Len(pattern) + 1) :
                 SubSeq(s, i, i + Len(pattern) - 1) = pattern}
    IN  IF at = {} THEN 0 ELSE CHOOSE i \in at : \A j \in at : i <= j

\* sscanf of a chunk length: nothing read is 0.
ChunkLen(s) == IF s = <<>> THEN 0 ELSE ToInt(s[1])

\* Mutant: the data of a chunk ends at the next line end.
afterChunks_search(s, bodystart) ==
    LET tail[tmp \in 1..(Len(s) + 1)] ==
            LET rl == strstr(s, RL, tmp)
                n == ChunkLen(SubSeq(s, tmp, rl - 1))
                data == rl + 2
                rl2 == strstr(s, RL, data)
            IN  IF rl = 0 \/ data > Len(s) THEN 0
                ELSE IF n = 0 THEN data
                ELSE IF rl2 = 0 THEN 0 ELSE tail[rl2 + 2]
    IN  tail[bodystart]

\* The loop over the chunks: where the text behind the line of the last chunk
\* starts, 0 when that has not arrived.
afterChunks(s, bodystart) ==
    LET tail[tmp \in 1..(Len(s) + 1)] ==
            LET rl == strstr(s, RL, tmp)
                n == ChunkLen(SubSeq(s, tmp, rl - 1))
                data == rl + 2
                rl2 == strstr(s, RL, data + n)
            IN  IF rl = 0 \/ data > Len(s) THEN 0
                ELSE IF n = 0 THEN data
                ELSE IF data + n > Len(s) \/ rl2 = 0 THEN 0
                ELSE tail[rl2 + 2]
    IN  tail[bodystart]

checkCompleted(s) ==
    LET head == strstr(s, DOUBLE_RL, 1)
        bodystart == head + 4
        contentlen == strstr(s, <<"Content-Length: ">>, 1)
        chunked == strstr(s, <<"Transfer-Encoding: chunked">>, 1)
        tmp == afterChunks(s, bodystart)
    IN  /\ head # 0
        /\ IF contentlen # 0 THEN Len(s) - (bodystart - 1) >= ToInt(s[contentlen + 1])
           ELSE chunked # 0 =>
                  /\ tmp # 0
                  /\ IF s[tmp] = "r" THEN strstr(s, RL, tmp) # 0
                                     ELSE strstr(s, DOUBLE_RL, tmp) # 0

NewParser ==
    [mISCompleted |-> FALSE, mIsWebSocket |-> FALSE, mIsKeepAlive |-> FALSE,
     mPath |-> "", mQuery |-> "", mHeadValues |-> {}, mBody |-> <<>>]

\* What the callbacks of http_parser leave for request r: the path, a query if
\* there is one, the headers, and the body, of which each piece replaces the
\* one before it.
handlers(p, r) ==
    [p EXCEPT !.mPath = r.path,
              !.mQuery = IF r.query = "" THEN @ ELSE r.query,
              !.mHeadValues = @ \cup Range(r.headers),
              !.mBody = IF r.body = <<>> THEN @ ELSE Last(r.body)]

\* The parser after a message has arrived, or as it was.
tryParse(p, s, r) ==
    IF ~ p.mISCompleted /\ checkCompleted(s)
    THEN LET q == handlers([p EXCEPT !.mISCompleted = TRUE], r)
         IN  [q EXCEPT !.mIsWebSocket = "Upgrade" \in q.mHeadValues,
                       !.mIsKeepAlive = "Keep-Alive" \in q.mHeadValues]
    ELSE p

clearParse(p) ==
    [p EXCEPT !.mISCompleted = FALSE, !.mHeadValues = {}, !.mPath = "", !.mQuery = ""]
-----------------------------------------------------------------------------
HttpInit ==
    /\ httpParser = NewParser
    /\ httpWire = <<>> /\ httpBuffer = <<>>
    /\ httpSent = <<>> /\ httpGot = <<>> /\ wsConnected = FALSE

sendRequest(r) ==
    /\ Len(httpSent) < MaxRequests
    /\ httpWire = <<>>
    /\ httpSent # <<>> => "Keep-Alive" \in Range(Last(httpSent).headers) /\ ~ wsConnected
    /\ httpWire' = Message(r)
    /\ httpSent' = Append(httpSent, r)
    /\ UNCHANGED <<httpParser, httpBuffer, httpGot, wsConnected>>

\* n characters arrive, and the data callback runs over the unread ones.
httpData(n) ==
    LET s == httpBuffer \o SubSeq(httpWire, 1, n)
        p == tryParse(httpParser, s, Last(httpSent))
        retlen == IF ~ httpParser.mISCompleted /\ p.mISCompleted THEN Len(s) ELSE 0
    IN  /\ ~ httpParser.mIsWebSocket
        /\ n \in 1..Len(httpWire)
        /\ httpWire' = SubSeq(httpWire, n + 1, Len(httpWire))
        /\ httpBuffer' = SubSeq(s, retlen + 1, Len(s))
        /\ IF ~ p.mISCompleted
           THEN httpParser' = p /\ UNCHANGED <<httpGot, wsConnected>>
           ELSE /\ httpParser' = IF ~ p.mIsWebSocket /\ p.mIsKeepAlive THEN clearParse(p) ELSE p
                /\ wsConnected' = p.mIsWebSocket
                /\ httpGot' = Append(httpGot, [path |-> p.mPath, query |-> p.mQuery,
                                               headers |-> p.mHeadValues, body |-> p.mBody])
        /\ UNCHANGED httpSent

HttpNext ==
    \/ \E r \in Requests : sendRequest(r)
    \/ \E n \in 1..Len(httpWire) : httpData(n)

HttpSpec == HttpInit /\ [][HttpNext]_httpVars
-----------------------------------------------------------------------------
(***************************************************************************)
(* However a request is cut into pieces, and whatever its body holds, the  *)
(* user's callback gets it once, in order, when its last byte has arrived  *)
(* and not before, with its own path, query and headers and nothing left   *)
(* from the request before it; no byte is left behind.                     *)
(***************************************************************************)
RequestsIntact ==
    /\ Len(httpGot) = IF httpWire = <<>> THEN Len(httpSent) ELSE Len(httpSent) - 1
    /\ httpWire = <<>> => httpBuffer = <<>>
    /\ \A i \in DOMAIN httpGot :
         /\ httpGot[i].path = httpSent[i].path
         /\ httpGot[i].query = httpSent[i].query
         /\ httpGot[i].headers = Range(httpSent[i].headers)

(***************************************************************************)
(* The callback finds the body of its own request in the parser: the data  *)
(* of a request is cleared to prepare for the next one, as the comment at  *)
(* HttpServer.cpp:289 says of the clearParse call below it.                *)
(***************************************************************************)
BodyIsOwn ==
    \A i \in DOMAIN httpGot : httpGot[i].body = FlattenSeq(httpSent[i].body)
=============================================================================
