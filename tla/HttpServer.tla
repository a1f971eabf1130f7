------------------------------ MODULE HttpServer ------------------------------
(***************************************************************************)
(* HttpServer and HttpContext (examples/http) on one connection.  A line   *)
(* is its words, as its blanks part them, and whether there is a colon; it *)
(* arrives before the unit CRLF that ends it, and a line cut in two is one *)
(* whose CRLF has not come.  The loop of parseRequest() is an action per   *)
(* turn.  What send() is given in answer to a request goes to `out`, as    *)
(* the pieces of one answer.                                               *)
(***************************************************************************)
EXTENDS Naturals, FiniteSets, SequencesExt

CONSTANTS MaxRequests,   \* bound on the requests of the client
          FileChunks     \* pieces of kBufSize in a page

ASSUME HttpAssumption == MaxRequests \in Nat \ {0} /\ FileChunks \in Nat

VARIABLES
  requests,      \* the requests the client has begun to send
  toSend,        \* what is left of the last one
  rcv,           \* units that have arrived and were not read
  inputBuffer_,
  state_,        \* of the HttpContext
  request_,      \* of the HttpContext
  phase,         \* "idle", or "parsing" in parseRequest()
  out,           \* the answers the connection was given to send, as their pieces
  shut,          \* shutdown() has been called
  fault          \* the assert of setMethod() has failed

contextVars == <<state_, request_>>
httpVars == <<requests, toSend, rcv, inputBuffer_, contextVars, phase, out, shut, fault>>

CRLF == [crlf |-> TRUE, words |-> <<>>, colon |-> FALSE]
Text(words) == [crlf |-> FALSE, words |-> words, colon |-> FALSE]
Header(field, value) == [crlf |-> FALSE, words |-> <<field, value>>, colon |-> TRUE]

\* A request is its line, at most one header and an empty line.
Plain(words) == <<Text(words), CRLF, CRLF>>
WithHeader(words, field, value) ==
  <<Text(words), CRLF, Header(field, value), CRLF, CRLF>>

\* What a client may send: requests with a page, without one, in both versions,
\* with a wrong method and with a wrong version.
Requests ==
  {WithHeader(<<"GET", "/", "HTTP/1.1">>, "Host", "x"),
   WithHeader(<<"GET", "/a.css", "HTTP/1.1">>, "Connection", "Keep-Alive"),
   WithHeader(<<"GET", "/hello", "HTTP/1.1">>, "Connection", "close"),
   Plain(<<"HEAD", "/README", "HTTP/1.0">>),
   WithHeader(<<"PUT", "/hello", "HTTP/1.0">>, "Connection", "Keep-Alive"),
   Plain(<<"DELETE", "/none", "HTTP/1.1">>),
   Plain(<<"TRACE", "/", "HTTP/1.1">>),
   Plain(<<"POST", "/", "HTTP/2.0">>),
   Plain(<<"GET", "/">>)}

NewRequest == [method_ |-> "kInvalid", version_ |-> "kUnknown", path_ |-> "",
               Connection |-> ""]

HttpInit ==
  /\ requests = <<>> /\ toSend = <<>> /\ rcv = <<>> /\ inputBuffer_ = <<>>
  /\ state_ = "kExpectRequestLine" /\ request_ = NewRequest
  /\ phase = "idle" /\ out = <<>> /\ shut = FALSE /\ fault = FALSE

------------------------------------------------------------------------------
(* HttpRequest.                                                             *)

Methods == [GET |-> "kGet", POST |-> "kPost", HEAD |-> "kHead", PUT |-> "kPut",
            DELETE |-> "kDelete"]

SetMethod(req, word) ==
  [req EXCEPT !.method_ = IF word \in DOMAIN Methods THEN Methods[word] ELSE "kInvalid"]

\* Only the field Connection is looked at; the last one counts.
AddHeader(req, line) ==
  IF line.words[1] = "Connection" THEN [req EXCEPT !.Connection = line.words[2]] ELSE req

\* processRequestLine(): what it leaves in the request, and whether it succeeds.
WithMethod(words) == IF Len(words) > 1 THEN SetMethod(request_, words[1]) ELSE request_

Version(words) ==
  CASE Len(words) = 3 /\ words[3] = "HTTP/1.1" -> "kHttp11"
    [] Len(words) = 3 /\ words[3] = "HTTP/1.0" -> "kHttp10"
    [] OTHER -> "kUnknown"

ProcessRequestLine(words) ==
  LET req == WithMethod(words)
  IN  IF req.method_ = "kInvalid" \/ Len(words) < 3 THEN req
      ELSE [req EXCEPT !.path_ = words[2], !.version_ = Version(words)]

\* A plausible mistake: any version will do.
SucceedsAnyVersion(words) == WithMethod(words).method_ # "kInvalid"

Succeeds(words) ==
  WithMethod(words).method_ # "kInvalid" /\ Version(words) # "kUnknown"

------------------------------------------------------------------------------
(* The answers, as pieces of output.                                        *)

Piece(what, status, type, close) ==
  [what |-> what, status |-> status, type |-> type, close |-> close]

\* A response with the headers for its content and for what becomes of the
\* connection.
AppendToBuffer(status, type, close) == <<Piece("response", status, type, close)>>

\* The loop of sendPageFile() ends with a chunk of length 0; another follows.
SendPageFile == [i \in 1..FileChunks |-> Piece("chunk", 0, "", FALSE)]
                  \o <<Piece("last", 0, "", FALSE), Piece("last", 0, "", FALSE)>>

\* The version and the header Connection ask for the connection to be closed.
Close(req) == \/ req.Connection = "close"
              \/ req.version_ = "kHttp10" /\ req.Connection # "Keep-Alive"

\* There is a page for the path.
HasFile(path) == path \in {"/", "/a.css", "/README"}

fileType == [txt |-> "text/plain", c |-> "text/plain", h |-> "text/plain",
             html |-> "text/html", htm |-> "text/htm", css |-> "text/css",
             gif |-> "image/gif", jpg |-> "image/jpeg", jpeg |-> "image/jpeg",
             png |-> "image/png", pdf |-> "application/pdf",
             ps |-> "application/postscript"]

\* What follows the last dot of a path, or all of a path without one.
Suffix(path) == IF path = "/a.css" THEN "css" ELSE path

GetFileType(path) ==
  IF path = "/" THEN fileType["html"]
  ELSE IF Suffix(path) \in DOMAIN fileType THEN fileType[Suffix(path)]
  ELSE fileType["txt"]

\* httpCallback_, as the test's: three paths with their types.
HttpCallback == [p \in {"/", "/favicon.ico", "/hello"} |->
                   CASE p = "/" -> "text/html" [] p = "/hello" -> "text/plain"
                     [] OTHER -> "image/png"]

\* Any other path is the end of the connection.
CloseConnection(req) ==
  Close(req) \/ ~(HasFile(req.path_) \/ req.path_ \in DOMAIN HttpCallback)

Answer(req) ==
  IF HasFile(req.path_)
    THEN AppendToBuffer(200, GetFileType(req.path_), Close(req)) \o SendPageFile
  ELSE IF req.path_ \in DOMAIN HttpCallback
    THEN AppendToBuffer(200, HttpCallback[req.path_], CloseConnection(req))
  ELSE AppendToBuffer(404, "", CloseConnection(req))

\* TcpConnection::send() after shutdown() drops what it is given.
Send(pieces) == out' = IF shut THEN out ELSE Append(out, pieces)

\* A plausible mistake: the callback's wish to close is not asked for.
OnRequestOwnClose(req) == Send(Answer(req)) /\ shut' = (shut \/ Close(req))

OnRequest(req) == Send(Answer(req)) /\ shut' = (shut \/ CloseConnection(req))

\* A 400 is always the last answer.
BadRequest == Send(AppendToBuffer(400, "", TRUE)) /\ shut' = TRUE

------------------------------------------------------------------------------
(* onMessage() and the loop of parseRequest().                              *)

\* A plausible mistake: a CRLF at the very end is not found.
FindCRLFBeforeEnd(buf) ==
  LET at == {i \in DOMAIN buf : buf[i].crlf /\ i < Len(buf)}
  IN  IF at = {} THEN 0 ELSE CHOOSE i \in at : \A j \in at : i <= j

\* findCRLF(): where the first CRLF is, or 0.
FindCRLF(buf) ==
  LET at == {i \in DOMAIN buf : buf[i].crlf}
  IN  IF at = {} THEN 0 ELSE CHOOSE i \in at : \A j \in at : i <= j

FirstLine == IF FindCRLF(inputBuffer_) = 1 THEN CRLF ELSE inputBuffer_[1]
RetrieveLine == inputBuffer_' = SubSeq(inputBuffer_, FindCRLF(inputBuffer_) + 1,
                                       Len(inputBuffer_))

HandleRead ==
  /\ ~fault /\ phase = "idle"
  /\ \E k \in 1..Len(rcv) : /\ inputBuffer_' = inputBuffer_ \o SubSeq(rcv, 1, k)
                            /\ rcv' = SubSeq(rcv, k + 1, Len(rcv))
  /\ phase' = "parsing"
  /\ UNCHANGED <<requests, toSend, contextVars, out, shut, fault>>

Turn(state) == /\ ~fault /\ phase = "parsing" /\ state_ = state
               /\ UNCHANGED <<requests, toSend, rcv>>

\* The assert of setMethod(), which is called if there is a blank.
MethodAssert(words) == Len(words) > 1 => request_.method_ = "kInvalid"

LineMissing ==
  /\ Turn("kExpectRequestLine")
  /\ FindCRLF(inputBuffer_) = 0
  /\ phase' = "idle"
  /\ UNCHANGED <<inputBuffer_, contextVars, out, shut, fault>>

RequestLineDone ==
  /\ Turn("kExpectRequestLine")
  /\ FindCRLF(inputBuffer_) # 0
  /\ MethodAssert(FirstLine.words)
  /\ Succeeds(FirstLine.words)
  /\ request_' = ProcessRequestLine(FirstLine.words)
  /\ RetrieveLine
  /\ state_' = "kExpectHeaders"
  /\ UNCHANGED <<phase, out, shut, fault>>

\* The line stays in the buffer, and the request keeps what was set.
RequestLineBad ==
  /\ Turn("kExpectRequestLine")
  /\ FindCRLF(inputBuffer_) # 0
  /\ MethodAssert(FirstLine.words)
  /\ ~Succeeds(FirstLine.words)
  /\ request_' = ProcessRequestLine(FirstLine.words)
  /\ BadRequest
  /\ phase' = "idle"
  /\ UNCHANGED <<inputBuffer_, state_, fault>>

AssertFails ==
  /\ Turn("kExpectRequestLine")
  /\ FindCRLF(inputBuffer_) # 0
  /\ ~MethodAssert(FirstLine.words)
  /\ fault' = TRUE
  /\ UNCHANGED <<inputBuffer_, contextVars, phase, out, shut>>

\* Without a CRLF the loop turns for ever here: nothing changes any more.
HeaderDone ==
  /\ Turn("kExpectHeaders")
  /\ FindCRLF(inputBuffer_) # 0
  /\ FirstLine.colon
  /\ request_' = AddHeader(request_, FirstLine)
  /\ RetrieveLine
  /\ UNCHANGED <<state_, phase, out, shut, fault>>

\* A plausible mistake: the headers of the last request are kept.
ResetKeepsHeaders ==
  /\ state_' = "kExpectRequestLine"
  /\ request_' = [NewRequest EXCEPT !.Connection = request_.Connection]

\* A plausible mistake: the request is not made new.
ResetStateOnly == state_' = "kExpectRequestLine" /\ UNCHANGED request_

Reset == state_' = "kExpectRequestLine" /\ request_' = NewRequest

\* Any line without a colon ends the headers: kGotAll, and onMessage() answers.
GotAll ==
  /\ Turn("kExpectHeaders")
  /\ FindCRLF(inputBuffer_) # 0
  /\ ~FirstLine.colon
  /\ RetrieveLine
  /\ OnRequest(request_)
  /\ Reset
  /\ phase' = "idle"
  /\ UNCHANGED fault

------------------------------------------------------------------------------
ClientSends ==
  /\ ~fault
  /\ \/ /\ toSend # <<>>
        /\ rcv' = Append(rcv, toSend[1]) /\ toSend' = Tail(toSend)
        /\ UNCHANGED requests
     \/ /\ toSend = <<>> /\ Len(requests) < MaxRequests
        /\ \E r \in Requests : /\ requests' = Append(requests, r)
                               /\ rcv' = Append(rcv, r[1]) /\ toSend' = Tail(r)
  /\ UNCHANGED <<inputBuffer_, contextVars, phase, out, shut, fault>>

Parse == LineMissing \/ RequestLineDone \/ RequestLineBad \/ AssertFails
           \/ HeaderDone \/ GotAll

HttpNext == ClientSends \/ HandleRead \/ Parse

\* The loop runs.
HttpSpec == HttpInit /\ [][HttpNext]_httpVars /\ WF_httpVars(HandleRead \/ Parse)
------------------------------------------------------------------------------
\* What a request asks for, read from the request itself.
IsBad(r) == \/ r[1].words[1] = "TRACE"
            \/ r[1].words[Len(r[1].words)] \notin {"HTTP/1.0", "HTTP/1.1"}
AsksClose(r) ==
  LET value == [i \in {i \in DOMAIN r : r[i].colon /\ r[i].words[1] = "Connection"}
                  |-> r[i].words[2]]
      asked == {value[i] : i \in DOMAIN value}
  IN  "close" \in asked \/ (r[1].words[3] = "HTTP/1.0" /\ asked = {})
PageType == [p \in {"/", "/a.css", "/README"} |->
               CASE p = "/" -> "text/html" [] p = "/a.css" -> "text/css"
                 [] p = "/README" -> "text/plain"]
Wanted(r) ==
  IF IsBad(r) THEN <<Piece("response", 400, "", TRUE)>>
  ELSE IF r[1].words[2] \in DOMAIN PageType
    THEN <<Piece("response", 200, PageType[r[1].words[2]], AsksClose(r))>>
           \o [i \in 1..(FileChunks + 2) |->
                 Piece(IF i <= FileChunks THEN "chunk" ELSE "last", 0, "", FALSE)]
  ELSE IF r[1].words[2] = "/hello"
    THEN <<Piece("response", 200, "text/plain", AsksClose(r))>>
  ELSE <<Piece("response", 404, "", TRUE)>>
LastAnswered == {i \in DOMAIN requests : Wanted(requests[i])[1].close}

\* The answers the client should get, to the first one that says close.
Expected ==
  LET n == IF LastAnswered = {} THEN Len(requests)
           ELSE CHOOSE i \in LastAnswered : \A j \in LastAnswered : i <= j
  IN  [i \in 1..n |-> Wanted(requests[i])]

HttpTypeOK ==
  /\ requests \in Seq(Requests) /\ Len(requests) <= MaxRequests
  /\ state_ \in {"kExpectRequestLine", "kExpectHeaders"}
  /\ request_.method_ \in {"kInvalid"} \cup {Methods[w] : w \in DOMAIN Methods}
  /\ state_ = "kExpectHeaders" =>
       request_.method_ # "kInvalid" /\ request_.version_ # "kUnknown"
  /\ phase \in {"idle", "parsing"} /\ shut \in BOOLEAN /\ fault \in BOOLEAN

(* However the requests are cut into reads, and however many come at once,  *)
(* the answers are those to the requests in their order, and none follows   *)
(* one that says close, which is when the connection is shut down.          *)
AnswersInOrder ==
  /\ IsPrefix(out, Expected)
  /\ shut <=> \E i \in DOMAIN out : out[i][1].close

(* The assert of setMethod() fails only after the end of the answers, for a *)
(* request line that was refused: it is still there when more arrives.      *)
AssertOnlyAfterBad ==
  fault => shut /\ \E i \in DOMAIN requests :
                      IsBad(requests[i]) /\ inputBuffer_[1] = requests[i][1]

\* The loop of parseRequest() does not end: a header is not complete.
Spins == /\ phase = "parsing" /\ state_ = "kExpectHeaders"
         /\ \A i \in DOMAIN inputBuffer_ : ~inputBuffer_[i].crlf

\* onMessage() has answered one request and left the line of the next one in the
\* buffer, and nothing more has come that would make it look there again.
LeftBehind == /\ phase = "idle" /\ state_ = "kExpectRequestLine" /\ rcv = <<>>
              /\ out # <<>> /\ \E i \in DOMAIN inputBuffer_ : inputBuffer_[i].crlf

(* Requests that have been sent whole are answered, up to the end of the    *)
(* answers, unless the loop of parseRequest() spins on a header whose end   *)
(* was not in the same read, or a request that came behind another one in   *)
(* one read waits for a read that does not come.                            *)
Answers == []<>(fault \/ shut \/ toSend # <<>> \/ out = Expected \/ Spins \/ LeftBehind)
==============================================================================
