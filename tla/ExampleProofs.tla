---------------------------- MODULE ExampleProofs ----------------------------
(***************************************************************************)
(* TLAPS proofs about two of the example programs.                         *)
(*                                                                         *)
(* HttpServer, for any number of requests and any length of a page: however*)
(* the requests are cut into reads, the answers are those to the requests  *)
(* in their order, up to the first that says close, and the assert of      *)
(* setMethod() fails only for a request line that was refused before.      *)
(*                                                                         *)
(* PingpongClient, for any number of sessions and threads: as long as no   *)
(* callback takes a session that came up for one that went down, the last  *)
(* session to go down reports, and what is reported after all were up is   *)
(* complete.                                                               *)
(***************************************************************************)
EXTENDS HttpServer, PingpongClient, FiniteSetTheorems, SequenceTheorems,
        WellFoundedInduction, TLAPS

USE HttpAssumption

\* The words of the nine requests.
Word == {"GET", "HEAD", "PUT", "DELETE", "TRACE", "POST", "/", "/a.css", "/hello",
         "/README", "/none", "HTTP/1.0", "HTTP/1.1", "HTTP/2.0", "Host", "x",
         "Connection", "Keep-Alive", "close"}

Unit == [crlf : BOOLEAN, words : Seq(Word), colon : BOOLEAN]

AfterLine(r) == [method_ |-> Methods[r[1].words[1]], version_ |-> Version(r[1].words),
                 path_ |-> r[1].words[2], Connection |-> ""]

AfterHeaders(r) == IF Len(r) = 5 THEN AddHeader(AfterLine(r), r[3]) ELSE AfterLine(r)

Shaped(r) ==
  /\ r \in Seq(Unit)
  /\ Len(r) \in {3, 5}
  /\ ~r[1].crlf /\ ~r[1].colon /\ r[2] = CRLF /\ r[Len(r)] = CRLF
  /\ Len(r) = 5 => ~r[3].crlf /\ r[3].colon /\ r[4] = CRLF
  /\ Len(r[1].words) > 1

\* The unit that ends a line.
LEMMA CrlfUnit == CRLF \in Unit /\ CRLF.crlf /\ ~CRLF.colon
<1>1. <<>> \in Seq(Word)
  OBVIOUS
<1> QED BY <1>1 DEF CRLF, Unit

\* A line without a colon.
LEMMA TextUnit ==
  ASSUME NEW words \in Seq(Word)
  PROVE  /\ Text(words) \in Unit /\ Text(words).words = words
         /\ ~Text(words).crlf /\ ~Text(words).colon
BY DEF Text, Unit

\* A header is a line with a colon.
LEMMA HeaderUnit ==
  ASSUME NEW field \in Word, NEW value \in Word
  PROVE  /\ Header(field, value) \in Unit
         /\ ~Header(field, value).crlf /\ Header(field, value).colon
<1>1. ASSUME NEW S, NEW a \in S, NEW b \in S PROVE <<a, b>> \in Seq(S)
  OBVIOUS
<1>2. <<field, value>> \in Seq(Word)
  BY <1>1
<1> QED BY <1>2 DEF Header, Unit

\* A request without a header.
LEMMA PlainShape ==
  ASSUME NEW words \in Seq(Word), Len(words) > 1
  PROVE  Shaped(Plain(words)) /\ Len(Plain(words)) = 3 /\ Plain(words)[1] = Text(words)
<1>1. ASSUME NEW S, NEW l \in S, NEW c \in S
      PROVE  LET r == <<l, c, c>>
             IN  r \in Seq(S) /\ Len(r) = 3 /\ r[1] = l /\ r[2] = c /\ r[3] = c
  OBVIOUS
<1> PICK r : r = Plain(words)
  OBVIOUS
<1>2. r \in Seq(Unit) /\ Len(r) = 3 /\ r[1] = Text(words) /\ r[2] = CRLF /\ r[3] = CRLF
  BY <1>1, CrlfUnit, TextUnit DEF Plain
<1> QED BY <1>2, TextUnit DEF Shaped

\* A request with a header.
LEMMA HeaderShape ==
  ASSUME NEW words \in Seq(Word), Len(words) > 1,
         NEW field \in Word, NEW value \in Word
  PROVE  LET r == WithHeader(words, field, value)
         IN  /\ Shaped(r) /\ Len(r) = 5
             /\ r[1] = Text(words) /\ r[3] = Header(field, value)
<1>1. ASSUME NEW S, NEW l \in S, NEW c \in S, NEW h \in S
      PROVE  LET r == <<l, c, h, c, c>>
             IN  /\ r \in Seq(S) /\ Len(r) = 5
                 /\ r[1] = l /\ r[2] = c /\ r[3] = h /\ r[4] = c /\ r[5] = c
  OBVIOUS
<1> PICK r : r = WithHeader(words, field, value)
  OBVIOUS
<1>2. /\ r \in Seq(Unit) /\ Len(r) = 5 /\ r[1] = Text(words) /\ r[2] = CRLF
      /\ r[3] = Header(field, value) /\ r[4] = CRLF /\ r[5] = CRLF
  BY <1>1, CrlfUnit, TextUnit, HeaderUnit DEF WithHeader
<1> QED BY <1>2, TextUnit, HeaderUnit DEF Shaped

\* A request line of three words, and the header that follows it.
Asks(r, method, path, version) ==
  /\ Shaped(r) /\ r[1].words \in Seq(Word) /\ Len(r[1].words) = 3
  /\ r[1].words[1] = method /\ r[1].words[2] = path /\ r[1].words[3] = version

Says(r, field, value) ==
  Len(r) = 5 /\ r[3].words[1] = field /\ r[3].words[2] = value

\* What the line of a request without a header says.
LEMMA PlainAsks ==
  ASSUME NEW a \in Word, NEW b \in Word, NEW c \in Word
  PROVE  Asks(Plain(<<a, b, c>>), a, b, c) /\ Len(Plain(<<a, b, c>>)) = 3
<1> DEFINE T == <<a, b, c>>
<1>0. T \in Seq(Word) /\ Len(T) = 3 /\ T[1] = a /\ T[2] = b /\ T[3] = c
  OBVIOUS
<1> HIDE DEF T
<1>1. PICK w : w = T
  OBVIOUS
<1>2. /\ w \in Seq(Word) /\ Len(w) = 3 /\ w[1] = a /\ w[2] = b /\ w[3] = c
      /\ Len(w) > 1
  <2>1. w \in Seq(Word) /\ Len(w) = 3 /\ w[1] = a /\ w[2] = b /\ w[3] = c
    BY <1>0, <1>1, Zenon
  <2> QED BY <2>1
<1> PICK r : r = Plain(w)
  OBVIOUS
<1>a. Shaped(r) /\ Len(r) = 3 /\ r[1] = Text(w)
  BY <1>2, PlainShape
<1>b. r[1].words = w
  BY <1>2, <1>a, TextUnit
<1>3. Asks(Plain(w), a, b, c) /\ Len(Plain(w)) = 3
  BY <1>2, <1>a, <1>b DEF Asks
<1> QED BY <1>1, <1>3, Zenon DEF T

\* What the line and the header of a request with one say.
LEMMA HeaderAsks ==
  ASSUME NEW a \in Word, NEW b \in Word, NEW c \in Word,
         NEW f \in Word, NEW v \in Word
  PROVE  LET r == WithHeader(<<a, b, c>>, f, v)
         IN  Asks(r, a, b, c) /\ Says(r, f, v)
<1> DEFINE T == <<a, b, c>>
<1>0. T \in Seq(Word) /\ Len(T) = 3 /\ T[1] = a /\ T[2] = b /\ T[3] = c
  OBVIOUS
<1> HIDE DEF T
<1>1. PICK w : w = T
  OBVIOUS
<1>2. /\ w \in Seq(Word) /\ Len(w) = 3 /\ w[1] = a /\ w[2] = b /\ w[3] = c
      /\ Len(w) > 1
  <2>1. w \in Seq(Word) /\ Len(w) = 3 /\ w[1] = a /\ w[2] = b /\ w[3] = c
    BY <1>0, <1>1, Zenon
  <2> QED BY <2>1
<1> PICK r : r = WithHeader(w, f, v)
  OBVIOUS
<1>3. Shaped(r) /\ Len(r) = 5 /\ r[1] = Text(w) /\ r[3] = Header(f, v)
  BY <1>2, HeaderShape
<1>b. r[1].words = w
  BY <1>2, <1>3, TextUnit
<1>4. Asks(r, a, b, c)
  BY <1>2, <1>3, <1>b DEF Asks
<1>5. Header(f, v).words[1] = f /\ Header(f, v).words[2] = v
  BY DEF Header
<1>6. Says(r, f, v)
  BY <1>3, <1>5 DEF Says
<1> QED BY <1>1, <1>4, <1>6, Zenon DEF T

\* The nine requests.
Kinds(r) ==
  \/ Asks(r, "GET", "/", "HTTP/1.1") /\ Says(r, "Host", "x")
  \/ Asks(r, "GET", "/a.css", "HTTP/1.1") /\ Says(r, "Connection", "Keep-Alive")
  \/ Asks(r, "GET", "/hello", "HTTP/1.1") /\ Says(r, "Connection", "close")
  \/ Asks(r, "HEAD", "/README", "HTTP/1.0") /\ Len(r) = 3
  \/ Asks(r, "PUT", "/hello", "HTTP/1.0") /\ Says(r, "Connection", "Keep-Alive")
  \/ Asks(r, "DELETE", "/none", "HTTP/1.1") /\ Len(r) = 3
  \/ Asks(r, "TRACE", "/", "HTTP/1.1") /\ Len(r) = 3
  \/ Asks(r, "POST", "/", "HTTP/2.0") /\ Len(r) = 3
  \/ /\ Shaped(r) /\ Len(r) = 3 /\ r[1].words \in Seq(Word) /\ Len(r[1].words) = 2
     /\ r[1].words[1] = "GET" /\ r[1].words[2] = "/"

\* Every request is one of the nine kinds.
LEMMA RequestKinds == \A r \in Requests : Kinds(r)
<1> SUFFICES ASSUME NEW r \in Requests PROVE Kinds(r)
  OBVIOUS
<1>a. /\ "GET" \in Word /\ "HEAD" \in Word /\ "PUT" \in Word /\ "DELETE" \in Word
      /\ "TRACE" \in Word /\ "POST" \in Word /\ "/" \in Word /\ "/a.css" \in Word
      /\ "/hello" \in Word /\ "/README" \in Word /\ "/none" \in Word
      /\ "HTTP/1.0" \in Word /\ "HTTP/1.1" \in Word /\ "HTTP/2.0" \in Word
      /\ "Host" \in Word /\ "x" \in Word /\ "Connection" \in Word
      /\ "Keep-Alive" \in Word /\ "close" \in Word
  BY DEF Word
<1>1. CASE r = WithHeader(<<"GET", "/", "HTTP/1.1">>, "Host", "x")
  <2>1. Asks(r, "GET", "/", "HTTP/1.1") /\ Says(r, "Host", "x")
    BY <1>1, <1>a, HeaderAsks
  <2> QED BY <2>1 DEF Kinds
<1>2. CASE r = WithHeader(<<"GET", "/a.css", "HTTP/1.1">>, "Connection", "Keep-Alive")
  <2>1. Asks(r, "GET", "/a.css", "HTTP/1.1") /\ Says(r, "Connection", "Keep-Alive")
    BY <1>2, <1>a, HeaderAsks
  <2> QED BY <2>1 DEF Kinds
<1>3. CASE r = WithHeader(<<"GET", "/hello", "HTTP/1.1">>, "Connection", "close")
  <2>1. Asks(r, "GET", "/hello", "HTTP/1.1") /\ Says(r, "Connection", "close")
    BY <1>3, <1>a, HeaderAsks
  <2> QED BY <2>1 DEF Kinds
<1>4. CASE r = Plain(<<"HEAD", "/README", "HTTP/1.0">>)
  <2>1. Asks(r, "HEAD", "/README", "HTTP/1.0") /\ Len(r) = 3
    BY <1>4, <1>a, PlainAsks
  <2> QED BY <2>1 DEF Kinds
<1>5. CASE r = WithHeader(<<"PUT", "/hello", "HTTP/1.0">>, "Connection", "Keep-Alive")
  <2>1. Asks(r, "PUT", "/hello", "HTTP/1.0") /\ Says(r, "Connection", "Keep-Alive")
    BY <1>5, <1>a, HeaderAsks
  <2> QED BY <2>1 DEF Kinds
<1>6. CASE r = Plain(<<"DELETE", "/none", "HTTP/1.1">>)
  <2>1. Asks(r, "DELETE", "/none", "HTTP/1.1") /\ Len(r) = 3
    BY <1>6, <1>a, PlainAsks
  <2> QED BY <2>1 DEF Kinds
<1>7. CASE r = Plain(<<"TRACE", "/", "HTTP/1.1">>)
  <2>1. Asks(r, "TRACE", "/", "HTTP/1.1") /\ Len(r) = 3
    BY <1>7, <1>a, PlainAsks
  <2> QED BY <2>1 DEF Kinds
<1>8. CASE r = Plain(<<"POST", "/", "HTTP/2.0">>)
  <2>1. Asks(r, "POST", "/", "HTTP/2.0") /\ Len(r) = 3
    BY <1>8, <1>a, PlainAsks
  <2> QED BY <2>1 DEF Kinds
<1>9. CASE r = Plain(<<"GET", "/">>)
  <2> DEFINE T == <<"GET", "/">>
  <2>0. T \in Seq(Word) /\ Len(T) = 2 /\ T[1] = "GET" /\ T[2] = "/" /\ r = Plain(T)
    BY <1>a, <1>9
  <2> HIDE DEF T
  <2>1. PICK w : w = T
    OBVIOUS
  <2>2. /\ w \in Seq(Word) /\ Len(w) = 2 /\ w[1] = "GET" /\ w[2] = "/" /\ r = Plain(w)
        /\ Len(w) > 1
    BY <2>0, <2>1
  <2>3. Shaped(r) /\ Len(r) = 3 /\ r[1] = Text(w)
    BY <2>2, PlainShape
  <2>4. Text(w).words = w
    BY <2>2, TextUnit
  <2> QED BY <2>2, <2>3, <2>4 DEF Kinds
<1> QED BY <1>1, <1>2, <1>3, <1>4, <1>5, <1>6, <1>7, <1>8, <1>9, Zenon DEF Requests

\* Every request is a line, at most one header and an empty line.
LEMMA RequestShape == \A r \in Requests : Shaped(r)
BY RequestKinds DEF Kinds, Asks

\* The methods setMethod() knows.
LEMMA MethodValues ==
  /\ DOMAIN Methods = {"GET", "POST", "HEAD", "PUT", "DELETE"}
  /\ Methods["GET"] = "kGet" /\ Methods["POST"] = "kPost" /\ Methods["HEAD"] = "kHead"
  /\ Methods["PUT"] = "kPut" /\ Methods["DELETE"] = "kDelete"
BY DEF Methods

\* The types getFileType() gives the pages, against those the client expects.
LEMMA FileTypes ==
  /\ GetFileType("/") = "text/html" /\ GetFileType("/a.css") = "text/css"
  /\ GetFileType("/README") = "text/plain"
BY DEF GetFileType, fileType, Suffix

\* n times c and then l twice, as the code sends it and as one function.
Run(c, l, n) == [i \in 1..n |-> c] \o <<l, l>>
Body(c, l, n) == [i \in 1..(n + 2) |-> IF i <= n THEN c ELSE l]

\* The chunks and the two last ones are one sequence.
LEMMA RunThenTwo ==
  ASSUME NEW S, NEW c \in S, NEW l \in S, NEW n \in Nat
  PROVE  Run(c, l, n) = Body(c, l, n) /\ Run(c, l, n) \in Seq(S)
<1> DEFINE a == [i \in 1..n |-> c]
           b == <<l, l>>
           w == [i \in 1..(n + 2) |-> IF i <= n THEN c ELSE l]
<1>1. a \in Seq(S) /\ Len(a) = n /\ \A i \in 1..n : a[i] = c
  OBVIOUS
<1>2. b \in Seq(S) /\ Len(b) = 2 /\ b[1] = l /\ b[2] = l
  OBVIOUS
<1>3. w \in Seq(S) /\ Len(w) = n + 2 /\ \A i \in 1..(n + 2) : w[i] = IF i <= n THEN c ELSE l
  OBVIOUS
<1> HIDE DEF a, b, w
<1>t. a \in Seq(S) /\ b \in Seq(S) /\ Len(a) = n /\ Len(b) = 2
  BY <1>1, <1>2
<1>4. /\ (a \o b) \in Seq(S) /\ Len(a \o b) = n + 2
      /\ \A i \in 1..(n + 2) : (a \o b)[i] = IF i <= n THEN a[i] ELSE b[i - n]
  <2>1. /\ (a \o b) \in Seq(S) /\ Len(a \o b) = Len(a) + Len(b)
        /\ \A i \in 1..(Len(a) + Len(b)) :
             (a \o b)[i] = IF i <= Len(a) THEN a[i] ELSE b[i - Len(a)]
    BY <1>t, ConcatProperties, Zenon
  <2> QED BY <1>t, <2>1, Zenon
<1>5. ASSUME NEW i \in 1..(n + 2) PROVE (a \o b)[i] = w[i]
  <2>1. CASE i <= n
    BY <1>1, <1>3, <1>4, <2>1
  <2>2. CASE i > n
    <3>1. (a \o b)[i] = b[i - n] /\ i - n \in {1, 2}
      BY <1>4, <2>2
    <3>2. w[i] = l
      BY <1>3, <2>2
    <3>3. b[i - n] = l
      BY <1>2, <3>1
    <3> QED BY <3>1, <3>2, <3>3, Zenon
  <2>3. i <= n \/ i > n
    OBVIOUS
  <2> QED BY <2>1, <2>2, <2>3, Zenon
<1>6. a \o b = w
  BY <1>3, <1>4, <1>5, SeqEqual
<1> QED BY <1>4, <1>6 DEF a, b, w, Run, Body

\* sendPageFile() sends FileChunks chunks and two of length 0.
LEMMA PageForm ==
  /\ SendPageFile = [i \in 1..(FileChunks + 2) |->
                       Piece(IF i <= FileChunks THEN "chunk" ELSE "last", 0, "", FALSE)]
  /\ \E S : SendPageFile \in Seq(S)
<1> PICK c : c = Piece("chunk", 0, "", FALSE)
  OBVIOUS
<1> PICK l : l = Piece("last", 0, "", FALSE)
  OBVIOUS
<1>1. /\ Run(c, l, FileChunks) = Body(c, l, FileChunks)
      /\ Run(c, l, FileChunks) \in Seq({c, l})
  <2>1. c \in {c, l} /\ l \in {c, l}
    OBVIOUS
  <2> QED BY <2>1, RunThenTwo
<1>2. \A i : Piece(IF i <= FileChunks THEN "chunk" ELSE "last", 0, "", FALSE)
               = IF i <= FileChunks THEN c ELSE l
  <2>1. ASSUME NEW i, i <= FileChunks
        PROVE  (IF i <= FileChunks THEN "chunk" ELSE "last") = "chunk"
    BY <2>1
  <2>2. ASSUME NEW i, ~(i <= FileChunks)
        PROVE  (IF i <= FileChunks THEN "chunk" ELSE "last") = "last"
    BY <2>2
  <2> QED BY <2>1, <2>2, Zenon
<1>3. SendPageFile = Run(c, l, FileChunks)
  BY DEF SendPageFile, Run
<1>4. [i \in 1..(FileChunks + 2) |->
         Piece(IF i <= FileChunks THEN "chunk" ELSE "last", 0, "", FALSE)]
        = Body(c, l, FileChunks)
  BY <1>2 DEF Body
<1> QED BY <1>1, <1>3, <1>4

\* The header Connection, if there is one, is the third unit.
LEMMA Asked ==
  ASSUME NEW r, Shaped(r)
  PROVE  {i \in DOMAIN r : r[i].colon /\ r[i].words[1] = "Connection"}
           = IF Len(r) = 5 /\ r[3].words[1] = "Connection" THEN {3} ELSE {}
<1>1. CASE Len(r) = 3
  <2>1. DOMAIN r = {1, 2, 3}
    BY <1>1 DEF Shaped
  <2> QED BY <1>1, <2>1, CrlfUnit DEF Shaped
<1>2. CASE Len(r) = 5
  <2>1. DOMAIN r = {1, 2, 3, 4, 5}
    BY <1>2 DEF Shaped
  <2> QED BY <1>2, <2>1, CrlfUnit DEF Shaped
<1> QED BY <1>1, <1>2 DEF Shaped

\* When a request asks for the connection to be closed.
LEMMA AskedClose ==
  ASSUME NEW r, Shaped(r)
  PROVE  AsksClose(r) <=>
           IF Len(r) = 5 /\ r[3].words[1] = "Connection" THEN r[3].words[2] = "close"
           ELSE r[1].words[3] = "HTTP/1.0"
<1> DEFINE named == {i \in DOMAIN r : r[i].colon /\ r[i].words[1] = "Connection"}
           value == [i \in named |-> r[i].words[2]]
           asked == {value[i] : i \in DOMAIN value}
<1>0. AsksClose(r) <=> "close" \in asked \/ (r[1].words[3] = "HTTP/1.0" /\ asked = {})
  BY DEF AsksClose
<1>1. CASE Len(r) = 5 /\ r[3].words[1] = "Connection"
  <2>1. named = {3}
    BY <1>1, Asked
  <2>2. asked = {r[3].words[2]}
    BY <2>1
  <2> QED BY <1>0, <1>1, <2>2
<1>2. CASE ~(Len(r) = 5 /\ r[3].words[1] = "Connection")
  <2>1. named = {}
    BY <1>2, Asked
  <2>2. asked = {}
    BY <2>1
  <2> QED BY <1>0, <1>2, <2>2
<1> QED BY <1>1, <1>2

\* What the answer to a request is and what parseRequest() leaves of it.
Judged(r) ==
  /\ IsBad(r) => Wanted(r) = AppendToBuffer(400, "", TRUE) /\ Wanted(r)[1].close
  /\ ~IsBad(r) => /\ Len(r[1].words) = 3
                  /\ r[1].words[1] \in DOMAIN Methods
                  /\ Version(r[1].words) # "kUnknown"
                  /\ Answer(AfterHeaders(r)) = Wanted(r)
                  /\ CloseConnection(AfterHeaders(r)) <=> Wanted(r)[1].close
  /\ IsBad(r) => r[1].words[1] \notin DOMAIN Methods \/ Version(r[1].words) = "kUnknown"

\* A refused request is answered by a 400 that says close.
LEMMA Refused ==
  ASSUME NEW r, IsBad(r),
         r[1].words[1] \notin DOMAIN Methods \/ Version(r[1].words) = "kUnknown"
  PROVE  Judged(r)
<1>1. Wanted(r) = AppendToBuffer(400, "", TRUE)
  BY DEF Wanted, AppendToBuffer
<1>2. AppendToBuffer(400, "", TRUE)[1].close
  BY DEF AppendToBuffer, Piece
<1> QED BY <1>1, <1>2 DEF Judged

\* The answer of onRequest() to a request for a page is the wanted one, and so is
\* what becomes of the connection.
LEMMA PageAnswer ==
  ASSUME NEW r, ~IsBad(r), NEW req, r[1].words[2] \in {"/", "/a.css", "/README"},
         req.path_ = r[1].words[2], GetFileType(req.path_) = PageType[r[1].words[2]],
         Close(req) <=> AsksClose(r)
  PROVE  Answer(req) = Wanted(r) /\ (CloseConnection(req) <=> Wanted(r)[1].close)
<1> PICK p : p = r[1].words[2]
  OBVIOUS
<1>1. HasFile(req.path_) /\ DOMAIN PageType = {"/", "/a.css", "/README"}
  BY DEF HasFile, PageType
<1>2. Close(req) = AsksClose(r)
  BY DEF Close, AsksClose
<1> PICK head : head = Piece("response", 200, PageType[p], AsksClose(r))
  OBVIOUS
<1>3. Wanted(r) = <<head>> \o SendPageFile
  BY <1>1, PageForm DEF Wanted
<1>4. Answer(req) = <<head>> \o SendPageFile
  BY <1>1, <1>2 DEF Answer, AppendToBuffer
<1>5. CloseConnection(req) <=> AsksClose(r)
  BY <1>1 DEF CloseConnection
<1>6. head.close = AsksClose(r)
  BY DEF Piece
<1>7. (<<head>> \o SendPageFile)[1] = head
  <2>1. ASSUME NEW S, NEW tail \in Seq(S), NEW h PROVE (<<h>> \o tail)[1] = h
    OBVIOUS
  <2>2. PICK S : SendPageFile \in Seq(S)
    BY PageForm
  <2>3. PICK tail \in Seq(S) : tail = SendPageFile
    BY <2>2
  <2> QED BY <2>1, <2>3
<1> QED BY <1>3, <1>4, <1>5, <1>6, <1>7

\* What a parsed request holds, field by field.
LEMMA AfterFields ==
  ASSUME NEW r, Shaped(r)
  PROVE  /\ AfterHeaders(r).path_ = r[1].words[2]
         /\ AfterHeaders(r).version_ = Version(r[1].words)
         /\ AfterHeaders(r).Connection =
              IF Len(r) = 5 /\ r[3].words[1] = "Connection" THEN r[3].words[2] ELSE ""
<1>1. ASSUME NEW m, NEW v, NEW p, NEW x, NEW y,
             y = [method_ |-> m, version_ |-> v, path_ |-> p, Connection |-> ""]
      PROVE  /\ y.path_ = p /\ y.version_ = v /\ y.Connection = ""
             /\ [y EXCEPT !.Connection = x].path_ = p
             /\ [y EXCEPT !.Connection = x].version_ = v
             /\ [y EXCEPT !.Connection = x].Connection = x
  BY <1>1
<1> PICK y : y = AfterLine(r)
  OBVIOUS
<1>2. CASE Len(r) = 5 /\ r[3].words[1] = "Connection"
  <2> PICK x : x = r[3].words[2]
    OBVIOUS
  <2>1. AfterHeaders(r) = [y EXCEPT !.Connection = x]
    BY <1>2 DEF AfterHeaders, AddHeader
  <2>2. /\ [y EXCEPT !.Connection = x].path_ = r[1].words[2]
        /\ [y EXCEPT !.Connection = x].version_ = Version(r[1].words)
        /\ [y EXCEPT !.Connection = x].Connection = x
    BY <1>1, Zenon DEF AfterLine
  <2> QED BY <1>2, <2>1, <2>2, Zenon
<1>3. CASE ~(Len(r) = 5 /\ r[3].words[1] = "Connection")
  <2>1. AfterHeaders(r) = y
    BY <1>3 DEF AfterHeaders, AddHeader
  <2>2. y.path_ = r[1].words[2] /\ y.version_ = Version(r[1].words) /\ y.Connection = ""
    BY <1>1, Zenon DEF AfterLine
  <2> QED BY <1>3, <2>1, <2>2, Zenon
<1> QED BY <1>2, <1>3, Zenon

\* The same for a path of httpCallback_.
LEMMA HelloAnswer ==
  ASSUME NEW r, ~IsBad(r), NEW req, r[1].words[2] = "/hello", req.path_ = "/hello",
         Close(req) <=> AsksClose(r)
  PROVE  Answer(req) = Wanted(r) /\ (CloseConnection(req) <=> Wanted(r)[1].close)
<1>1. /\ ~HasFile(req.path_) /\ DOMAIN PageType = {"/", "/a.css", "/README"}
      /\ req.path_ \in DOMAIN HttpCallback /\ HttpCallback[req.path_] = "text/plain"
  BY DEF HasFile, PageType, HttpCallback
<1>2. CloseConnection(req) <=> AsksClose(r)
  BY <1>1 DEF CloseConnection
<1>3. CloseConnection(req) = AsksClose(r)
  BY <1>2 DEF CloseConnection, AsksClose
<1> PICK head : head = Piece("response", 200, "text/plain", AsksClose(r))
  OBVIOUS
<1>4. Wanted(r) = <<head>>
  BY <1>1 DEF Wanted
<1>5. Answer(req) = <<head>>
  BY <1>1, <1>3 DEF Answer, AppendToBuffer
<1>6. head.close = AsksClose(r) /\ <<head>>[1] = head
  BY DEF Piece
<1> QED BY <1>2, <1>4, <1>5, <1>6, Zenon

\* The same for a path nobody knows, which ends the connection.
LEMMA NoneAnswer ==
  ASSUME NEW r, ~IsBad(r), NEW req, r[1].words[2] = "/none", req.path_ = "/none"
  PROVE  Answer(req) = Wanted(r) /\ (CloseConnection(req) <=> Wanted(r)[1].close)
<1>1. /\ ~HasFile(req.path_) /\ DOMAIN PageType = {"/", "/a.css", "/README"}
      /\ req.path_ \notin DOMAIN HttpCallback
  BY DEF HasFile, PageType, HttpCallback
<1>2. CloseConnection(req) = TRUE
  BY <1>1 DEF CloseConnection
<1> PICK head : head = Piece("response", 404, "", TRUE)
  OBVIOUS
<1>4. Wanted(r) = <<head>>
  BY <1>1 DEF Wanted
<1>5. Answer(req) = <<head>>
  BY <1>1, <1>2 DEF Answer, AppendToBuffer
<1>6. head.close = TRUE /\ <<head>>[1] = head
  BY DEF Piece
<1> QED BY <1>2, <1>4, <1>5, <1>6, Zenon

\* The versions processRequestLine() tells apart.
LEMMA VersionValue ==
  ASSUME NEW w, Len(w) = 3
  PROVE  /\ w[3] = "HTTP/1.1" => Version(w) = "kHttp11"
         /\ w[3] = "HTTP/1.0" => Version(w) = "kHttp10"
         /\ w[3] = "HTTP/2.0" => Version(w) = "kUnknown"
<1>1. ASSUME w[3] = "HTTP/1.1" PROVE Version(w) = "kHttp11"
  BY <1>1 DEF Version
<1>2. ASSUME w[3] = "HTTP/1.0" PROVE Version(w) = "kHttp10"
  BY <1>2 DEF Version
<1>3. ASSUME w[3] = "HTTP/2.0" PROVE Version(w) = "kUnknown"
  BY <1>3 DEF Version
<1> QED BY <1>1, <1>2, <1>3

\* For every request the code's answer to what it parsed is the answer the
\* request asks for, and the two agree on which requests are bad.
LEMMA RequestsJudged == \A r \in Requests : Judged(r)
<1> SUFFICES ASSUME NEW r \in Requests PROVE Judged(r)
  OBVIOUS
<1> PICK q : q = AfterHeaders(r)
  OBVIOUS
<1> PICK w : w = r[1].words
  OBVIOUS
<1>0. Kinds(r) /\ Shaped(r)
  BY RequestKinds DEF Kinds, Asks
<1>1. CASE Asks(r, "GET", "/", "HTTP/1.1") /\ Says(r, "Host", "x")
  <2>1. /\ w[1] = "GET" /\ w[2] = "/" /\ w[3] = "HTTP/1.1" /\ Len(w) = 3
        /\ Len(r) = 5 /\ r[3].words[1] = "Host"
    BY <1>1 DEF Asks, Says
  <2>a. Version(w) = "kHttp11"
    BY <2>1, VersionValue
  <2>b. ~IsBad(r)
    BY <2>1 DEF IsBad
  <2>2. ~IsBad(r) /\ Version(w) = "kHttp11"
    BY <2>a, <2>b
  <2>3. q.path_ = "/" /\ q.version_ = "kHttp11" /\ q.Connection = ""
    BY <1>0, <2>1, <2>2, AfterFields
  <2>4. ~AsksClose(r) /\ ~Close(q)
    BY <1>0, <2>1, <2>3, AskedClose DEF Close
  <2>5. GetFileType(q.path_) = PageType[w[2]]
    BY <2>1, <2>3, FileTypes DEF PageType
  <2>6. Answer(q) = Wanted(r) /\ (CloseConnection(q) <=> Wanted(r)[1].close)
    <3>1. /\ r[1].words[2] \in {"/", "/a.css", "/README"} /\ q.path_ = r[1].words[2]
          /\ GetFileType(q.path_) = PageType[r[1].words[2]]
          /\ Close(q) <=> AsksClose(r)
      BY <2>1, <2>3, <2>4, <2>5
    <3> QED BY <2>2, <3>1, PageAnswer
  <2> QED BY <2>1, <2>2, <2>6, MethodValues DEF Judged
<1>2. CASE Asks(r, "GET", "/a.css", "HTTP/1.1") /\ Says(r, "Connection", "Keep-Alive")
  <2>1. /\ w[1] = "GET" /\ w[2] = "/a.css" /\ w[3] = "HTTP/1.1" /\ Len(w) = 3
        /\ Len(r) = 5 /\ r[3].words[1] = "Connection" /\ r[3].words[2] = "Keep-Alive"
    BY <1>2 DEF Asks, Says
  <2>a. Version(w) = "kHttp11"
    BY <2>1, VersionValue
  <2>b. ~IsBad(r)
    BY <2>1 DEF IsBad
  <2>2. ~IsBad(r) /\ Version(w) = "kHttp11"
    BY <2>a, <2>b
  <2>3. q.path_ = "/a.css" /\ q.version_ = "kHttp11" /\ q.Connection = "Keep-Alive"
    BY <1>0, <2>1, <2>2, AfterFields
  <2>4. ~AsksClose(r) /\ ~Close(q)
    BY <1>0, <2>1, <2>3, AskedClose DEF Close
  <2>5. GetFileType(q.path_) = PageType[w[2]]
    BY <2>1, <2>3, FileTypes DEF PageType
  <2>6. Answer(q) = Wanted(r) /\ (CloseConnection(q) <=> Wanted(r)[1].close)
    <3>1. /\ r[1].words[2] \in {"/", "/a.css", "/README"} /\ q.path_ = r[1].words[2]
          /\ GetFileType(q.path_) = PageType[r[1].words[2]]
          /\ Close(q) <=> AsksClose(r)
      BY <2>1, <2>3, <2>4, <2>5
    <3> QED BY <2>2, <3>1, PageAnswer
  <2> QED BY <2>1, <2>2, <2>6, MethodValues DEF Judged
<1>3. CASE Asks(r, "GET", "/hello", "HTTP/1.1") /\ Says(r, "Connection", "close")
  <2>1. /\ w[1] = "GET" /\ w[2] = "/hello" /\ w[3] = "HTTP/1.1" /\ Len(w) = 3
        /\ Len(r) = 5 /\ r[3].words[1] = "Connection" /\ r[3].words[2] = "close"
    BY <1>3 DEF Asks, Says
  <2>a. Version(w) = "kHttp11"
    BY <2>1, VersionValue
  <2>b. ~IsBad(r)
    BY <2>1 DEF IsBad
  <2>2. ~IsBad(r) /\ Version(w) = "kHttp11"
    BY <2>a, <2>b
  <2>3. q.path_ = "/hello" /\ q.version_ = "kHttp11" /\ q.Connection = "close"
    BY <1>0, <2>1, <2>2, AfterFields
  <2>4. AsksClose(r) /\ Close(q)
    BY <1>0, <2>1, <2>3, AskedClose DEF Close
  <2>6. Answer(q) = Wanted(r) /\ (CloseConnection(q) <=> Wanted(r)[1].close)
    <3>1. /\ r[1].words[2] = "/hello" /\ q.path_ = "/hello"
          /\ Close(q) <=> AsksClose(r)
      BY <2>1, <2>3, <2>4
    <3> QED BY <2>2, <3>1, HelloAnswer
  <2> QED BY <2>1, <2>2, <2>6, MethodValues DEF Judged
<1>4. CASE Asks(r, "HEAD", "/README", "HTTP/1.0") /\ Len(r) = 3
  <2>1. /\ w[1] = "HEAD" /\ w[2] = "/README" /\ w[3] = "HTTP/1.0" /\ Len(w) = 3
        /\ Len(r) = 3
    BY <1>4 DEF Asks, Says
  <2>a. Version(w) = "kHttp10"
    BY <2>1, VersionValue
  <2>b. ~IsBad(r)
    BY <2>1 DEF IsBad
  <2>2. ~IsBad(r) /\ Version(w) = "kHttp10"
    BY <2>a, <2>b
  <2>c. ~(Len(r) = 5 /\ r[3].words[1] = "Connection")
    BY <2>1
  <2>3. q.path_ = "/README" /\ q.version_ = "kHttp10" /\ q.Connection = ""
    BY <1>0, <2>1, <2>2, <2>c, AfterFields, Zenon
  <2>d. AsksClose(r)
    BY <1>0, <2>1, <2>c, AskedClose, Zenon
  <2>4. AsksClose(r) /\ Close(q)
    BY <2>3, <2>d DEF Close
  <2>5. GetFileType(q.path_) = PageType[w[2]]
    BY <2>1, <2>3, FileTypes DEF PageType
  <2>6. Answer(q) = Wanted(r) /\ (CloseConnection(q) <=> Wanted(r)[1].close)
    <3>1. /\ r[1].words[2] \in {"/", "/a.css", "/README"} /\ q.path_ = r[1].words[2]
          /\ GetFileType(q.path_) = PageType[r[1].words[2]]
          /\ Close(q) <=> AsksClose(r)
      BY <2>1, <2>3, <2>4, <2>5
    <3> QED BY <2>2, <3>1, PageAnswer
  <2> QED BY <2>1, <2>2, <2>6, MethodValues DEF Judged
<1>5. CASE Asks(r, "PUT", "/hello", "HTTP/1.0") /\ Says(r, "Connection", "Keep-Alive")
  <2>1. /\ w[1] = "PUT" /\ w[2] = "/hello" /\ w[3] = "HTTP/1.0" /\ Len(w) = 3
        /\ Len(r) = 5 /\ r[3].words[1] = "Connection" /\ r[3].words[2] = "Keep-Alive"
    BY <1>5 DEF Asks, Says
  <2>a. Version(w) = "kHttp10"
    BY <2>1, VersionValue
  <2>b. ~IsBad(r)
    BY <2>1 DEF IsBad
  <2>2. ~IsBad(r) /\ Version(w) = "kHttp10"
    BY <2>a, <2>b
  <2>3. q.path_ = "/hello" /\ q.version_ = "kHttp10" /\ q.Connection = "Keep-Alive"
    BY <1>0, <2>1, <2>2, AfterFields
  <2>4. ~AsksClose(r) /\ ~Close(q)
    BY <1>0, <2>1, <2>3, AskedClose DEF Close
  <2>6. Answer(q) = Wanted(r) /\ (CloseConnection(q) <=> Wanted(r)[1].close)
    <3>1. /\ r[1].words[2] = "/hello" /\ q.path_ = "/hello"
          /\ Close(q) <=> AsksClose(r)
      BY <2>1, <2>3, <2>4
    <3> QED BY <2>2, <3>1, HelloAnswer
  <2> QED BY <2>1, <2>2, <2>6, MethodValues DEF Judged
<1>6. CASE Asks(r, "DELETE", "/none", "HTTP/1.1") /\ Len(r) = 3
  <2>1. /\ w[1] = "DELETE" /\ w[2] = "/none" /\ w[3] = "HTTP/1.1" /\ Len(w) = 3
        /\ Len(r) = 3
    BY <1>6 DEF Asks, Says
  <2>a. Version(w) = "kHttp11"
    BY <2>1, VersionValue
  <2>b. ~IsBad(r)
    BY <2>1 DEF IsBad
  <2>2. ~IsBad(r) /\ Version(w) = "kHttp11"
    BY <2>a, <2>b
  <2>c. ~(Len(r) = 5 /\ r[3].words[1] = "Connection")
    BY <2>1
  <2>3. q.path_ = "/none" /\ q.version_ = "kHttp11" /\ q.Connection = ""
    BY <1>0, <2>1, <2>2, <2>c, AfterFields, Zenon
  <2>6. Answer(q) = Wanted(r) /\ (CloseConnection(q) <=> Wanted(r)[1].close)
    BY <2>1, <2>2, <2>3, NoneAnswer
  <2> QED BY <2>1, <2>2, <2>6, MethodValues DEF Judged
<1>7. CASE Asks(r, "TRACE", "/", "HTTP/1.1") /\ Len(r) = 3
  <2>1. w[1] = "TRACE"
    BY <1>7 DEF Asks
  <2> QED BY <2>1, MethodValues, Refused DEF IsBad
<1>8. CASE Asks(r, "POST", "/", "HTTP/2.0") /\ Len(r) = 3
  <2>1. w[3] = "HTTP/2.0" /\ Len(w) = 3
    BY <1>8 DEF Asks
  <2>2. Version(w) = "kUnknown"
    BY <2>1, VersionValue
  <2>3. IsBad(r)
    BY <2>1 DEF IsBad
  <2> QED BY <2>2, <2>3, Refused
<1>9. CASE Len(w) = 2 /\ w[2] = "/"
  <2>1. Version(w) = "kUnknown"
    BY <1>9 DEF Version
  <2>2. IsBad(r)
    BY <1>9 DEF IsBad
  <2> QED BY <2>1, <2>2, Refused
<1> QED BY <1>0, <1>1, <1>2, <1>3, <1>4, <1>5, <1>6, <1>7, <1>8, <1>9 DEF Kinds

------------------------------------------------------------------------------
(* The stream of requests.                                                  *)

\* What the server has not consumed of what the client has begun to send.
Pending == inputBuffer_ \o rcv \o toSend

\* st[j] is where request j begins in pend, which ends with the last request; it
\* is not positive for a request of which something has been consumed.
Laid(reqs, pend, st) ==
  /\ st \in [1..(Len(reqs) + 1) -> Int]
  /\ st[Len(reqs) + 1] = Len(pend) + 1
  /\ \A j \in 1..(Len(reqs) + 1) : st[j] <= Len(pend) + 1
  /\ \A j \in 1..Len(reqs) : st[j + 1] = st[j] + Len(reqs[j])
  /\ \A j \in 1..Len(reqs) : \A i \in 1..Len(reqs[j]) :
       st[j] + i - 1 >= 1 => pend[st[j] + i - 1] = reqs[j][i]

\* A request that is begun is laid after the others.
LEMMA LaidMore ==
  ASSUME NEW reqs \in Seq(Requests), NEW pend \in Seq(Unit), NEW st,
         Laid(reqs, pend, st), NEW r \in Requests
  PROVE  \E s : /\ Laid(Append(reqs, r), pend \o r, s)
                /\ \A j \in 1..(Len(reqs) + 1) : s[j] = st[j]
<1>n. PICK n \in Nat : n = Len(reqs)
  OBVIOUS
<1>l. PICK l \in Nat : l = Len(pend)
  OBVIOUS
<1>k. PICK k \in Nat : k = Len(r)
  BY RequestShape DEF Shaped
<1>m. PICK new : new = Append(reqs, r)
  OBVIOUS
<1>p. PICK p : p = pend \o r
  OBVIOUS
<1>1. /\ new \in Seq(Requests) /\ Len(new) = n + 1 /\ new[n + 1] = r
      /\ \A j \in 1..n : new[j] = reqs[j]
  BY <1>n, <1>m
<1>2. r \in Seq(Unit)
  BY RequestShape DEF Shaped
<1>3. /\ p \in Seq(Unit) /\ Len(p) = l + k
      /\ \A i \in 1..l : p[i] = pend[i]
      /\ \A i \in 1..k : p[l + i] = r[i]
  BY <1>2, <1>l, <1>k, <1>p
<1> DEFINE s == [j \in 1..(n + 2) |-> IF j <= n + 1 THEN st[j] ELSE l + k + 1]
<1>4. /\ \A j \in 1..(n + 1) : s[j] = st[j]
      /\ s[n + 2] = l + k + 1
  OBVIOUS
<1>5. /\ st[n + 1] = l + 1
      /\ \A j \in 1..(n + 1) : st[j] \in Int /\ st[j] <= l + 1
      /\ \A j \in 1..n : st[j + 1] = st[j] + Len(reqs[j])
  BY <1>n, <1>l DEF Laid
<1>6. s \in [1..(n + 2) -> Int]
  BY <1>5
<1> HIDE DEF s
<1>7. ASSUME NEW j \in 1..(n + 2) PROVE s[j] <= l + k + 1
  <2>1. CASE j = n + 2
    BY <1>4, <2>1
  <2>2. CASE j \in 1..(n + 1)
    <3>1. s[j] = st[j] /\ st[j] \in Int /\ st[j] <= l + 1
      BY <1>4, <1>5, <2>2
    <3> QED BY <3>1
  <2> QED BY <2>1, <2>2
<1>8. ASSUME NEW j \in 1..(n + 1) PROVE s[j + 1] = s[j] + Len(new[j])
  <2>1. CASE j = n + 1
    <3>1. s[j] = l + 1
      BY <1>4, <1>5, <2>1
    <3>2. s[j + 1] = l + k + 1
      BY <1>4, <2>1
    <3>3. Len(new[j]) = k
      BY <1>1, <1>k, <2>1
    <3> QED BY <3>1, <3>2, <3>3
  <2>2. CASE j \in 1..n
    BY <1>1, <1>4, <1>5, <2>2
  <2> QED BY <2>1, <2>2
<1>9. ASSUME NEW j \in 1..(n + 1), NEW i \in 1..Len(new[j]), s[j] + i - 1 >= 1
      PROVE  p[s[j] + i - 1] = new[j][i]
  <2>1. CASE j = n + 1
    <3>1. s[j] = l + 1
      BY <1>4, <1>5, <2>1
    <3>2. new[j] = r
      BY <1>1, <2>1
    <3>3. i \in 1..k
      BY <1>k, <3>2
    <3>4. s[j] + i - 1 = l + i
      BY <3>1, <3>3
    <3>5. p[l + i] = r[i]
      BY <1>3, <3>3
    <3> QED BY <3>2, <3>4, <3>5, Zenon
  <2>2. CASE j \in 1..n
    <3>1. new[j] = reqs[j] /\ s[j] = st[j] /\ s[j] \in Int
      BY <1>1, <1>4, <1>5, <2>2
    <3>2. Len(reqs[j]) \in Nat
      <4>1. reqs[j] \in Requests
        BY <1>n, <2>2
      <4> QED BY <4>1, RequestShape DEF Shaped
    <3>3. s[j + 1] = s[j] + Len(reqs[j]) /\ s[j + 1] <= l + 1
      BY <1>4, <1>5, <2>2
    <3>4. s[j] + i - 1 \in 1..l
      BY <1>9, <3>1, <3>2, <3>3
    <3>5. pend[st[j] + i - 1] = reqs[j][i]
      BY <1>n, <1>9, <2>2, <3>1 DEF Laid
    <3>6. p[s[j] + i - 1] = pend[s[j] + i - 1]
      BY <1>3, <3>4
    <3> QED BY <3>1, <3>5, <3>6, Zenon
  <2> QED BY <2>1, <2>2
<1> QED
  <2>1. s[Len(new) + 1] = Len(p) + 1
    BY <1>1, <1>3, <1>4
  <2>2. 1..(Len(new) + 1) = 1..(n + 2) /\ 1..Len(new) = 1..(n + 1) /\ Len(p) + 1 = l + k + 1
    BY <1>1, <1>3
  <2>3. Laid(new, p, s)
    BY <1>6, <1>7, <1>8, <1>9, <2>1, <2>2, Zenon DEF Laid
  <2> QED BY <1>4, <1>m, <1>p, <1>n, <2>3, Zenon

\* A unit of a request that has not been consumed is in what is left.
LEMMA WithinRest ==
  ASSUME NEW k \in Nat, NEW l \in Nat, NEW u \in Int, NEW v \in Nat, NEW w \in 1..v,
         u + w - 1 >= 1, u + v + k <= l + 1
  PROVE  u + w - 1 \in 1..(l - k)
OBVIOUS

\* When the front of the stream is consumed, every request begins earlier.
LEMMA LaidLess ==
  ASSUME NEW reqs \in Seq(Requests), NEW x \in Seq(Unit), NEW p \in Seq(Unit), NEW st,
         Laid(reqs, x \o p, st)
  PROVE  \E s : /\ Laid(reqs, p, s)
                /\ \A j \in 1..(Len(reqs) + 1) : s[j] = st[j] - Len(x)
<1>n. PICK n \in Nat : n = Len(reqs)
  OBVIOUS
<1>k. PICK k \in Nat : k = Len(x)
  OBVIOUS
<1>0. x \o p \in Seq(Unit)
  BY ConcatProperties
<1>p. PICK pend \in Seq(Unit) : pend = x \o p
  BY <1>0
<1>l. PICK l \in Nat : l = Len(pend)
  OBVIOUS
<1>1. k <= l /\ Len(p) = l - k /\ \A i \in 1..(l - k) : p[i] = pend[k + i]
  <2>1. l = k + Len(p)
    BY <1>k, <1>l, <1>p
  <2>2. \A i \in 1..Len(p) : p[i] = pend[k + i]
    BY <1>k, <1>p
  <2>3. l - k = Len(p) /\ k <= l
    BY <2>1
  <2> QED BY <2>2, <2>3, Zenon
<1>2. /\ st[n + 1] = l + 1
      /\ \A j \in 1..(n + 1) : st[j] \in Int /\ st[j] <= l + 1
      /\ \A j \in 1..n : st[j + 1] = st[j] + Len(reqs[j])
  BY <1>n, <1>l, <1>p DEF Laid
<1> DEFINE s == [j \in 1..(n + 1) |-> st[j] - k]
<1>3. s \in [1..(n + 1) -> Int] /\ \A j \in 1..(n + 1) : s[j] = st[j] - k
  BY <1>2
<1> HIDE DEF s
<1>4. ASSUME NEW j \in 1..(n + 1) PROVE s[j] \in Int /\ s[j] <= Len(p) + 1
  <2>1. s[j] = st[j] - k /\ st[j] \in Int /\ st[j] <= l + 1
    BY <1>2, <1>3
  <2>2. Len(p) = l - k
    BY <1>1
  <2> QED BY <2>1, <2>2
<1>5. s[n + 1] = Len(p) + 1
  <2>0. n + 1 \in 1..(n + 1)
    OBVIOUS
  <2>1. s[n + 1] = st[n + 1] - k /\ st[n + 1] = l + 1 /\ Len(p) = l - k
    BY <1>1, <1>2, <1>3, <2>0, Zenon
  <2> QED BY <2>1
<1>6. ASSUME NEW j \in 1..n
      PROVE  /\ s[j + 1] = s[j] + Len(reqs[j])
             /\ \A i \in 1..Len(reqs[j]) :
                  s[j] + i - 1 >= 1 => p[s[j] + i - 1] = reqs[j][i]
  <2>1. Len(reqs[j]) \in Nat
    <3>1. reqs[j] \in Requests
      BY <1>n
    <3> QED BY <3>1, RequestShape DEF Shaped
  <2>2. /\ s[j] = st[j] - k /\ s[j + 1] = st[j + 1] - k /\ st[j] \in Int
        /\ st[j + 1] \in Int
        /\ st[j + 1] = st[j] + Len(reqs[j]) /\ st[j + 1] <= l + 1
    <3>1. j \in 1..(n + 1) /\ j + 1 \in 1..(n + 1)
      OBVIOUS
    <3>2. s[j] = st[j] - k /\ s[j + 1] = st[j + 1] - k
      BY <1>3, <3>1
    <3>3. st[j] \in Int /\ st[j + 1] \in Int /\ st[j + 1] <= l + 1
      BY <1>2, <3>1
    <3>4. st[j + 1] = st[j] + Len(reqs[j])
      BY <1>2
    <3> QED BY <3>2, <3>3, <3>4, Zenon
  <2>3. s[j + 1] = s[j] + Len(reqs[j]) /\ s[j] \in Int
    <3> PICK q \in Nat : q = Len(reqs[j])
      BY <2>1
    <3>1. st[j + 1] = st[j] + q
      BY <2>2
    <3>a. j \in 1..(n + 1) /\ j + 1 \in 1..(n + 1)
      OBVIOUS
    <3>3. s[j] \in Int /\ s[j + 1] \in Int
      BY <1>4, <3>a, Zenon
    <3>4. s[j + 1] = s[j] + q
      <4>1. PICK a \in Int : a = st[j + 1]
        BY <2>2
      <4>2. PICK b \in Int : b = st[j]
        BY <2>2
      <4>3. s[j + 1] = a - k /\ s[j] = b - k /\ a = b + q
        BY <2>2, <3>1, <4>1, <4>2, Zenon
      <4>4. a - k = (b - k) + q
        <5>1. ASSUME NEW e \in Int, NEW f \in Int, NEW g \in Nat, e = f + g
              PROVE  e - k = (f - k) + g
          BY <5>1
        <5> QED BY <4>3, <5>1
      <4> QED BY <4>3, <4>4, Zenon
    <3> QED BY <3>3, <3>4
  <2>4. ASSUME NEW i \in 1..Len(reqs[j]), s[j] + i - 1 >= 1
        PROVE  p[s[j] + i - 1] = reqs[j][i]
    <3>1. s[j] + i - 1 \in 1..(l - k)
      <4> PICK q \in Nat : q = Len(reqs[j])
        BY <2>1
      <4> PICK b \in Int : b = s[j]
        BY <2>3
      <4>1. i \in 1..q /\ b + i - 1 >= 1 /\ b + q + k <= l + 1
        <5>1. s[j + 1] + k = st[j + 1]
          BY <2>2
        <5> QED BY <2>2, <2>3, <2>4, <5>1
      <4>2. b + i - 1 \in 1..(l - k)
        BY <4>1, WithinRest
      <4> QED BY <4>2
    <3>i. i \in Int
      BY <2>1
    <3>2. k + (s[j] + i - 1) = st[j] + i - 1 /\ st[j] + i - 1 >= 1
      <4>1. \A a, b, c \in Int : b = a - k => k + (b + c - 1) = a + c - 1
        OBVIOUS
      <4>2. \A a, b, c \in Int : b = a - k /\ b + c - 1 >= 1 => a + c - 1 >= 1
        OBVIOUS
      <4> QED BY <2>2, <2>3, <2>4, <3>i, <4>1, <4>2
    <3>3. pend[st[j] + i - 1] = reqs[j][i]
      BY <1>n, <1>p, <3>2 DEF Laid
    <3>4. p[s[j] + i - 1] = pend[k + (s[j] + i - 1)]
      BY <1>1, <3>1
    <3> QED BY <3>2, <3>3, <3>4, Zenon
  <2> QED BY <2>3, <2>4
<1> QED
  <2>1. Laid(reqs, p, s)
    BY <1>3, <1>4, <1>5, <1>6, <1>n, Zenon DEF Laid
  <2> QED BY <1>3, <1>k, <1>n, <2>1, Zenon

------------------------------------------------------------------------------
(* The first line of the buffer.                                            *)

\* A set of numbers has a least one.
LEMMA LeastIndex ==
  ASSUME NEW T, T \subseteq Nat, T # {}
  PROVE  \E m \in T : \A x \in T : m <= x
<1>1. PICK m \in T : \A y \in T : <<y, m>> \notin OpToRel(<, Nat)
  BY NatLessThanWellFounded, WFMin
<1>2. ASSUME NEW x \in T PROVE m <= x
  <2>1. ~(x < m)
    <3>1. SUFFICES ASSUME x < m PROVE <<x, m>> \in OpToRel(<, Nat)
      BY <1>1
    <3>2. <<x, m>> \in {ss \in Nat \X Nat : ss[1] < ss[2]}
      BY <3>1
    <3> QED BY <3>2, Zenon DEF OpToRel
  <2> QED BY <2>1
<1> QED BY <1>2

\* findCRLF() finds the first CRLF.
LEMMA FindCRLFFirst ==
  ASSUME NEW buf \in Seq(Unit), FindCRLF(buf) # 0
  PROVE  /\ FindCRLF(buf) \in 1..Len(buf)
         /\ buf[FindCRLF(buf)].crlf
         /\ \A j \in 1..Len(buf) : buf[j].crlf => FindCRLF(buf) <= j
<1> DEFINE ends == {i \in DOMAIN buf : buf[i].crlf}
           Least(i) == i \in ends /\ \A j \in ends : i <= j
<1>1. ends # {} /\ FindCRLF(buf) = CHOOSE i \in ends : \A j \in ends : i <= j
  BY DEF FindCRLF
<1>2. ends \subseteq Nat /\ DOMAIN buf = 1..Len(buf)
  OBVIOUS
<1>3. \E i \in ends : \A j \in ends : i <= j
  BY <1>1, <1>2, LeastIndex
<1>4. Least(FindCRLF(buf))
  BY <1>1, <1>3
<1> QED BY <1>2, <1>4

\* What stands at the front of the buffer: a line and the CRLF that ends it, if
\* that has come, or a CRLF.
LEMMA FindCRLFLine ==
  ASSUME NEW buf \in Seq(Unit), FindCRLF(buf) # 0, NEW l, ~l.crlf, buf[1] = l,
         Len(buf) >= 2 => buf[2] = CRLF
  PROVE  FindCRLF(buf) = 2 /\ Len(buf) >= 2
<1>1. /\ FindCRLF(buf) \in 1..Len(buf) /\ buf[FindCRLF(buf)].crlf
      /\ \A j \in 1..Len(buf) : buf[j].crlf => FindCRLF(buf) <= j
  BY FindCRLFFirst
<1>2. FindCRLF(buf) # 1
  BY <1>1
<1>3. Len(buf) >= 2 /\ FindCRLF(buf) >= 2
  BY <1>1, <1>2
<1>4. 2 \in 1..Len(buf) /\ buf[2].crlf
  BY <1>3, CrlfUnit
<1> QED BY <1>1, <1>3, <1>4

\* An empty line is its CRLF.
LEMMA FindCRLFEmpty ==
  ASSUME NEW buf \in Seq(Unit), FindCRLF(buf) # 0, buf[1] = CRLF
  PROVE  FindCRLF(buf) = 1 /\ Len(buf) >= 1
<1>1. /\ FindCRLF(buf) \in 1..Len(buf)
      /\ \A j \in 1..Len(buf) : buf[j].crlf => FindCRLF(buf) <= j
  BY FindCRLFFirst
<1>2. 1 \in 1..Len(buf) /\ buf[1].crlf
  BY <1>1, CrlfUnit
<1> QED BY <1>1, <1>2

------------------------------------------------------------------------------
(* How the stream moves.                                                    *)

\* A sequence of units is its first k and the others.
LEMMA Parted ==
  ASSUME NEW b \in Seq(Unit), NEW k \in 0..Len(b)
  PROVE  /\ SubSeq(b, 1, k) \in Seq(Unit) /\ Len(SubSeq(b, 1, k)) = k
         /\ SubSeq(b, k + 1, Len(b)) \in Seq(Unit)
         /\ SubSeq(b, 1, k) \o SubSeq(b, k + 1, Len(b)) = b
<1>1. /\ SubSeq(b, 1, k) \in Seq(Unit) /\ Len(SubSeq(b, 1, k)) = k
      /\ SubSeq(b, k + 1, Len(b)) \in Seq(Unit)
  OBVIOUS
<1>2. 1 \in 1..Len(b) + 1 /\ k \in 1 - 1..Len(b) /\ Len(b) \in k..Len(b)
  OBVIOUS
<1>3. SubSeq(b, 1, k) \o SubSeq(b, k + 1, Len(b)) = SubSeq(b, 1, Len(b))
  BY <1>2, ConcatAdjacentSubSeq, Zenon
<1>4. SubSeq(b, 1, Len(b)) = b
  BY SubSeqFull, Zenon
<1> QED BY <1>1, <1>3, <1>4

Regroups(a, b, c) == (a \o b) \o c = a \o (b \o c)

\* Concatenation is associative, on units.
LEMMA Regrouped ==
  ASSUME NEW a \in Seq(Unit), NEW b \in Seq(Unit), NEW c \in Seq(Unit)
  PROVE  Regroups(a, b, c) /\ a \o b \in Seq(Unit)
<1>1. a \o b \in Seq(Unit)
  OBVIOUS
<1> QED BY <1>1, ConcatAssociative DEF Regroups

\* A read, a send and a retrieval of k units, as they change a \o b \o c.
Reads(a, b, c, k) ==
  /\ a \o SubSeq(b, 1, k) \in Seq(Unit) /\ SubSeq(b, k + 1, Len(b)) \in Seq(Unit)
  /\ (a \o SubSeq(b, 1, k)) \o SubSeq(b, k + 1, Len(b)) \o c = a \o b \o c

Sends(a, b, c) ==
  /\ Append(b, c[1]) \in Seq(Unit) /\ Tail(c) \in Seq(Unit)
  /\ (a \o Append(b, c[1])) \o Tail(c) = (a \o b) \o c

Retrieves(a, b, c, k) ==
  /\ SubSeq(a, k + 1, Len(a)) \in Seq(Unit)
  /\ \E x \in Seq(Unit) :
       Len(x) = k /\ x \o (SubSeq(a, k + 1, Len(a)) \o b \o c) = a \o b \o c

\* A read of k units does not change the stream.
LEMMA ReadMoves ==
  ASSUME NEW a \in Seq(Unit), NEW b \in Seq(Unit), NEW c \in Seq(Unit), NEW k \in 1..Len(b)
  PROVE  Reads(a, b, c, k)
<1>0. k \in 0..Len(b)
  OBVIOUS
<1>x. PICK x : x = SubSeq(b, 1, k)
  OBVIOUS
<1>y. PICK y : y = SubSeq(b, k + 1, Len(b))
  OBVIOUS
<1>1. x \in Seq(Unit) /\ y \in Seq(Unit) /\ x \o y = b
  BY <1>0, <1>x, <1>y, Parted
<1>2. Regroups(a, x, y) /\ a \o x \in Seq(Unit)
  BY <1>1, Regrouped
<1> QED BY <1>1, <1>2, <1>x, <1>y, Zenon DEF Regroups, Reads

\* A unit that arrives does not change the stream.
LEMMA SendMoves ==
  ASSUME NEW a \in Seq(Unit), NEW b \in Seq(Unit), NEW c \in Seq(Unit), c # <<>>
  PROVE  Sends(a, b, c)
<1>1. c[1] \in Unit /\ Tail(c) \in Seq(Unit) /\ Len(c) \in Nat /\ 1 <= Len(c)
  OBVIOUS
<1>2. Append(b, c[1]) = b \o <<c[1]>> /\ <<c[1]>> \in Seq(Unit)
  BY <1>1, AppendIsConcat
<1>3. <<c[1]>> \o Tail(c) = c
  <2>1. 1 \in 1..Len(c) /\ Len(c) \in 1..Len(c)
    BY <1>1
  <2>2. SubSeq(c, 1, Len(c)) = <<c[1]>> \o SubSeq(c, 1 + 1, Len(c))
    BY <2>1, SubSeqRecursiveFirst, Zenon
  <2>3. SubSeq(c, 1, Len(c)) = c /\ SubSeq(c, 1 + 1, Len(c)) = Tail(c)
    <3>1. SubSeq(c, 1, Len(c)) = c
      BY SubSeqFull, Zenon
    <3>2. SubSeq(c, 2, Len(c)) = Tail(c)
      BY TailIsSubSeq, Zenon
    <3> QED BY <3>1, <3>2
  <2> QED BY <2>2, <2>3, Zenon
<1>x. PICK x : x = <<c[1]>>
  OBVIOUS
<1>y. PICK y : y = Tail(c)
  OBVIOUS
<1>4. x \in Seq(Unit) /\ y \in Seq(Unit)
  BY <1>1, <1>2, <1>x, <1>y
<1>5. b \o x \in Seq(Unit) /\ a \o b \in Seq(Unit) /\ Regroups(a, b, x)
  BY <1>4, Regrouped
<1>6. Regroups(a \o b, x, y)
  BY <1>4, <1>5, Regrouped
<1> QED BY <1>1, <1>2, <1>3, <1>5, <1>6, <1>x, <1>y, Zenon DEF Regroups, Sends

\* retrieveUntil() takes k units off the front of the stream.
LEMMA RetrieveMoves ==
  ASSUME NEW a \in Seq(Unit), NEW b \in Seq(Unit), NEW c \in Seq(Unit), NEW k \in 0..Len(a)
  PROVE  Retrieves(a, b, c, k)
<1>x. PICK x : x = SubSeq(a, 1, k)
  OBVIOUS
<1>y. PICK y : y = SubSeq(a, k + 1, Len(a))
  OBVIOUS
<1>1. x \in Seq(Unit) /\ Len(x) = k /\ y \in Seq(Unit) /\ x \o y = a
  BY <1>x, <1>y, Parted
<1>2. Regroups(x, y, b) /\ y \o b \in Seq(Unit)
  BY <1>1, Regrouped
<1>3. Regroups(x, y \o b, c)
  BY <1>1, <1>2, Regrouped
<1>4. x \o (y \o b \o c) = a \o b \o c
  BY <1>1, <1>2, <1>3, Zenon DEF Regroups
<1> QED BY <1>1, <1>4, <1>y, Zenon DEF Retrieves

------------------------------------------------------------------------------
(* Where the server is in the stream.                                       *)

\* d requests have been consumed, and c units of the next.
At(reqs, pend, d, c) ==
  /\ d \in 0..Len(reqs) /\ c \in {0, 2, 4}
  /\ \E st : Laid(reqs, pend, st) /\ st[d + 1] = 1 - c

\* A request that is begun does not move the server.
LEMMA AtMore ==
  ASSUME NEW reqs \in Seq(Requests), NEW pend \in Seq(Unit), NEW d, NEW c,
         At(reqs, pend, d, c), NEW r \in Requests
  PROVE  At(Append(reqs, r), pend \o r, d, c)
<1>1. PICK st : Laid(reqs, pend, st) /\ st[d + 1] = 1 - c
  BY DEF At
<1>2. PICK s : /\ Laid(Append(reqs, r), pend \o r, s)
               /\ \A j \in 1..(Len(reqs) + 1) : s[j] = st[j]
  BY <1>1, LaidMore
<1>3. d \in 0..Len(reqs) /\ d + 1 \in 1..(Len(reqs) + 1) /\ c \in {0, 2, 4}
  BY DEF At
<1>4. s[d + 1] = 1 - c
  BY <1>1, <1>2, <1>3
<1>5. d \in 0..Len(Append(reqs, r))
  BY <1>3
<1> QED BY <1>2, <1>3, <1>4, <1>5 DEF At

\* A line of a request is consumed.
LEMMA AtLess ==
  ASSUME NEW reqs \in Seq(Requests), NEW x \in Seq(Unit), NEW p \in Seq(Unit), NEW d, NEW c,
         At(reqs, x \o p, d, c), c + Len(x) \in {0, 2, 4}
  PROVE  At(reqs, p, d, c + Len(x))
<1>1. PICK st : Laid(reqs, x \o p, st) /\ st[d + 1] = 1 - c
  BY DEF At
<1>2. PICK s : /\ Laid(reqs, p, s)
               /\ \A j \in 1..(Len(reqs) + 1) : s[j] = st[j] - Len(x)
  BY <1>1, LaidLess
<1>3. d \in 0..Len(reqs) /\ d + 1 \in 1..(Len(reqs) + 1) /\ c \in {0, 2, 4}
  BY DEF At
<1>4. s[d + 1] = 1 - (c + Len(x))
  <2>1. s[d + 1] = st[d + 1] - Len(x)
    BY <1>2, <1>3
  <2>2. PICK k \in Nat : k = Len(x)
    OBVIOUS
  <2>3. c \in Nat /\ (1 - c) - k = 1 - (c + k)
    BY <1>3
  <2> QED BY <1>1, <2>1, <2>2, <2>3
<1> QED BY <1>2, <1>3, <1>4 DEF At

\* The last line of a request is consumed.
LEMMA AtNext ==
  ASSUME NEW reqs \in Seq(Requests), NEW x \in Seq(Unit), NEW p \in Seq(Unit), NEW d, NEW c,
         At(reqs, x \o p, d, c), d < Len(reqs), c + Len(x) = Len(reqs[d + 1])
  PROVE  At(reqs, p, d + 1, 0)
<1>1. PICK st : Laid(reqs, x \o p, st) /\ st[d + 1] = 1 - c
  BY DEF At
<1>2. PICK s : /\ Laid(reqs, p, s)
               /\ \A j \in 1..(Len(reqs) + 1) : s[j] = st[j] - Len(x)
  BY <1>1, LaidLess
<1>3. /\ d \in 0..Len(reqs) /\ d + 1 \in 1..Len(reqs) /\ (d + 1) + 1 \in 1..(Len(reqs) + 1)
      /\ c \in {0, 2, 4}
  BY DEF At
<1>4. s[(d + 1) + 1] = 1 - 0
  <2>1. s[(d + 1) + 1] = st[(d + 1) + 1] - Len(x)
    BY <1>2, <1>3
  <2>2. st[(d + 1) + 1] = st[d + 1] + Len(reqs[d + 1])
    BY <1>1, <1>3 DEF Laid
  <2>3. PICK k \in Nat : k = Len(x)
    OBVIOUS
  <2>4. c \in Nat /\ ((1 - c) + (c + k)) - k = 1 - 0
    BY <1>3
  <2>5. s[(d + 1) + 1] = ((1 - c) + (c + k)) - k
    BY <1>1, <2>1, <2>2, <2>3
  <2> QED BY <2>4, <2>5
<1>5. d + 1 \in 0..Len(reqs)
  BY <1>3
<1> QED BY <1>2, <1>4, <1>5 DEF At

\* The buffer holds units of the request that is being parsed.
Fronts(buf, r, c) ==
  \A i \in 1..Len(buf) : i + c <= Len(r) => buf[i] = r[c + i]

\* The buffer begins with what is left of request d + 1: however the stream is
\* cut into reads, it begins nowhere else.
LEMMA AtFront ==
  ASSUME NEW reqs \in Seq(Requests), NEW buf \in Seq(Unit), NEW rest \in Seq(Unit),
         NEW d, NEW c, At(reqs, buf \o rest, d, c), Len(buf) > 0,
         c = 0 \/ d < Len(reqs)
  PROVE  d \in Nat /\ d < Len(reqs) /\ reqs[d + 1] \in Requests /\ Fronts(buf, reqs[d + 1], c)
<1>p. PICK pend : pend = buf \o rest
  OBVIOUS
<1>0. /\ pend \in Seq(Unit) /\ Len(pend) = Len(buf) + Len(rest)
      /\ \A i \in 1..Len(buf) : pend[i] = buf[i]
  BY <1>p, ConcatProperties
<1>1. PICK st : Laid(reqs, pend, st) /\ st[d + 1] = 1 - c
  BY <1>p DEF At
<1>2. d \in 0..Len(reqs) /\ c \in {0, 2, 4} /\ Len(reqs) \in Nat /\ Len(pend) > 0
  BY <1>0 DEF At
<1>3. d < Len(reqs)
  <2>1. SUFFICES ASSUME d = Len(reqs) PROVE FALSE
    BY <1>2
  <2>2. c = 0
    BY <1>2, <2>1
  <2>3. st[d + 1] = Len(pend) + 1
    BY <1>1, <2>1 DEF Laid
  <2>4. Len(pend) \in Nat
    BY <1>0
  <2> QED BY <1>1, <1>2, <2>2, <2>3, <2>4
<1>4. d + 1 \in 1..Len(reqs) /\ reqs[d + 1] \in Requests
  BY <1>2, <1>3
<1>r. PICK r : r = reqs[d + 1]
  OBVIOUS
<1>5. Len(r) \in Nat
  BY <1>4, <1>r, RequestShape DEF Shaped
<1>6. ASSUME NEW i \in 1..Len(buf), i + c <= Len(r) PROVE buf[i] = r[c + i]
  <2>1. c \in Nat /\ i \in Nat /\ i >= 1 /\ c + i \in 1..Len(r)
    BY <1>2, <1>5, <1>6
  <2>2. st[d + 1] + (c + i) - 1 = i
    BY <1>1, <2>1
  <2>3. st[d + 1] + (c + i) - 1 >= 1 => pend[st[d + 1] + (c + i) - 1] = r[c + i]
    BY <1>1, <1>4, <1>r, <2>1 DEF Laid
  <2>4. pend[i] = buf[i]
    BY <1>0
  <2> QED BY <2>1, <2>2, <2>3, <2>4
<1> QED BY <1>2, <1>3, <1>4, <1>6, <1>r DEF Fronts

\* The line that is found, which is the next one of the request.
Found(buf, r, c) ==
  /\ c = 0 => FindCRLF(buf) = 2 /\ buf[1] = r[1]
  /\ c = 2 /\ Len(r) = 5 => FindCRLF(buf) = 2 /\ buf[1] = r[3]
  /\ c + 1 = Len(r) => FindCRLF(buf) = 1

\* The line findCRLF() finds is the next one of the request.
LEMMA LineFound ==
  ASSUME NEW r \in Requests, NEW buf \in Seq(Unit), FindCRLF(buf) # 0,
         NEW c \in {0, 2, 4}, Fronts(buf, r, c)
  PROVE  FindCRLF(buf) \in 1..Len(buf) /\ Found(buf, r, c)
<1>0. Shaped(r)
  BY RequestShape
<1>1. FindCRLF(buf) \in 1..Len(buf) /\ Len(buf) \in Nat /\ Len(buf) >= 1
  BY FindCRLFFirst
<1>2. ASSUME c = 0 PROVE FindCRLF(buf) = 2 /\ buf[1] = r[1]
  <2>1. Len(r) \in {3, 5} /\ ~r[1].crlf /\ r[2] = CRLF
    BY <1>0 DEF Shaped
  <2>2. buf[1] = r[1]
    BY <1>1, <1>2, <2>1 DEF Fronts
  <2>3. Len(buf) >= 2 => buf[2] = CRLF
    BY <1>1, <1>2, <2>1 DEF Fronts
  <2> QED BY <2>1, <2>2, <2>3, FindCRLFLine
<1>3. ASSUME c = 2, Len(r) = 5 PROVE FindCRLF(buf) = 2 /\ buf[1] = r[3]
  <2>1. ~r[3].crlf /\ r[4] = CRLF
    BY <1>0, <1>3 DEF Shaped
  <2>2. buf[1] = r[3]
    BY <1>1, <1>3 DEF Fronts
  <2>3. Len(buf) >= 2 => buf[2] = CRLF
    BY <1>1, <1>3, <2>1 DEF Fronts
  <2> QED BY <2>1, <2>2, <2>3, FindCRLFLine
<1>4. ASSUME c + 1 = Len(r) PROVE FindCRLF(buf) = 1
  <2>1. r[Len(r)] = CRLF
    BY <1>0 DEF Shaped
  <2>2. buf[1] = r[c + 1]
    BY <1>1, <1>4 DEF Fronts
  <2>3. buf[1] = CRLF
    BY <1>4, <2>1, <2>2
  <2> QED BY <2>3, FindCRLFEmpty
<1> QED BY <1>1, <1>2, <1>3, <1>4 DEF Found

------------------------------------------------------------------------------
(* The inductive invariant.                                                 *)

RequestType ==
  [method_ : {"kInvalid"} \cup {Methods[w] : w \in DOMAIN Methods},
   version_ : {"kUnknown", "kHttp10", "kHttp11"},
   path_ : Word \cup {""}, Connection : Word \cup {""}]

\* The context fits what has been consumed of request d + 1.  A request line that
\* was refused is parsed again when more arrives, by a context that still has its
\* method; the connection is shut down by then.
Parsing(reqs, d, c, state, req, sh) ==
  \/ c = 0 /\ state = "kExpectRequestLine" /\ req = NewRequest
  \/ /\ c = 0 /\ state = "kExpectRequestLine"
     /\ d < Len(reqs) /\ IsBad(reqs[d + 1]) /\ sh /\ req \in RequestType
  \/ /\ c = 2 /\ state = "kExpectHeaders"
     /\ d < Len(reqs) /\ ~IsBad(reqs[d + 1]) /\ req = AfterLine(reqs[d + 1])
  \/ /\ c = 4 /\ state = "kExpectHeaders"
     /\ d < Len(reqs) /\ ~IsBad(reqs[d + 1]) /\ Len(reqs[d + 1]) = 5
     /\ req = AfterHeaders(reqs[d + 1])

\* The answers so far: one for each request, up to the first that says close.
Answered(reqs, d, o, sh) ==
  /\ Len(o) <= Len(reqs)
  /\ \A i \in 1..Len(o) : /\ o[i] = Wanted(reqs[i])
                          /\ Wanted(reqs[i])[1].close <=> (sh /\ i = Len(o))
  /\ IF sh THEN Len(o) >= 1 ELSE Len(o) = d

\* The request line at the front of the buffer is one that was refused.
Refusing(reqs, d, sh, buf) ==
  d < Len(reqs) /\ IsBad(reqs[d + 1]) /\ sh /\ buf[1] = reqs[d + 1][1]

AllAnswers == {Wanted(r) : r \in Requests}

HttpTypes ==
  /\ requests \in Seq(Requests) /\ Len(requests) <= MaxRequests
  /\ toSend \in Seq(Unit) /\ rcv \in Seq(Unit) /\ inputBuffer_ \in Seq(Unit)
  /\ out \in Seq(AllAnswers)
  /\ phase \in {"idle", "parsing"} /\ shut \in BOOLEAN /\ fault \in BOOLEAN

Progress(d, c) ==
  /\ At(requests, Pending, d, c)
  /\ Parsing(requests, d, c, state_, request_, shut)
  /\ Answered(requests, d, out, shut)
  /\ fault => Refusing(requests, d, shut, inputBuffer_)

HttpInv == HttpTypes /\ \E d, c : Progress(d, c)

\* The invariant holds before the first request.
LEMMA HttpInitInv == HttpInit => HttpInv
<1> SUFFICES ASSUME HttpInit PROVE HttpInv
  OBVIOUS
<1>1. /\ requests = <<>> /\ toSend = <<>> /\ rcv = <<>> /\ inputBuffer_ = <<>> /\ out = <<>>
      /\ phase = "idle" /\ shut = FALSE /\ fault = FALSE
      /\ state_ = "kExpectRequestLine" /\ request_ = NewRequest
  BY DEF HttpInit
<1>2. HttpTypes
  <2>1. \A S : <<>> \in Seq(S)
    OBVIOUS
  <2>2. Len(<<>>) <= MaxRequests
    BY HttpAssumption
  <2> QED BY <1>1, <2>1, <2>2 DEF HttpTypes
<1>3. Pending = <<>>
  BY <1>1 DEF Pending
<1>4. Laid(<<>>, <<>>, [j \in 1..1 |-> 1])
  <2>1. Len(<<>>) = 0 /\ 1..(0 + 1) = 1..1 /\ 1..0 = {}
    OBVIOUS
  <2>2. PICK st : st = [j \in 1..1 |-> 1]
    OBVIOUS
  <2>3. st \in [1..1 -> Int] /\ st[0 + 1] = 0 + 1 /\ \A j \in 1..1 : st[j] <= 0 + 1
    BY <2>2
  <2>4. Laid(<<>>, <<>>, st)
    BY <2>1, <2>3, Zenon DEF Laid
  <2> QED BY <2>2, <2>4, Zenon
<1>5. At(<<>>, <<>>, 0, 0)
  <2>1. [j \in 1..1 |-> 1][0 + 1] = 1 - 0 /\ 0 \in 0..Len(<<>>)
    OBVIOUS
  <2> QED BY <1>4, <2>1 DEF At
<1>6. Progress(0, 0)
  BY <1>1, <1>3, <1>5 DEF Progress, Parsing, Answered
<1> QED BY <1>2, <1>6 DEF HttpInv

\* The version of a line is one of three.
LEMMA VersionType ==
  ASSUME NEW w
  PROVE  Version(w) \in {"kUnknown", "kHttp10", "kHttp11"}
<1>1. CASE Len(w) = 3 /\ w[3] = "HTTP/1.1"
  BY <1>1 DEF Version
<1>2. CASE Len(w) = 3 /\ w[3] = "HTTP/1.0" /\ ~(Len(w) = 3 /\ w[3] = "HTTP/1.1")
  BY <1>2 DEF Version
<1>3. CASE ~(Len(w) = 3 /\ w[3] = "HTTP/1.1") /\ ~(Len(w) = 3 /\ w[3] = "HTTP/1.0")
  BY <1>3 DEF Version
<1> QED BY <1>1, <1>2, <1>3

\* A new request has no method.
LEMMA NewRequestType == NewRequest \in RequestType /\ NewRequest.method_ = "kInvalid"
BY DEF NewRequest, RequestType

\* A request line has a method and a path.
LEMMA RequestWords ==
  ASSUME NEW r \in Requests
  PROVE  r[1].words \in Seq(Word) /\ Len(r[1].words) > 1 /\ r[1].words[2] \in Word
<1>1. r[1].words \in Seq(Word) /\ Len(r[1].words) > 1
  BY RequestKinds DEF Kinds, Asks, Shaped
<1> QED BY <1>1

\* What processRequestLine() does with the line of a request.
LEMMA MethodSet ==
  ASSUME NEW r \in Requests, request_ \in RequestType
  PROVE  LET q == WithMethod(r[1].words)
         IN  /\ q \in RequestType
             /\ q.version_ = request_.version_ /\ q.Connection = request_.Connection
             /\ q.method_ = IF r[1].words[1] \in DOMAIN Methods THEN Methods[r[1].words[1]]
                            ELSE "kInvalid"
<1>m. PICK m : m = IF r[1].words[1] \in DOMAIN Methods THEN Methods[r[1].words[1]]
                   ELSE "kInvalid"
  OBVIOUS
<1>M. PICK N : N = {"kInvalid"} \cup {Methods[w] : w \in DOMAIN Methods}
  OBVIOUS
<1>1. m \in N
  BY <1>m, <1>M
<1>2. Len(r[1].words) > 1
  BY RequestWords
<1>3. WithMethod(r[1].words) = [request_ EXCEPT !.method_ = m]
  BY <1>2, <1>m DEF WithMethod, SetMethod
<1>5. RequestType = [method_ : N, version_ : {"kUnknown", "kHttp10", "kHttp11"},
                     path_ : Word \cup {""}, Connection : Word \cup {""}]
  BY <1>M, Zenon DEF RequestType
<1>4. ASSUME NEW M, NEW q \in [method_ : M, version_ : {"kUnknown", "kHttp10", "kHttp11"},
                               path_ : Word \cup {""}, Connection : Word \cup {""}],
             NEW k \in M
      PROVE  /\ [q EXCEPT !.method_ = k] \in
                  [method_ : M, version_ : {"kUnknown", "kHttp10", "kHttp11"},
                   path_ : Word \cup {""}, Connection : Word \cup {""}]
             /\ [q EXCEPT !.method_ = k].version_ = q.version_
             /\ [q EXCEPT !.method_ = k].Connection = q.Connection
             /\ [q EXCEPT !.method_ = k].method_ = k
  OBVIOUS
<1>6. /\ [request_ EXCEPT !.method_ = m] \in RequestType
      /\ [request_ EXCEPT !.method_ = m].version_ = request_.version_
      /\ [request_ EXCEPT !.method_ = m].Connection = request_.Connection
      /\ [request_ EXCEPT !.method_ = m].method_ = m
  BY <1>1, <1>4, <1>5, Zenon
<1> QED BY <1>3, <1>6, <1>m, Zenon

\* processRequestLine() succeeds for a request line exactly if it is not bad.
LEMMA LineProcessed ==
  ASSUME NEW r \in Requests, request_ \in RequestType
  PROVE  /\ ProcessRequestLine(r[1].words) \in RequestType
         /\ Succeeds(r[1].words) <=> ~IsBad(r)
<1> PICK w : w = r[1].words
  OBVIOUS
<1> PICK q : q = WithMethod(w)
  OBVIOUS
<1>0. Judged(r)
  BY RequestsJudged
<1>1. /\ q \in RequestType
      /\ q.method_ = IF w[1] \in DOMAIN Methods THEN Methods[w[1]] ELSE "kInvalid"
  BY MethodSet
<1>2. ProcessRequestLine(w) \in RequestType
  <2>1. w[2] \in Word /\ Version(w) \in {"kUnknown", "kHttp10", "kHttp11"}
    BY RequestWords, VersionType
  <2>2. [q EXCEPT !.path_ = w[2], !.version_ = Version(w)] \in RequestType
    BY <1>1, <2>1 DEF RequestType
  <2> QED BY <1>1, <2>2 DEF ProcessRequestLine
<1>3. q.method_ # "kInvalid" <=> w[1] \in DOMAIN Methods
  BY <1>1, MethodValues
<1>4. Succeeds(w) <=> w[1] \in DOMAIN Methods /\ Version(w) # "kUnknown"
  BY <1>3 DEF Succeeds
<1>5. Succeeds(w) <=> ~IsBad(r)
  BY <1>0, <1>4 DEF Judged
<1> QED BY <1>2, <1>5

\* What it leaves of an accepted line in a new request.
LEMMA LineAccepted ==
  ASSUME NEW r \in Requests, request_ = NewRequest, ~IsBad(r)
  PROVE  ProcessRequestLine(r[1].words) = AfterLine(r)
<1>w. PICK w : w = r[1].words
  OBVIOUS
<1>m. PICK m : m = Methods[w[1]]
  OBVIOUS
<1>1. Len(w) = 3 /\ w[1] \in DOMAIN Methods /\ m # "kInvalid"
  BY RequestsJudged, MethodValues, <1>w, <1>m DEF Judged
<1>2. WithMethod(w) = [NewRequest EXCEPT !.method_ = m]
  BY <1>1, <1>m DEF WithMethod, SetMethod
<1>3. ASSUME NEW a, NEW p, NEW v, NEW x, NEW y, NEW z,
             x = [method_ |-> "kInvalid", version_ |-> "kUnknown", path_ |-> "",
                  Connection |-> ""],
             y = [x EXCEPT !.method_ = a], z = [y EXCEPT !.path_ = p, !.version_ = v]
      PROVE  /\ y.method_ = a
             /\ z = [method_ |-> a, version_ |-> v, path_ |-> p, Connection |-> ""]
  <2>1. y = [method_ |-> a, version_ |-> "kUnknown", path_ |-> "", Connection |-> ""]
    BY <1>3
  <2>2. y.method_ = a
    BY <2>1
  <2>3. z = [method_ |-> a, version_ |-> v, path_ |-> p, Connection |-> ""]
    BY <1>3, <2>1
  <2> QED BY <2>2, <2>3
<1>y. PICK y : y = [NewRequest EXCEPT !.method_ = m]
  OBVIOUS
<1>z. PICK z : z = [y EXCEPT !.path_ = w[2], !.version_ = Version(w)]
  OBVIOUS
<1>4. /\ y.method_ = m
      /\ z = [method_ |-> m, version_ |-> Version(w), path_ |-> w[2], Connection |-> ""]
  BY <1>3, <1>y, <1>z, Zenon DEF NewRequest
<1>5. ~(m = "kInvalid" \/ Len(w) < 3)
  BY <1>1
<1>6. ProcessRequestLine(w) = z
  BY <1>2, <1>4, <1>5, <1>y, <1>z, Zenon DEF ProcessRequestLine
<1> QED BY <1>4, <1>6, <1>w, <1>m, Zenon DEF AfterLine

------------------------------------------------------------------------------
(* The steps.                                                               *)

\* A request that is begun does not change the context.
LEMMA ParsingMore ==
  ASSUME NEW reqs \in Seq(Requests), NEW r \in Requests, NEW d \in Nat, NEW c, NEW state,
         NEW req, NEW sh, Parsing(reqs, d, c, state, req, sh)
  PROVE  Parsing(Append(reqs, r), d, c, state, req, sh)
<1>1. d < Len(reqs) => d < Len(Append(reqs, r)) /\ Append(reqs, r)[d + 1] = reqs[d + 1]
  OBVIOUS
<1>2. PICK more : more = Append(reqs, r)
  OBVIOUS
<1>3. d < Len(reqs) => d < Len(more) /\ more[d + 1] = reqs[d + 1]
  BY <1>1, <1>2, Zenon
<1>4. Parsing(more, d, c, state, req, sh)
  BY <1>3, Zenon DEF Parsing
<1> QED BY <1>2, <1>4, Zenon

\* A request that is begun does not change the answers.
LEMMA AnsweredMore ==
  ASSUME NEW reqs \in Seq(Requests), NEW r \in Requests, NEW d, NEW o, Len(o) \in Nat, NEW sh,
         Answered(reqs, d, o, sh)
  PROVE  Answered(Append(reqs, r), d, o, sh)
<1>1. PICK more : more = Append(reqs, r)
  OBVIOUS
<1>2. /\ Len(o) <= Len(more)
      /\ \A i \in 1..Len(o) : more[i] = reqs[i]
  BY <1>1 DEF Answered
<1>3. Answered(more, d, o, sh)
  BY <1>2, Zenon DEF Answered
<1> QED BY <1>1, <1>3, Zenon

\* The answer to request d + 1 follows those to the first d.
LEMMA AnswerMore ==
  ASSUME NEW reqs \in Seq(Requests), NEW d \in Nat, d < Len(reqs), NEW o \in Seq(AllAnswers),
         Answered(reqs, d, o, FALSE), NEW sh \in BOOLEAN,
         Wanted(reqs[d + 1])[1].close <=> sh
  PROVE  /\ Answered(reqs, d + 1, Append(o, Wanted(reqs[d + 1])), sh)
         /\ Append(o, Wanted(reqs[d + 1])) \in Seq(AllAnswers)
<1>a. PICK a : a = Wanted(reqs[d + 1])
  OBVIOUS
<1>p. PICK p : p = Append(o, a)
  OBVIOUS
<1>1. Len(o) = d /\ \A i \in 1..d : o[i] = Wanted(reqs[i]) /\ ~Wanted(reqs[i])[1].close
  BY DEF Answered
<1>2. a \in AllAnswers
  BY <1>a DEF AllAnswers
<1>3. p \in Seq(AllAnswers) /\ Len(p) = d + 1 /\ p[d + 1] = a /\ \A i \in 1..d : p[i] = o[i]
  BY <1>1, <1>2, <1>p
<1>4. ASSUME NEW i \in 1..(d + 1)
      PROVE  p[i] = Wanted(reqs[i]) /\ (Wanted(reqs[i])[1].close <=> (sh /\ i = d + 1))
  <2>1. CASE i = d + 1
    BY <1>3, <1>a, <2>1, Zenon
  <2>2. CASE i \in 1..d
    <3>1. i # d + 1
      BY <2>2
    <3> QED BY <1>1, <1>3, <2>2, <3>1, Zenon
  <2> QED BY <2>1, <2>2
<1>5. Len(p) <= Len(reqs) /\ Len(p) >= 1
  BY <1>3
<1>6. Answered(reqs, d + 1, p, sh)
  BY <1>3, <1>4, <1>5, Zenon DEF Answered
<1> QED BY <1>3, <1>6, <1>a, <1>p, Zenon

\* After the last answer it does not matter how many requests are consumed.
LEMMA AnsweredShut ==
  ASSUME NEW reqs, NEW d, NEW o, NEW e, Answered(reqs, d, o, TRUE)
  PROVE  Answered(reqs, e, o, TRUE)
BY Zenon DEF Answered

\* The invariant after a step, from its parts.
LEMMA InvStep ==
  ASSUME HttpTypes', NEW d, NEW c, At(requests', Pending', d, c),
         Parsing(requests', d, c, state_', request_', shut'),
         Answered(requests', d, out', shut'),
         fault' => Refusing(requests', d, shut', inputBuffer_')
  PROVE  HttpInv'
<1>1. Progress(d, c)'
  BY Zenon DEF Progress
<1> QED BY <1>1, Zenon DEF HttpInv

\* The client sends a unit, of its last request or of a new one.
LEMMA ClientSendsKeeps == HttpInv /\ ClientSends => HttpInv'
<1> SUFFICES ASSUME HttpInv, ClientSends PROVE HttpInv'
  OBVIOUS
<1>1. PICK d, c : Progress(d, c)
  BY DEF HttpInv
<1>t. HttpTypes
  BY DEF HttpInv
<1>u. /\ inputBuffer_' = inputBuffer_ /\ state_' = state_ /\ request_' = request_
      /\ phase' = phase /\ out' = out /\ shut' = shut /\ fault' = fault /\ ~fault
  BY DEF ClientSends, contextVars
<1>2. /\ requests \in Seq(Requests) /\ Len(requests) <= MaxRequests
      /\ toSend \in Seq(Unit) /\ rcv \in Seq(Unit) /\ inputBuffer_ \in Seq(Unit)
      /\ out \in Seq(AllAnswers)
  BY <1>t DEF HttpTypes
<1>3. CASE /\ toSend # <<>>
           /\ rcv' = Append(rcv, toSend[1]) /\ toSend' = Tail(toSend)
           /\ requests' = requests
  <2>1. /\ rcv' \in Seq(Unit) /\ toSend' \in Seq(Unit)
        /\ (inputBuffer_ \o rcv') \o toSend' = (inputBuffer_ \o rcv) \o toSend
    <3>1. Sends(inputBuffer_, rcv, toSend)
      BY <1>2, <1>3, SendMoves
    <3> QED BY <1>3, <3>1, Zenon DEF Sends
  <2>2. Pending' = Pending
    BY <1>u, <2>1 DEF Pending
  <2>3. HttpTypes'
    BY <1>t, <1>u, <1>3, <2>1 DEF HttpTypes
  <2>4. /\ At(requests', Pending', d, c)
        /\ Parsing(requests', d, c, state_', request_', shut')
        /\ Answered(requests', d, out', shut')
    BY <1>1, <1>u, <1>3, <2>2, Zenon DEF Progress
  <2> QED BY <1>u, <2>3, <2>4, InvStep
<1>4. ASSUME toSend = <<>>, Len(requests) < MaxRequests, NEW r \in Requests,
             requests' = Append(requests, r), rcv' = Append(rcv, r[1]), toSend' = Tail(r)
      PROVE  HttpInv'
  <2>0. r \in Seq(Unit) /\ r # <<>>
    BY RequestShape DEF Shaped
  <2>1. /\ rcv' \in Seq(Unit) /\ toSend' \in Seq(Unit)
        /\ (inputBuffer_ \o rcv') \o toSend' = (inputBuffer_ \o rcv) \o r
    <3>1. Sends(inputBuffer_, rcv, r)
      BY <1>2, <2>0, SendMoves
    <3> QED BY <1>4, <3>1, Zenon DEF Sends
  <2>2. Pending = inputBuffer_ \o rcv /\ Pending \in Seq(Unit)
    <3>1. inputBuffer_ \o rcv \in Seq(Unit)
      BY <1>2, Regrouped
    <3>2. (inputBuffer_ \o rcv) \o <<>> = inputBuffer_ \o rcv
      BY <3>1, ConcatEmptySeq
    <3> QED BY <1>4, <3>1, <3>2, Zenon DEF Pending
  <2>3. Pending' = Pending \o r
    BY <1>u, <2>1, <2>2 DEF Pending
  <2>4. HttpTypes'
    <3>1. requests' \in Seq(Requests) /\ Len(requests') <= MaxRequests
      BY <1>2, <1>4
    <3> QED BY <1>t, <1>u, <2>1, <3>1 DEF HttpTypes
  <2>5. At(requests', Pending', d, c)
    <3>1. At(Append(requests, r), Pending \o r, d, c)
      BY <1>1, <1>2, <2>2, AtMore DEF Progress
    <3> QED BY <1>4, <2>3, <3>1, Zenon
  <2>6. d \in Nat
    BY <1>1, <1>2 DEF Progress, At
  <2>7. Parsing(requests', d, c, state_', request_', shut')
    <3>1. Parsing(Append(requests, r), d, c, state_, request_, shut)
      BY <1>1, <1>2, <2>6, ParsingMore DEF Progress
    <3> QED BY <1>4, <1>u, <3>1, Zenon
  <2>8. Answered(requests', d, out', shut')
    <3>1. Len(out) \in Nat
      BY <1>2
    <3>2. Answered(Append(requests, r), d, out, shut)
      BY <1>1, <1>2, <3>1, AnsweredMore DEF Progress
    <3> QED BY <1>4, <1>u, <3>2, Zenon
  <2> QED BY <1>u, <2>4, <2>5, <2>7, <2>8, InvStep
<1> QED BY <1>3, <1>4 DEF ClientSends

\* handleRead() takes any part of what has arrived.
LEMMA HandleReadKeeps == HttpInv /\ HandleRead => HttpInv'
<1> SUFFICES ASSUME HttpInv, HandleRead PROVE HttpInv'
  OBVIOUS
<1>1. PICK d, c : Progress(d, c)
  BY DEF HttpInv
<1>t. HttpTypes
  BY DEF HttpInv
<1>u. /\ requests' = requests /\ toSend' = toSend /\ state_' = state_ /\ request_' = request_
      /\ phase' = "parsing" /\ out' = out /\ shut' = shut /\ fault' = fault /\ ~fault
  BY DEF HandleRead, contextVars
<1>2. toSend \in Seq(Unit) /\ rcv \in Seq(Unit) /\ inputBuffer_ \in Seq(Unit)
  BY <1>t DEF HttpTypes
<1>3. PICK k \in 1..Len(rcv) : /\ inputBuffer_' = inputBuffer_ \o SubSeq(rcv, 1, k)
                               /\ rcv' = SubSeq(rcv, k + 1, Len(rcv))
  BY DEF HandleRead
<1>4. /\ inputBuffer_' \in Seq(Unit) /\ rcv' \in Seq(Unit)
      /\ inputBuffer_' \o rcv' \o toSend = inputBuffer_ \o rcv \o toSend
  <2>1. Reads(inputBuffer_, rcv, toSend, k)
    BY <1>2, ReadMoves
  <2> QED BY <1>3, <2>1, Zenon DEF Reads
<1>5. Pending' = Pending
  BY <1>u, <1>4 DEF Pending
<1>6. HttpTypes'
  BY <1>t, <1>u, <1>4 DEF HttpTypes
<1>7. /\ At(requests', Pending', d, c)
      /\ Parsing(requests', d, c, state_', request_', shut')
      /\ Answered(requests', d, out', shut')
  BY <1>1, <1>u, <1>5, Zenon DEF Progress
<1> QED BY <1>u, <1>6, <1>7, InvStep

\* A request line that is not complete is left for the next read.
LEMMA LineMissingKeeps == HttpInv /\ LineMissing => HttpInv'
<1> SUFFICES ASSUME HttpInv, LineMissing PROVE HttpInv'
  OBVIOUS
<1>1. PICK d, c : Progress(d, c)
  BY DEF HttpInv
<1>t. HttpTypes
  BY DEF HttpInv
<1>u. /\ requests' = requests /\ toSend' = toSend /\ rcv' = rcv
      /\ inputBuffer_' = inputBuffer_ /\ state_' = state_ /\ request_' = request_
      /\ phase' = "idle" /\ out' = out /\ shut' = shut /\ fault' = fault /\ ~fault
  BY DEF LineMissing, Turn, contextVars
<1>2. HttpTypes' /\ Pending' = Pending
  BY <1>t, <1>u DEF HttpTypes, Pending
<1>3. /\ At(requests', Pending', d, c)
      /\ Parsing(requests', d, c, state_', request_', shut')
      /\ Answered(requests', d, out', shut')
  BY <1>1, <1>u, <1>2, Zenon DEF Progress
<1> QED BY <1>u, <1>2, <1>3, InvStep

\* What a turn of the loop finds in the buffer: the next line of request d + 1.
Turns(d, c, r) ==
  /\ d \in Nat /\ d < Len(requests) /\ r = requests[d + 1] /\ r \in Requests
  /\ FindCRLF(inputBuffer_) \in 1..Len(inputBuffer_)
  /\ Found(inputBuffer_, r, c)

\* A turn that finds a CRLF finds the next line of request d + 1.
LEMMA TurnFinds ==
  ASSUME HttpTypes, FindCRLF(inputBuffer_) # 0, NEW d, NEW c, Progress(d, c)
  PROVE  Turns(d, c, requests[d + 1]) /\ c \in {0, 2, 4}
<1>1. /\ toSend \in Seq(Unit) /\ rcv \in Seq(Unit) /\ inputBuffer_ \in Seq(Unit)
      /\ requests \in Seq(Requests)
  BY DEF HttpTypes
<1>2. FindCRLF(inputBuffer_) \in 1..Len(inputBuffer_)
  BY <1>1, FindCRLFFirst
<1>3. Len(inputBuffer_) > 0
  BY <1>1, <1>2
<1>4. PICK rest : rest = rcv \o toSend
  OBVIOUS
<1>5. rest \in Seq(Unit) /\ Pending = inputBuffer_ \o rest
  BY <1>1, <1>4, Regrouped, Zenon DEF Regroups, Pending
<1>6. At(requests, inputBuffer_ \o rest, d, c) /\ c \in {0, 2, 4}
  BY <1>5, Zenon DEF Progress, At
<1>7. c = 0 \/ d < Len(requests)
  BY Zenon DEF Progress, Parsing
<1>8. /\ d \in Nat /\ d < Len(requests) /\ requests[d + 1] \in Requests
      /\ Fronts(inputBuffer_, requests[d + 1], c)
  BY <1>1, <1>3, <1>5, <1>6, <1>7, AtFront, Zenon
<1>9. Found(inputBuffer_, requests[d + 1], c)
  BY <1>1, <1>6, <1>8, LineFound, Zenon
<1> QED BY <1>2, <1>6, <1>8, <1>9, Zenon DEF Turns

\* The line is consumed with its CRLF.
LEMMA TurnRetrieves ==
  ASSUME HttpTypes, RetrieveLine, rcv' = rcv, toSend' = toSend,
         FindCRLF(inputBuffer_) \in 1..Len(inputBuffer_)
  PROVE  /\ inputBuffer_' \in Seq(Unit) /\ Pending' \in Seq(Unit)
         /\ \E x \in Seq(Unit) :
              Len(x) = FindCRLF(inputBuffer_) /\ Pending = x \o Pending'
<1>1. toSend \in Seq(Unit) /\ rcv \in Seq(Unit) /\ inputBuffer_ \in Seq(Unit)
  BY DEF HttpTypes
<1>k. PICK k : k = FindCRLF(inputBuffer_)
  OBVIOUS
<1>2. k \in 0..Len(inputBuffer_)
  BY <1>1, <1>k
<1>3. inputBuffer_' = SubSeq(inputBuffer_, k + 1, Len(inputBuffer_))
  BY <1>k, Zenon DEF RetrieveLine
<1>4. Retrieves(inputBuffer_, rcv, toSend, k)
  BY <1>1, <1>2, RetrieveMoves
<1>5. inputBuffer_' \in Seq(Unit)
  BY <1>3, <1>4, Zenon DEF Retrieves
<1>6. Pending' = inputBuffer_' \o rcv \o toSend
  BY Zenon DEF Pending
<1>7. Pending' \in Seq(Unit)
  BY <1>1, <1>5, <1>6, Regrouped, Zenon
<1>8. PICK x \in Seq(Unit) :
        /\ Len(x) = k
        /\ x \o (SubSeq(inputBuffer_, k + 1, Len(inputBuffer_)) \o rcv \o toSend)
             = inputBuffer_ \o rcv \o toSend
  BY <1>4, Zenon DEF Retrieves
<1>9. Pending = x \o Pending'
  BY <1>3, <1>6, <1>8, Zenon DEF Pending
<1> QED BY <1>5, <1>7, <1>8, <1>9, <1>k, Zenon

\* At the front of a request its line is found.
LEMMA LineOfRequest ==
  ASSUME NEW d, NEW r, Turns(d, 0, r)
  PROVE  FirstLine = r[1] /\ FindCRLF(inputBuffer_) = 2
<1>1. FindCRLF(inputBuffer_) = 2 /\ inputBuffer_[1] = r[1]
  BY Zenon DEF Turns, Found
<1>2. FindCRLF(inputBuffer_) # 1
  BY <1>1
<1> QED BY <1>1, <1>2, Zenon DEF FirstLine

\* The context at a request line.
LEMMA AtRequestLine ==
  ASSUME NEW d, NEW c, Progress(d, c), state_ = "kExpectRequestLine"
  PROVE  /\ c = 0 /\ request_ \in RequestType
         /\ request_ # NewRequest => d < Len(requests) /\ IsBad(requests[d + 1]) /\ shut
<1>1. "kExpectRequestLine" # "kExpectHeaders"
  OBVIOUS
<1> QED BY <1>1, NewRequestType, Zenon DEF Progress, Parsing

\* A request line is accepted only for a request that is not bad, and by a new
\* request: one left behind by a bad line meets only that line again.
LEMMA RequestLineDoneKeeps == HttpInv /\ RequestLineDone => HttpInv'
<1> SUFFICES ASSUME HttpInv, RequestLineDone PROVE HttpInv'
  OBVIOUS
<1>1. PICK d, c : Progress(d, c)
  BY DEF HttpInv
<1>t. HttpTypes
  BY DEF HttpInv
<1>u. /\ requests' = requests /\ toSend' = toSend /\ rcv' = rcv
      /\ state_' = "kExpectHeaders" /\ state_ = "kExpectRequestLine"
      /\ phase' = phase /\ out' = out /\ shut' = shut /\ fault' = fault /\ ~fault
      /\ FindCRLF(inputBuffer_) # 0
  BY DEF RequestLineDone, Turn
<1>v. /\ RetrieveLine /\ Succeeds(FirstLine.words)
      /\ request_' = ProcessRequestLine(FirstLine.words)
  BY DEF RequestLineDone
<1>r. PICK r : r = requests[d + 1]
  OBVIOUS
<1>2. c = 0 /\ request_ \in RequestType
  BY <1>1, <1>u, AtRequestLine, Zenon
<1>3. Turns(d, 0, r)
  BY <1>1, <1>2, <1>r, <1>t, <1>u, TurnFinds, Zenon
<1>4. FirstLine = r[1] /\ FindCRLF(inputBuffer_) = 2
  BY <1>3, LineOfRequest, Zenon
<1>5. r \in Requests /\ d < Len(requests) /\ FindCRLF(inputBuffer_) \in 1..Len(inputBuffer_)
  BY <1>3, Zenon DEF Turns
<1>6. ~IsBad(r)
  BY <1>2, <1>4, <1>5, <1>v, LineProcessed, Zenon
<1>7. request_ = NewRequest
  BY <1>1, <1>6, <1>r, <1>u, AtRequestLine, Zenon
<1>8. request_' = AfterLine(r)
  BY <1>4, <1>5, <1>6, <1>7, <1>v, LineAccepted, Zenon
<1>9. /\ inputBuffer_' \in Seq(Unit) /\ Pending' \in Seq(Unit)
      /\ \E x \in Seq(Unit) : Len(x) = 2 /\ Pending = x \o Pending'
  BY <1>4, <1>5, <1>t, <1>u, <1>v, TurnRetrieves, Zenon
<1>10. PICK x \in Seq(Unit) : Len(x) = 2 /\ Pending = x \o Pending'
  BY <1>9
<1>11. At(requests', Pending', d, 2)
  <2>1. At(requests, x \o Pending', d, 0) /\ requests \in Seq(Requests)
    BY <1>1, <1>2, <1>10, <1>t, Zenon DEF Progress, HttpTypes
  <2>2. 0 + Len(x) \in {0, 2, 4} /\ 0 + Len(x) = 2
    BY <1>10
  <2>3. At(requests, Pending', d, 0 + Len(x))
    BY <1>9, <2>1, <2>2, AtLess, Zenon
  <2> QED BY <1>u, <2>2, <2>3, Zenon
<1>12. Parsing(requests', d, 2, state_', request_', shut')
  BY <1>5, <1>6, <1>8, <1>r, <1>u, Zenon DEF Parsing
<1>13. Answered(requests', d, out', shut')
  BY <1>1, <1>u, Zenon DEF Progress
<1>14. HttpTypes'
  BY <1>9, <1>t, <1>u DEF HttpTypes
<1> QED BY <1>11, <1>12, <1>13, <1>14, <1>u, InvStep

\* A refused request line is answered, unless the answers have ended, and stays.
LEMMA RequestLineBadKeeps == HttpInv /\ RequestLineBad => HttpInv'
<1> SUFFICES ASSUME HttpInv, RequestLineBad PROVE HttpInv'
  OBVIOUS
<1>1. PICK d, c : Progress(d, c)
  BY DEF HttpInv
<1>t. HttpTypes
  BY DEF HttpInv
<1>u. /\ requests' = requests /\ toSend' = toSend /\ rcv' = rcv
      /\ inputBuffer_' = inputBuffer_ /\ state_' = state_ /\ state_ = "kExpectRequestLine"
      /\ phase' = "idle" /\ fault' = fault /\ ~fault /\ FindCRLF(inputBuffer_) # 0
  BY DEF RequestLineBad, Turn
<1>v. /\ ~Succeeds(FirstLine.words) /\ BadRequest
      /\ request_' = ProcessRequestLine(FirstLine.words)
  BY DEF RequestLineBad
<1>r. PICK r : r = requests[d + 1]
  OBVIOUS
<1>2. c = 0 /\ request_ \in RequestType
  BY <1>1, <1>u, AtRequestLine, Zenon
<1>3. Turns(d, 0, r)
  BY <1>1, <1>2, <1>r, <1>t, <1>u, TurnFinds, Zenon
<1>4. FirstLine = r[1]
  BY <1>3, LineOfRequest, Zenon
<1>5. r \in Requests /\ d \in Nat /\ d < Len(requests)
  BY <1>3, Zenon DEF Turns
<1>6. IsBad(r) /\ request_' \in RequestType
  BY <1>2, <1>4, <1>5, <1>v, LineProcessed, Zenon
<1>7. shut' = TRUE /\ out' = IF shut THEN out ELSE Append(out, AppendToBuffer(400, "", TRUE))
  BY <1>v, Zenon DEF BadRequest, Send
<1>8. Wanted(r) = AppendToBuffer(400, "", TRUE) /\ Wanted(r)[1].close
  BY <1>5, <1>6, RequestsJudged, Zenon DEF Judged
<1>9. Answered(requests', d, out', shut') /\ out' \in Seq(AllAnswers)
  <2>0. requests \in Seq(Requests) /\ out \in Seq(AllAnswers) /\ shut \in BOOLEAN
    BY <1>t DEF HttpTypes
  <2>1. CASE shut = TRUE
    BY <1>1, <1>7, <1>u, <2>0, <2>1, Zenon DEF Progress
  <2>2. CASE shut = FALSE
    <3>1. Answered(requests, d, out, FALSE)
      BY <1>1, <2>2, Zenon DEF Progress
    <3>2. out' = Append(out, Wanted(requests[d + 1]))
      BY <1>7, <1>8, <1>r, <2>2, Zenon
    <3>3. Wanted(requests[d + 1])[1].close <=> TRUE
      BY <1>8, <1>r, Zenon
    <3>4. Answered(requests, d + 1, out', TRUE) /\ out' \in Seq(AllAnswers)
      BY <1>5, <2>0, <3>1, <3>2, <3>3, AnswerMore, Zenon
    <3>5. Answered(requests, d, out', TRUE)
      BY <3>4, AnsweredShut
    <3> QED BY <1>7, <1>u, <3>4, <3>5, Zenon
  <2> QED BY <2>0, <2>1, <2>2, Zenon
<1>10. Parsing(requests', d, 0, state_', request_', shut')
  BY <1>5, <1>6, <1>7, <1>r, <1>u, Zenon DEF Parsing
<1>11. HttpTypes' /\ Pending' = Pending
  BY <1>7, <1>9, <1>t, <1>u DEF HttpTypes, Pending
<1>12. At(requests', Pending', d, 0)
  BY <1>1, <1>2, <1>11, <1>u, Zenon DEF Progress
<1> QED BY <1>9, <1>10, <1>11, <1>12, <1>u, InvStep

\* The method is set already: the line was refused before.
LEMMA AssertFailsKeeps == HttpInv /\ AssertFails => HttpInv'
<1> SUFFICES ASSUME HttpInv, AssertFails PROVE HttpInv'
  OBVIOUS
<1>1. PICK d, c : Progress(d, c)
  BY DEF HttpInv
<1>t. HttpTypes
  BY DEF HttpInv
<1>u. /\ requests' = requests /\ toSend' = toSend /\ rcv' = rcv
      /\ inputBuffer_' = inputBuffer_ /\ state_' = state_ /\ state_ = "kExpectRequestLine"
      /\ request_' = request_ /\ phase' = phase /\ out' = out /\ shut' = shut
      /\ fault' = TRUE /\ FindCRLF(inputBuffer_) # 0
  BY DEF AssertFails, Turn, contextVars
<1>v. ~MethodAssert(FirstLine.words)
  BY DEF AssertFails
<1>r. PICK r : r = requests[d + 1]
  OBVIOUS
<1>2. c = 0
  BY <1>1, <1>u, AtRequestLine, Zenon
<1>3. Turns(d, 0, r)
  BY <1>1, <1>2, <1>r, <1>t, <1>u, TurnFinds, Zenon
<1>4. request_ # NewRequest
  BY <1>v, NewRequestType, Zenon DEF MethodAssert
<1>5. d < Len(requests) /\ IsBad(r) /\ shut
  BY <1>1, <1>4, <1>r, <1>u, AtRequestLine, Zenon
<1>6. inputBuffer_[1] = r[1]
  BY <1>3, Zenon DEF Turns, Found
<1>7. Refusing(requests', d, shut', inputBuffer_')
  BY <1>5, <1>6, <1>r, <1>u, Zenon DEF Refusing
<1>8. HttpTypes' /\ Pending' = Pending
  BY <1>t, <1>u DEF HttpTypes, Pending
<1>9. /\ At(requests', Pending', d, c)
      /\ Parsing(requests', d, c, state_', request_', shut')
      /\ Answered(requests', d, out', shut')
  BY <1>1, <1>8, <1>u, Zenon DEF Progress
<1> QED BY <1>7, <1>8, <1>9, InvStep

\* The context at the headers.
LEMMA AtHeaders ==
  ASSUME NEW d, NEW c, Progress(d, c), state_ = "kExpectHeaders", NEW r,
         r = requests[d + 1]
  PROVE  /\ ~IsBad(r)
         /\ \/ c = 2 /\ request_ = AfterLine(r)
            \/ c = 4 /\ Len(r) = 5 /\ request_ = AfterHeaders(r)
<1>1. "kExpectRequestLine" # "kExpectHeaders"
  OBVIOUS
<1> QED BY <1>1, Zenon DEF Progress, Parsing

\* The line a turn finds in the headers: the header, or the empty line.
LEMMA LineOfHeaders ==
  ASSUME NEW d, NEW c, NEW r, Turns(d, c, r), c = 2 \/ (c = 4 /\ Len(r) = 5)
  PROVE  \/ /\ FirstLine.colon /\ c = 2 /\ Len(r) = 5 /\ FirstLine = r[3]
            /\ FindCRLF(inputBuffer_) = 2
         \/ ~FirstLine.colon /\ c + 1 = Len(r) /\ FindCRLF(inputBuffer_) = 1
<1>0. r \in Requests
  BY Zenon DEF Turns
<1>1. Shaped(r)
  BY <1>0, RequestShape
<1>2. Len(r) \in {3, 5}
  BY <1>1, Zenon DEF Shaped
<1>3. CASE c = 2 /\ Len(r) = 5
  <2>1. FindCRLF(inputBuffer_) = 2 /\ inputBuffer_[1] = r[3]
    BY <1>3, Zenon DEF Turns, Found
  <2>2. FindCRLF(inputBuffer_) # 1
    BY <2>1
  <2>3. FirstLine = r[3] /\ r[3].colon
    BY <1>1, <1>3, <2>1, <2>2, Zenon DEF FirstLine, Shaped
  <2> QED BY <1>3, <2>1, <2>3, Zenon
<1>4. CASE c + 1 = Len(r)
  <2>1. FindCRLF(inputBuffer_) = 1
    BY <1>4, Zenon DEF Turns, Found
  <2>2. FirstLine = CRLF
    BY <2>1, Zenon DEF FirstLine
  <2> QED BY <1>4, <2>1, <2>2, CrlfUnit, Zenon
<1>5. (c = 2 /\ Len(r) = 5) \/ c + 1 = Len(r)
  <2>1. PICK k : k = Len(r)
    OBVIOUS
  <2>2. k \in {3, 5} /\ (c = 2 \/ (c = 4 /\ k = 5))
    BY <1>2, <2>1, Zenon
  <2>3. (c = 2 /\ k = 5) \/ c + 1 = k
    BY <2>2
  <2> QED BY <2>1, <2>3, Zenon
<1> QED BY <1>3, <1>4, <1>5, Zenon

\* A header is added to the request it belongs to.
LEMMA HeaderDoneKeeps == HttpInv /\ HeaderDone => HttpInv'
<1> SUFFICES ASSUME HttpInv, HeaderDone PROVE HttpInv'
  OBVIOUS
<1>1. PICK d, c : Progress(d, c)
  BY DEF HttpInv
<1>t. HttpTypes
  BY DEF HttpInv
<1>u. /\ requests' = requests /\ toSend' = toSend /\ rcv' = rcv
      /\ state_' = state_ /\ state_ = "kExpectHeaders"
      /\ phase' = phase /\ out' = out /\ shut' = shut /\ fault' = fault /\ ~fault
      /\ FindCRLF(inputBuffer_) # 0
  BY DEF HeaderDone, Turn
<1>v. RetrieveLine /\ FirstLine.colon /\ request_' = AddHeader(request_, FirstLine)
  BY DEF HeaderDone
<1>r. PICK r : r = requests[d + 1]
  OBVIOUS
<1>2. /\ ~IsBad(r)
      /\ \/ c = 2 /\ request_ = AfterLine(r)
         \/ c = 4 /\ Len(r) = 5 /\ request_ = AfterHeaders(r)
  BY <1>1, <1>r, <1>u, AtHeaders
<1>3. Turns(d, c, r)
  BY <1>1, <1>r, <1>t, <1>u, TurnFinds, Zenon
<1>4. c = 2 /\ Len(r) = 5 /\ FirstLine = r[3] /\ FindCRLF(inputBuffer_) = 2
  BY <1>2, <1>3, <1>v, LineOfHeaders, Zenon
<1>5. d < Len(requests) /\ FindCRLF(inputBuffer_) \in 1..Len(inputBuffer_)
  BY <1>3, Zenon DEF Turns
<1>6. request_ = AfterLine(r)
  <2>1. c # 4
    BY <1>4
  <2> QED BY <1>2, <2>1, Zenon
<1>7. request_' = AfterHeaders(r)
  BY <1>4, <1>6, <1>v, Zenon DEF AfterHeaders
<1>8. /\ inputBuffer_' \in Seq(Unit) /\ Pending' \in Seq(Unit)
      /\ \E x \in Seq(Unit) : Len(x) = 2 /\ Pending = x \o Pending'
  BY <1>4, <1>5, <1>t, <1>u, <1>v, TurnRetrieves, Zenon
<1>9. PICK x \in Seq(Unit) : Len(x) = 2 /\ Pending = x \o Pending'
  BY <1>8
<1>10. At(requests', Pending', d, 4)
  <2>1. At(requests, x \o Pending', d, 2) /\ requests \in Seq(Requests)
    BY <1>1, <1>4, <1>9, <1>t, Zenon DEF Progress, HttpTypes
  <2>2. 2 + Len(x) \in {0, 2, 4} /\ 2 + Len(x) = 4
    BY <1>9
  <2>3. At(requests, Pending', d, 2 + Len(x))
    BY <1>8, <2>1, <2>2, AtLess, Zenon
  <2> QED BY <1>u, <2>2, <2>3, Zenon
<1>11. Parsing(requests', d, 4, state_', request_', shut')
  BY <1>2, <1>4, <1>5, <1>7, <1>r, <1>u, Zenon DEF Parsing
<1>12. Answered(requests', d, out', shut')
  BY <1>1, <1>u, Zenon DEF Progress
<1>13. HttpTypes'
  BY <1>8, <1>t, <1>u DEF HttpTypes
<1> QED BY <1>10, <1>11, <1>12, <1>13, <1>u, InvStep

\* The empty line: the request is answered as it asks for, and the context is new
\* for the next one.
LEMMA GotAllKeeps == HttpInv /\ GotAll => HttpInv'
<1> SUFFICES ASSUME HttpInv, GotAll PROVE HttpInv'
  OBVIOUS
<1>1. PICK d, c : Progress(d, c)
  BY DEF HttpInv
<1>t. HttpTypes
  BY DEF HttpInv
<1>u. /\ requests' = requests /\ toSend' = toSend /\ rcv' = rcv
      /\ state_ = "kExpectHeaders" /\ phase' = "idle" /\ fault' = fault /\ ~fault
      /\ state_' = "kExpectRequestLine" /\ request_' = NewRequest
      /\ FindCRLF(inputBuffer_) # 0
  BY DEF GotAll, Turn, Reset
<1>v. RetrieveLine /\ ~FirstLine.colon /\ OnRequest(request_)
  BY DEF GotAll
<1>r. PICK r : r = requests[d + 1]
  OBVIOUS
<1>2. /\ ~IsBad(r)
      /\ \/ c = 2 /\ request_ = AfterLine(r)
         \/ c = 4 /\ Len(r) = 5 /\ request_ = AfterHeaders(r)
  BY <1>1, <1>r, <1>u, AtHeaders
<1>3. Turns(d, c, r)
  BY <1>1, <1>r, <1>t, <1>u, TurnFinds, Zenon
<1>4. c + 1 = Len(r) /\ FindCRLF(inputBuffer_) = 1
  BY <1>2, <1>3, <1>v, LineOfHeaders, Zenon
<1>5. /\ r \in Requests /\ d \in Nat /\ d < Len(requests)
      /\ FindCRLF(inputBuffer_) \in 1..Len(inputBuffer_)
  BY <1>3, Zenon DEF Turns
<1>6. request_ = AfterHeaders(r)
  <2>1. CASE c = 2
    <3>1. Len(r) # 5 /\ c # 4
      BY <1>4, <2>1
    <3> QED BY <1>2, <3>1, Zenon DEF AfterHeaders
  <2> QED BY <1>2, <2>1, Zenon
<1>7. /\ Answer(request_) = Wanted(r)
      /\ CloseConnection(request_) <=> Wanted(r)[1].close
  <2>1. Judged(r)
    BY <1>5, RequestsJudged
  <2>2. /\ Answer(AfterHeaders(r)) = Wanted(r)
        /\ CloseConnection(AfterHeaders(r)) <=> Wanted(r)[1].close
    BY <1>2, <2>1, Zenon DEF Judged
  <2> QED BY <1>6, <2>2, Zenon
<1>8. /\ out' = IF shut THEN out ELSE Append(out, Wanted(r))
      /\ shut' = (shut \/ CloseConnection(request_))
  BY <1>7, <1>v, Zenon DEF OnRequest, Send
<1>9. Answered(requests', d + 1, out', shut') /\ out' \in Seq(AllAnswers) /\ shut' \in BOOLEAN
  <2>0. requests \in Seq(Requests) /\ out \in Seq(AllAnswers) /\ shut \in BOOLEAN
    BY <1>t DEF HttpTypes
  <2>1. CASE shut = TRUE
    <3>1. shut' = TRUE /\ out' = out
      BY <1>8, <2>1
    <3>2. Answered(requests, d, out, TRUE)
      BY <1>1, <2>1, Zenon DEF Progress
    <3>3. Answered(requests, d + 1, out, TRUE)
      BY <3>2, AnsweredShut
    <3> QED BY <1>u, <2>0, <3>1, <3>3, Zenon
  <2>2. CASE shut = FALSE
    <3>1. Answered(requests, d, out, FALSE)
      BY <1>1, <2>2, Zenon DEF Progress
    <3>2. out' = Append(out, Wanted(requests[d + 1]))
      BY <1>8, <1>r, <2>2, Zenon
    <3>3. shut' \in BOOLEAN
      BY <1>8 DEF CloseConnection
    <3>4. Wanted(requests[d + 1])[1].close <=> shut'
      BY <1>7, <1>8, <1>r, <2>2, Zenon
    <3>5. /\ Answered(requests, d + 1, Append(out, Wanted(requests[d + 1])), shut')
          /\ Append(out, Wanted(requests[d + 1])) \in Seq(AllAnswers)
      BY <1>5, <2>0, <3>1, <3>3, <3>4, AnswerMore, Zenon
    <3> QED BY <1>u, <3>2, <3>3, <3>5, Zenon
  <2> QED BY <2>0, <2>1, <2>2, Zenon
<1>10. /\ inputBuffer_' \in Seq(Unit) /\ Pending' \in Seq(Unit)
       /\ \E x \in Seq(Unit) : Len(x) = 1 /\ Pending = x \o Pending'
  BY <1>4, <1>5, <1>t, <1>u, <1>v, TurnRetrieves, Zenon
<1>11. PICK x \in Seq(Unit) : Len(x) = 1 /\ Pending = x \o Pending'
  BY <1>10
<1>12. At(requests', Pending', d + 1, 0)
  <2>1. At(requests, x \o Pending', d, c) /\ requests \in Seq(Requests)
    BY <1>1, <1>11, <1>t, Zenon DEF Progress, HttpTypes
  <2>2. c + Len(x) = Len(requests[d + 1])
    BY <1>4, <1>11, <1>r, Zenon
  <2>3. At(requests, Pending', d + 1, 0)
    BY <1>5, <1>10, <2>1, <2>2, AtNext, Zenon
  <2> QED BY <1>u, <2>3, Zenon
<1>13. Parsing(requests', d + 1, 0, state_', request_', shut')
  BY <1>u, Zenon DEF Parsing
<1>14. HttpTypes'
  BY <1>9, <1>10, <1>t, <1>u DEF HttpTypes
<1> QED BY <1>9, <1>12, <1>13, <1>14, <1>u, InvStep

\* A step that changes nothing.
LEMMA HttpStutter == HttpInv /\ UNCHANGED httpVars => HttpInv'
<1> SUFFICES ASSUME HttpInv, UNCHANGED httpVars PROVE HttpInv'
  OBVIOUS
<1>u. /\ requests' = requests /\ toSend' = toSend /\ rcv' = rcv
      /\ inputBuffer_' = inputBuffer_ /\ state_' = state_ /\ request_' = request_
      /\ phase' = phase /\ out' = out /\ shut' = shut /\ fault' = fault
  BY DEF httpVars, contextVars
<1>1. PICK d, c : Progress(d, c)
  BY DEF HttpInv
<1>2. HttpTypes'
  BY <1>u DEF HttpInv, HttpTypes
<1>3. Pending' = Pending
  BY <1>u, Zenon DEF Pending
<1>4. /\ At(requests', Pending', d, c)
      /\ Parsing(requests', d, c, state_', request_', shut')
      /\ Answered(requests', d, out', shut')
      /\ fault' => Refusing(requests', d, shut', inputBuffer_')
  BY <1>1, <1>3, <1>u, Zenon DEF Progress
<1> QED BY <1>2, <1>4, InvStep

(* HttpInv is an invariant of HttpServer, for any number of requests and any*)
(* length of a page: the context of parseRequest() always fits the part of the*)
(* request that has been consumed, however reads cut the stream.            *)
THEOREM HttpInvariant == HttpSpec => []HttpInv
<1>1. HttpInv /\ [HttpNext]_httpVars => HttpInv'
  <2>1. HttpInv /\ Parse => HttpInv'
    BY LineMissingKeeps, RequestLineDoneKeeps, RequestLineBadKeeps, AssertFailsKeeps,
       HeaderDoneKeeps, GotAllKeeps, Zenon DEF Parse
  <2> QED BY <2>1, ClientSendsKeeps, HandleReadKeeps, HttpStutter, Zenon DEF HttpNext
<1> QED BY HttpInitInv, <1>1, PTL DEF HttpSpec

\* The answers so far are those of the first requests, and the one that says close
\* is the first that does.
LEMMA OrderKept == HttpInv => AnswersInOrder
<1> SUFFICES ASSUME HttpInv PROVE AnswersInOrder
  OBVIOUS
<1>t. /\ requests \in Seq(Requests) /\ out \in Seq(AllAnswers) /\ shut \in BOOLEAN
  BY DEF HttpInv, HttpTypes
<1>1. PICK d, c : Answered(requests, d, out, shut)
  BY DEF HttpInv, Progress
<1> DEFINE First == IF LastAnswered = {} THEN Len(requests)
                    ELSE CHOOSE i \in LastAnswered : \A j \in LastAnswered : i <= j
<1> HIDE DEF First
<1>p. PICK n : n = First
  OBVIOUS
<1>n. n = IF LastAnswered = {} THEN Len(requests)
          ELSE CHOOSE i \in LastAnswered : \A j \in LastAnswered : i <= j
  BY <1>p DEF First
<1>o. PICK k \in Nat : k = Len(out)
  BY <1>t
<1>2. /\ k <= Len(requests) /\ Len(requests) \in Nat
      /\ \A i \in 1..k : out[i] = Wanted(requests[i])
      /\ \A i \in 1..k : Wanted(requests[i])[1].close <=> (shut /\ i = k)
      /\ shut => k >= 1
  BY <1>1, <1>o, <1>t DEF Answered
<1>3. DOMAIN requests = 1..Len(requests) /\ DOMAIN out = 1..k
  BY <1>t, <1>o
<1>4. n \in Nat /\ k <= n
  <2>1. CASE LastAnswered = {}
    BY <1>2, <1>n, <2>1
  <2>2. CASE LastAnswered # {}
    <3>1. LastAnswered \subseteq Nat
      BY <1>3 DEF LastAnswered
    <3>2. \E i \in LastAnswered : \A j \in LastAnswered : i <= j
      BY <2>2, <3>1, LeastIndex
    <3>3. n \in LastAnswered
      BY <1>n, <2>2, <3>2
    <3>4. n \in 1..Len(requests) /\ Wanted(requests[n])[1].close
      BY <1>3, <3>3, Zenon DEF LastAnswered
    <3>5. n \in 1..k => n = k
      BY <1>2, <3>4, Zenon
    <3> QED BY <1>2, <3>4, <3>5
  <2> QED BY <2>1, <2>2
<1>e. PICK e : e = Expected
  OBVIOUS
<1>5. e = [i \in 1..n |-> Wanted(requests[i])]
  BY <1>e, <1>n, Zenon DEF Expected
<1>6. e \in Seq({Wanted(requests[i]) : i \in 1..n}) /\ Len(e) = n
  BY <1>4, <1>5
<1>7. \A i \in 1..k : e[i] = out[i]
  BY <1>2, <1>4, <1>5
<1>8. SubSeq(e, 1, k) = out
  <2>1. PICK S : S = {Wanted(requests[i]) : i \in 1..n}
    OBVIOUS
  <2>2. e \in Seq(S)
    BY <1>6, <2>1, Zenon
  <2>3. PICK s : s = SubSeq(e, 1, k)
    OBVIOUS
  <2>4. s \in Seq(S) /\ Len(s) = k /\ \A i \in 1..k : s[i] = e[i]
    BY <1>4, <1>6, <2>2, <2>3
  <2>5. \A i \in 1..k : s[i] = out[i]
    BY <1>7, <2>4, Zenon
  <2>6. s = out
    BY <1>o, <1>t, <2>4, <2>5, SeqEqual
  <2> QED BY <2>3, <2>6, Zenon
<1>9. IsPrefix(out, e)
  BY <1>4, <1>6, <1>8, <1>o DEF IsPrefix
<1>10. shut <=> \E i \in DOMAIN out : out[i][1].close
  <2>1. ASSUME shut PROVE k \in DOMAIN out /\ out[k][1].close
    BY <1>2, <1>3, <2>1
  <2>2. ASSUME NEW i \in DOMAIN out, out[i][1].close PROVE shut
    BY <1>2, <1>3, <2>2, Zenon
  <2> QED BY <2>1, <2>2
<1> QED BY <1>9, <1>10, <1>e, Zenon DEF AnswersInOrder

(* The answers are those to the requests in their order, none follows one that*)
(* says close, and shutdown() is called exactly for that one (AnswersInOrder).*)
THEOREM AnswersKeepOrder == HttpSpec => []AnswersInOrder
BY HttpInvariant, OrderKept, PTL

\* A failed assert is that of a refused line which is still in the buffer.
LEMMA FaultRefused == HttpInv => AssertOnlyAfterBad
<1> SUFFICES ASSUME HttpInv, fault
             PROVE  shut /\ \E i \in DOMAIN requests :
                              IsBad(requests[i]) /\ inputBuffer_[1] = requests[i][1]
  BY DEF AssertOnlyAfterBad
<1>1. PICK d, c : Progress(d, c)
  BY DEF HttpInv
<1>2. Refusing(requests, d, shut, inputBuffer_) /\ At(requests, Pending, d, c)
  BY <1>1, Zenon DEF Progress
<1>3. requests \in Seq(Requests) /\ d \in 0..Len(requests)
  BY <1>2 DEF HttpInv, HttpTypes, At
<1>4. d + 1 \in DOMAIN requests
  BY <1>2, <1>3 DEF Refusing
<1> QED BY <1>2, <1>4, Zenon DEF Refusing

(* The assert of setMethod() fails only after the end of the answers, for a *)
(* request line that was refused (AssertOnlyAfterBad).                      *)
THEOREM AssertAfterBadOnly == HttpSpec => []AssertOnlyAfterBad
BY HttpInvariant, FaultRefused, PTL

\* A request whose line was accepted has a method and a version.
LEMMA AcceptedFields ==
  ASSUME NEW r \in Requests, ~IsBad(r), NEW req,
         req = AfterLine(r) \/ req = AfterHeaders(r)
  PROVE  /\ req.method_ \in {Methods[w] : w \in DOMAIN Methods}
         /\ req.method_ # "kInvalid" /\ req.version_ # "kUnknown"
<1>w. PICK w : w = r[1].words
  OBVIOUS
<1>m. PICK m : m = Methods[w[1]]
  OBVIOUS
<1>v. PICK v : v = Version(w)
  OBVIOUS
<1>p. PICK p : p = w[2]
  OBVIOUS
<1>1. Judged(r)
  BY RequestsJudged
<1>2. w[1] \in DOMAIN Methods /\ v # "kUnknown"
  BY <1>1, <1>w, <1>v, Zenon DEF Judged
<1>3. m \in {Methods[x] : x \in DOMAIN Methods} /\ m # "kInvalid"
  BY <1>2, <1>m, MethodValues
<1>4. AfterLine(r) = [method_ |-> m, version_ |-> v, path_ |-> p, Connection |-> ""]
  BY <1>m, <1>p, <1>v, <1>w, Zenon DEF AfterLine
<1>5. ASSUME NEW a, NEW b, NEW e, NEW f, NEW y,
             y = [method_ |-> a, version_ |-> b, path_ |-> e, Connection |-> ""]
      PROVE  /\ y.method_ = a /\ y.version_ = b
             /\ [y EXCEPT !.Connection = f].method_ = a
             /\ [y EXCEPT !.Connection = f].version_ = b
  BY <1>5
<1>y. PICK y : y = AfterLine(r)
  OBVIOUS
<1>f. PICK f : f = r[3].words[2]
  OBVIOUS
<1>6. req = y \/ req = [y EXCEPT !.Connection = f]
  BY <1>f, <1>y, Zenon DEF AfterHeaders, AddHeader
<1>7. req.method_ = m /\ req.version_ = v
  <2>1. /\ y.method_ = m /\ y.version_ = v
        /\ [y EXCEPT !.Connection = f].method_ = m
        /\ [y EXCEPT !.Connection = f].version_ = v
    <3>1. y = [method_ |-> m, version_ |-> v, path_ |-> p, Connection |-> ""]
      BY <1>4, <1>y, Zenon
    <3> QED BY <1>5, <3>1
  <2> QED BY <1>6, <2>1, Zenon
<1> QED BY <1>2, <1>3, <1>7, Zenon

\* The invariant gives the types.
LEMMA TypesKept == HttpInv => HttpTypeOK
<1> SUFFICES ASSUME HttpInv PROVE HttpTypeOK
  OBVIOUS
<1>t. /\ requests \in Seq(Requests) /\ Len(requests) <= MaxRequests
      /\ phase \in {"idle", "parsing"} /\ shut \in BOOLEAN /\ fault \in BOOLEAN
  BY DEF HttpInv, HttpTypes
<1>1. PICK d, c : Progress(d, c)
  BY DEF HttpInv
<1>p. Parsing(requests, d, c, state_, request_, shut) /\ d \in Nat
  BY <1>1, <1>t DEF Progress, At
<1>N. PICK N : N = {Methods[w] : w \in DOMAIN Methods}
  OBVIOUS
<1>2. CASE state_ = "kExpectRequestLine"
  <2>1. request_ \in RequestType
    BY <1>1, <1>2, AtRequestLine, Zenon
  <2>2. RequestType = [method_ : {"kInvalid"} \cup N,
                       version_ : {"kUnknown", "kHttp10", "kHttp11"},
                       path_ : Word \cup {""}, Connection : Word \cup {""}]
    BY <1>N, Zenon DEF RequestType
  <2>3. request_.method_ \in {"kInvalid"} \cup N
    BY <2>1, <2>2
  <2> QED BY <1>2, <1>t, <1>N, <2>3 DEF HttpTypeOK
<1>3. CASE state_ = "kExpectHeaders"
  <2>r. PICK r : r = requests[d + 1]
    OBVIOUS
  <2>1. ~IsBad(r) /\ (request_ = AfterLine(r) \/ request_ = AfterHeaders(r))
    BY <1>1, <1>3, <2>r, AtHeaders, Zenon
  <2>2. d < Len(requests)
    <3>1. "kExpectRequestLine" # "kExpectHeaders"
      OBVIOUS
    <3> QED BY <1>3, <1>p, <3>1, Zenon DEF Parsing
  <2>3. r \in Requests
    BY <1>p, <1>t, <2>2, <2>r
  <2>4. /\ request_.method_ \in N
        /\ request_.method_ # "kInvalid" /\ request_.version_ # "kUnknown"
    BY <1>N, <2>1, <2>3, AcceptedFields, Zenon
  <2>5. request_.method_ \in {"kInvalid"} \cup N
    BY <2>4
  <2> QED BY <1>3, <1>t, <1>N, <2>4, <2>5, Zenon DEF HttpTypeOK
<1>4. state_ = "kExpectRequestLine" \/ state_ = "kExpectHeaders"
  BY <1>p, Zenon DEF Parsing
<1> QED BY <1>2, <1>3, <1>4, Zenon

(* The state keeps its type, and a request whose headers are awaited has a method*)
(* and a version.                                                           *)
THEOREM HttpTypeCorrect == HttpSpec => []HttpTypeOK
BY HttpInvariant, TypesKept, PTL

------------------------------------------------------------------------------
(* The pingpong client.                                                     *)

HIDE HttpAssumption
USE PingpongAssumption
------------------------------------------------------------------------------
(* The round robin stays within the pool.                                   *)
LEMMA LoopOfType ==
  ASSUME numThreads_ \in (0..MaxThreads) \ {1}, NEW s \in Sessions
  PROVE  LoopOf(s) \in Loops
<1>1. CASE numThreads_ = 0
  BY <1>1 DEF LoopOf, Loops, Base
<1>2. CASE numThreads_ # 0
  <2>1. s - 1 \in Int /\ numThreads_ \in Nat \ {0}
    BY <1>2 DEF Sessions
  <2>2. (s - 1) % numThreads_ \in 0..(numThreads_ - 1)
    BY <2>1
  <2> QED BY <1>2, <2>2 DEF LoopOf, Loops
<1> QED BY <1>1, <1>2

(* The callback a loop is in, as a session's place.                         *)
PCs == {"idle", "establish", "callback", "add", "subtract", "test", "report"}
Places == [session : Sessions \cup {0}, pc : PCs]
Where(s, p) == at[LoopOf(s)] = In(s, p)

LEMMA PlaceTypes ==
  /\ Idle \in Places
  /\ \A s \in Sessions : \A p \in PCs : In(s, p) \in Places
  /\ \A s \in Sessions : \A p : In(s, p) # Idle
  /\ \A s, t, p, q : In(s, p) = In(t, q) <=> s = t /\ p = q
  BY DEF Idle, In, Places, PCs, Sessions

(* Goes() keeps the type.                                                   *)
LEMMA GoesType ==
  ASSUME TypeOK, NEW s \in Sessions, NEW p \in PCs, Goes(s, p)
  PROVE  at' \in [Loops -> Places]
<1>1. LoopOf(s) \in Loops /\ at \in [Loops -> Places]
  BY LoopOfType DEF TypeOK, Places, PCs
<1>2. (IF p = "idle" THEN Idle ELSE In(s, p)) \in Places
  BY PlaceTypes
<1> QED BY <1>1, <1>2 DEF Goes

\* handleTimeout() goes on while sessions are left.
Stopping == base = "timeout" => stopped < sessionCount_

LEMMA TypeStep == TypeOK /\ Stopping /\ [Next]_vars => TypeOK' /\ Stopping'
<1> SUFFICES ASSUME TypeOK, Stopping, [Next]_vars PROVE TypeOK' /\ Stopping'
  OBVIOUS
<1> USE DEF Stopping, baseVars, countVars
<1>0. /\ at \in [Loops -> Places] /\ \A s \in Sessions : LoopOf(s) \in Loops
      /\ quits \in [Loops -> BOOLEAN] /\ Base \in Loops
      /\ conn \in [Sessions -> {"none", "connecting", "kConnecting", "kConnected",
                                "kDisconnecting", "kDisconnected"}]
  BY LoopOfType DEF TypeOK, Places, PCs, Base, Loops
<1>1. CASE StartSession
  BY <1>1 DEF StartSession, TypeOK, Sessions
<1>2. CASE EmplaceSession
  BY <1>2 DEF EmplaceSession, TypeOK
<1>3. CASE HandleTimeout
  BY <1>3 DEF HandleTimeout, TypeOK
<1>4. CASE StopSession
  <2>1. stopped + 1 \in Sessions
    BY <1>4 DEF StopSession, TypeOK, Sessions
  <2>2. stopped' \in 0..sessionCount_ /\ base' \in {"loop", "timeout"} /\ Stopping'
    BY <1>4 DEF StopSession, TypeOK
  <2>3. conn' \in [Sessions -> {"none", "connecting", "kConnecting", "kConnected",
                                "kDisconnecting", "kDisconnected"}]
    BY <1>0, <1>4, <2>1 DEF StopSession, Shutdown
  <2>4. missed' \subseteq Sessions
    BY <1>4, <2>1 DEF StopSession, TypeOK
  <2> QED BY <1>4, <2>2, <2>3, <2>4 DEF StopSession, TypeOK
<1>5. CASE LoopQuit
  BY <1>5 DEF LoopQuit, TypeOK
<1>6. ASSUME NEW s \in Sessions, NewConnection(s) PROVE TypeOK' /\ Stopping'
  <2>1. at' \in [Loops -> Places]
    BY <1>6, GoesType DEF NewConnection, PCs
  <2> QED BY <1>6, <2>1 DEF NewConnection, TypeOK, Places, PCs
<1>7. ASSUME NEW s \in Sessions, ConnectionEstablished(s) PROVE TypeOK' /\ Stopping'
  <2>1. at' \in [Loops -> Places]
    BY <1>7, GoesType DEF ConnectionEstablished, PCs
  <2> QED BY <1>7, <2>1 DEF ConnectionEstablished, TypeOK, Places, PCs
<1>8. ASSUME NEW s \in Sessions, OnConnection(s) PROVE TypeOK' /\ Stopping'
  <2>1. at' \in [Loops -> Places]
    BY <1>8, GoesType DEF OnConnection, PCs
  <2> QED BY <1>8, <2>1 DEF OnConnection, TypeOK, Places, PCs
<1>9. ASSUME NEW s \in Sessions, OnConnect(s) PROVE TypeOK' /\ Stopping'
  <2>1. at' \in [Loops -> Places]
    BY <1>9, GoesType DEF OnConnect, PCs
  <2>2. allUp' \in BOOLEAN /\ everUp' \in BOOLEAN
    BY <1>9 DEF OnConnect, TypeOK
  <2>3. numConnected_' \in Int
    BY <1>9 DEF OnConnect, TypeOK
  <2> QED BY <1>9, <2>1, <2>2, <2>3 DEF OnConnect, TypeOK, Places, PCs
<1>10. ASSUME NEW s \in Sessions, FetchSub(s) PROVE TypeOK' /\ Stopping'
  <2>1. at' \in [Loops -> Places]
    BY <1>10, GoesType DEF FetchSub, PCs
  <2> QED BY <1>10, <2>1 DEF FetchSub, TypeOK, Places, PCs
<1>11. ASSUME NEW s \in Sessions, Test(s) PROVE TypeOK' /\ Stopping'
  <2>1. at' \in [Loops -> Places]
    BY <1>11, GoesType DEF Test, PCs
  <2> QED BY <1>11, <2>1 DEF Test, TypeOK, Places, PCs
<1>12. ASSUME NEW s \in Sessions, Report(s) PROVE TypeOK' /\ Stopping'
  <2>1. at' \in [Loops -> Places]
    BY <1>12, GoesType DEF Report, PCs
  <2>2. quits' \in [Loops -> BOOLEAN]
    BY <1>0, <1>12 DEF Report
  <2> QED BY <1>12, <2>1, <2>2 DEF Report, TypeOK, Places, PCs
<1>13. ASSUME NEW s \in Sessions, OnMessage(s) PROVE TypeOK' /\ Stopping'
  <2>1. messagesRead_' \in [Sessions -> 0..MaxMessages]
    BY <1>13 DEF OnMessage, TypeOK
  <2> QED BY <1>13, <2>1 DEF OnMessage, TypeOK
<1>14. ASSUME NEW s \in Sessions, HandleClose(s) PROVE TypeOK' /\ Stopping'
  <2>1. at' \in [Loops -> Places]
    BY <1>14, GoesType DEF HandleClose, PCs
  <2> QED BY <1>14, <2>1 DEF HandleClose, TypeOK, Places, PCs
<1>15. ASSUME NEW l \in Loops, ClientQuit(l) PROVE TypeOK' /\ Stopping'
  <2>1. quits' \in [Loops -> BOOLEAN]
    BY <1>0, <1>15 DEF ClientQuit
  <2> QED BY <1>15, <2>1 DEF ClientQuit, TypeOK
<1>16. CASE UNCHANGED vars
  <2>1. UNCHANGED <<numThreads_, base, made, sessions_, stopped, conn, at>>
    BY <1>16 DEF vars
  <2>2. UNCHANGED <<numConnected_, messagesRead_, quits, allUp, everUp, missed, mistaken>>
    BY <1>16 DEF vars
  <2> QED BY <2>1, <2>2 DEF TypeOK
<1> QED BY <1>1, <1>2, <1>3, <1>4, <1>5, <1>6, <1>7, <1>8, <1>9, <1>10, <1>11,
           <1>12, <1>13, <1>14, <1>15, <1>16 DEF Next, BaseThread, Callback

LEMMA TypeInvariant == Spec => [](TypeOK /\ Stopping)
<1>1. Init => TypeOK /\ Stopping
  <2> SUFFICES ASSUME Init PROVE TypeOK /\ Stopping
    OBVIOUS
  <2>1. /\ at \in [Loops -> Places] /\ quits \in [Loops -> BOOLEAN]
        /\ allUp \in BOOLEAN /\ everUp \in BOOLEAN
    BY PlaceTypes DEF Init
  <2>2. /\ sessions_ \in 0..sessionCount_ /\ made \in {sessions_, sessions_ + 1}
        /\ made <= sessionCount_ /\ stopped \in 0..sessionCount_
        /\ messagesRead_ \in [Sessions -> 0..MaxMessages] /\ numConnected_ \in Int
    BY DEF Init
  <2> QED BY <2>1, <2>2 DEF Init, TypeOK, Stopping, Places, PCs
<1> QED BY <1>1, TypeStep, PTL DEF Spec

(* The client's state keeps its type; handleTimeout() in particular stays   *)
(* within the vector of sessions.                                           *)
THEOREM TypeCorrect == Spec => []TypeOK
  BY TypeInvariant, PTL
------------------------------------------------------------------------------
(* Counting.                                                                *)

\* Where a session is fits its connection's state, as long as no callback was
\* mistaken.
AtFits(s) ==
  /\ s > made => conn[s] = "none"
  /\ conn[s] = "kConnecting" <=> Where(s, "establish")
  /\ Where(s, "callback") => conn[s] \in {"kConnected", "kDisconnecting", "kDisconnected"}
  /\ Where(s, "add") => conn[s] \in {"kConnected", "kDisconnecting"}
  /\ Where(s, "subtract") \/ Where(s, "test") \/ Where(s, "report")
       => conn[s] = "kDisconnected"

\* The session has been counted up, and not down again.
Up(s) ==
  \/ /\ conn[s] \in {"kConnected", "kDisconnecting"}
     /\ ~Where(s, "callback") /\ ~Where(s, "add")
  \/ /\ conn[s] = "kDisconnected"
     /\ Where(s, "callback") \/ Where(s, "subtract")

Counted == {s \in Sessions : Up(s)}

\* A session has seen zero, or is about to look.
Seen == \E s \in Sessions : Where(s, "test") \/ Where(s, "report")

\* numConnected_ is exact; once all were up none comes up again, and so what
\* is reported after that is reported of sessions that are all down.
Exact ==
  /\ \A s \in Sessions : AtFits(s)
  /\ numConnected_ = Cardinality(Counted)
  /\ allUp => \A s \in Sessions : Up(s) \/ conn[s] = "kDisconnected"
  /\ everUp /\ numConnected_ = 0 => reports # {} \/ Seen
  /\ \A s \in Sessions : allUp /\ Where(s, "report") => numConnected_ = 0
  /\ \A r \in reports : r.allUp => /\ allUp /\ numConnected_ = 0
                                   /\ ~r.raced => r.total = Total(messagesRead_)

Counting == mistaken = {} => Exact

(* The set is finite and at most as large as there are sessions.            *)
LEMMA CountedFinite ==
  /\ IsFiniteSet(Counted) /\ Cardinality(Counted) \in Nat
  /\ Cardinality(Counted) = 0 <=> Counted = {}
  /\ Cardinality(Counted) = sessionCount_ => Counted = Sessions
<1>1. /\ IsFiniteSet(Sessions) /\ Cardinality(Sessions) = sessionCount_
  BY FS_Interval DEF Sessions
<1>2. Counted \in SUBSET Sessions
  BY DEF Counted
<1>3. /\ IsFiniteSet(Counted)
      /\ Cardinality(Sessions) = Cardinality(Counted) => Sessions = Counted
  BY <1>1, <1>2, FS_Subset
<1> QED BY <1>1, <1>3, FS_CardinalityType, FS_EmptySet

(* All were up, and the counter is zero: all are down.                      *)
LEMMA AllDown ==
  ASSUME Exact, allUp, numConnected_ = 0
  PROVE  \A s \in Sessions : conn[s] = "kDisconnected" /\ ~Up(s)
<1>1. Counted = {}
  BY CountedFinite DEF Exact
<1>2. \A s \in Sessions : ~Up(s)
  BY <1>1 DEF Counted
<1> QED BY <1>2 DEF Exact

(* The callback of session x goes on: the places of the others stay.        *)
LEMMA PlacesStay ==
  ASSUME TypeOK, numThreads_' = numThreads_, NEW x \in Sessions, NEW q \in PCs,
         at[LoopOf(x)] = Idle \/ (\E p \in PCs : at[LoopOf(x)] = In(x, p)),
         Goes(x, q)
  PROVE  /\ \A s \in Sessions \ {x} : \A p : Where(s, p)' <=> Where(s, p)
         /\ \A p : Where(x, p)' <=> q # "idle" /\ p = q
<1>1. \A s \in Sessions : LoopOf(s)' = LoopOf(s)
  BY DEF LoopOf
<1>2. /\ LoopOf(x) \in Loops /\ DOMAIN at = Loops
      /\ at' = [at EXCEPT ![LoopOf(x)] = IF q = "idle" THEN Idle ELSE In(x, q)]
  BY LoopOfType DEF TypeOK, Goes
<1>3. ASSUME NEW s \in Sessions \ {x}, NEW p PROVE Where(s, p)' <=> Where(s, p)
  <2>1. LoopOf(s) \in Loops
    BY LoopOfType DEF TypeOK
  <2>2. CASE LoopOf(s) # LoopOf(x)
    BY <1>1, <1>2, <2>1, <2>2 DEF Where
  <2>3. CASE LoopOf(s) = LoopOf(x)
    BY <1>1, <1>2, <2>3, PlaceTypes DEF Where
  <2> QED BY <2>2, <2>3
<1>4. ASSUME NEW p PROVE Where(x, p)' <=> q # "idle" /\ p = q
  BY <1>1, <1>2, PlaceTypes DEF Where
<1> QED BY <1>3, <1>4

(* A step that counts nobody and reports nothing.                           *)
LEMMA QuietStep ==
  ASSUME Exact, UNCHANGED countVars,
         \A s \in Sessions : AtFits(s)',
         \A s \in Sessions : Up(s)' <=> Up(s),
         \A s \in Sessions : conn[s] = "kDisconnected" => conn'[s] = "kDisconnected",
         \A s \in Sessions : /\ Where(s, "test")' <=> Where(s, "test")
                             /\ Where(s, "report")' <=> Where(s, "report"),
         (\A s \in Sessions : conn[s] = "kDisconnected") => UNCHANGED messagesRead_
  PROVE  Exact'
<1>1. /\ numConnected_' = numConnected_ /\ allUp' = allUp /\ everUp' = everUp
      /\ reports' = reports
  BY DEF countVars
<1>2. Counted' = Counted
  BY DEF Counted
<1>3. numConnected_' = Cardinality(Counted)'
  <2>1. Cardinality(Counted)' = Cardinality(Counted')
    BY DEF Counted
  <2> QED BY <1>1, <1>2, <2>1 DEF Exact
<1>4. allUp' => \A s \in Sessions : Up(s)' \/ conn'[s] = "kDisconnected"
  BY <1>1 DEF Exact
<1>5. everUp' /\ numConnected_' = 0 => reports' # {} \/ Seen'
  BY <1>1 DEF Exact, Seen
<1>6. \A s \in Sessions : allUp' /\ Where(s, "report")' => numConnected_' = 0
  BY <1>1 DEF Exact
<1>7. ASSUME NEW r \in reports', r.allUp
      PROVE  allUp' /\ numConnected_' = 0 /\ (~r.raced => r.total = Total(messagesRead_'))
  <2>1. allUp /\ numConnected_ = 0 /\ (~r.raced => r.total = Total(messagesRead_))
    BY <1>1, <1>7 DEF Exact
  <2>2. messagesRead_' = messagesRead_
    BY <2>1, AllDown
  <2> QED BY <1>1, <2>1, <2>2
<1>8. \A r \in reports' : r.allUp => /\ allUp' /\ numConnected_' = 0
                                     /\ ~r.raced => r.total = Total(messagesRead_)'
  BY <1>7
<1> QED BY <1>3, <1>4, <1>5, <1>6, <1>8 DEF Exact

(* A step of the base thread, a message or a quit: no callback moves, and   *)
(* no connection changes but by connect() or shutdown().                    *)
LEMMA PlacesSame ==
  ASSUME TypeOK, Exact, UNCHANGED <<numThreads_, at, numConnected_, allUp, everUp, reports>>,
         made' \in Int, made' >= made,
         \A s \in Sessions :
            \/ conn'[s] = conn[s] /\ (s > made' => s > made)
            \/ conn[s] = "kConnected" /\ conn'[s] = "kDisconnecting" /\ made' = made
            \/ conn[s] = "none" /\ conn'[s] = "connecting" /\ s <= made',
         (\A s \in Sessions : conn[s] = "kDisconnected") => UNCHANGED messagesRead_
  PROVE  Exact'
<1>1. \A s \in Sessions : \A p : Where(s, p)' <=> Where(s, p)
  BY DEF Where, LoopOf
<1>2. ASSUME NEW s \in Sessions PROVE AtFits(s)' /\ (Up(s)' <=> Up(s))
  <2>1. /\ Where(s, "establish")' <=> Where(s, "establish")
        /\ Where(s, "callback")' <=> Where(s, "callback")
        /\ Where(s, "add")' <=> Where(s, "add")
        /\ Where(s, "subtract")' <=> Where(s, "subtract")
        /\ Where(s, "test")' <=> Where(s, "test")
        /\ Where(s, "report")' <=> Where(s, "report")
    BY <1>1
  <2>2. AtFits(s) /\ s \in Int /\ made \in Int
    BY DEF Exact, TypeOK, Sessions
  <2>3. CASE conn'[s] = conn[s] /\ (s > made' => s > made)
    BY <2>1, <2>2, <2>3 DEF AtFits, Up
  <2>4. CASE conn[s] = "kConnected" /\ conn'[s] = "kDisconnecting" /\ made' = made
    BY <2>1, <2>2, <2>4 DEF AtFits, Up
  <2>5. CASE conn[s] = "none" /\ conn'[s] = "connecting" /\ s <= made'
    <3>1. ~ (s > made')
      BY <2>2, <2>5
    <3> QED BY <2>1, <2>2, <2>5, <3>1 DEF AtFits, Up
  <2> QED BY <2>3, <2>4, <2>5
<1>3. UNCHANGED countVars
  BY DEF countVars
<1>4. \A s \in Sessions : conn[s] = "kDisconnected" => conn'[s] = "kDisconnected"
  OBVIOUS
<1> QED BY <1>1, <1>2, <1>3, <1>4, QuietStep

(* The steps in which the callback of x moves, or comes to be.              *)
LEMMA SessionStep ==
  ASSUME TypeOK, Exact, NEW x \in Sessions, NEW q \in PCs,
         UNCHANGED <<numThreads_, made>>,
         at[LoopOf(x)] = Idle \/ (\E p \in PCs : at[LoopOf(x)] = In(x, p)),
         Goes(x, q), \A s \in Sessions \ {x} : conn'[s] = conn[s]
  PROVE  /\ \A s \in Sessions \ {x} : AtFits(s)' /\ (Up(s)' <=> Up(s))
         /\ \A s \in Sessions \ {x} : /\ Where(s, "test")' <=> Where(s, "test")
                                      /\ Where(s, "report")' <=> Where(s, "report")
         /\ \A p : Where(x, p)' <=> q # "idle" /\ p = q
<1>1. /\ \A s \in Sessions \ {x} : \A p : Where(s, p)' <=> Where(s, p)
      /\ \A p : Where(x, p)' <=> q # "idle" /\ p = q
  BY PlacesStay
<1>2. ASSUME NEW s \in Sessions \ {x} PROVE AtFits(s)' /\ (Up(s)' <=> Up(s))
  <2>1. /\ Where(s, "establish")' <=> Where(s, "establish")
        /\ Where(s, "callback")' <=> Where(s, "callback")
        /\ Where(s, "add")' <=> Where(s, "add")
        /\ Where(s, "subtract")' <=> Where(s, "subtract")
        /\ Where(s, "test")' <=> Where(s, "test")
        /\ Where(s, "report")' <=> Where(s, "report")
    BY <1>1
  <2>2. AtFits(s)
    BY DEF Exact
  <2> QED BY <2>1, <2>2 DEF AtFits, Up
<1> QED BY <1>1, <1>2

(* Coming up, going down, and asking connected().                           *)
LEMMA MoveStep ==
  ASSUME TypeOK, Exact, NEW x \in Sessions, mistaken' = {},
         \/ NewConnection(x) \/ ConnectionEstablished(x)
         \/ OnConnection(x) \/ HandleClose(x)
  PROVE  Exact'
<1>0. AtFits(x) /\ conn \in [Sessions -> {"none", "connecting", "kConnecting",
                       "kConnected", "kDisconnecting", "kDisconnected"}]
  BY DEF Exact, TypeOK
<1>1. /\ UNCHANGED <<numThreads_, made, messagesRead_>> /\ UNCHANGED countVars
      /\ \A s \in Sessions \ {x} : conn'[s] = conn[s]
  BY <1>0 DEF NewConnection, ConnectionEstablished, OnConnection, HandleClose, baseVars
<1>2. CASE NewConnection(x)
  <2>1. /\ at[LoopOf(x)] = Idle /\ Goes(x, "establish") /\ "establish" \in PCs
        /\ conn[x] = "connecting" /\ conn'[x] = "kConnecting"
    BY <1>0, <1>2 DEF NewConnection, Free, PCs
  <2>2. /\ \A s \in Sessions \ {x} : AtFits(s)' /\ (Up(s)' <=> Up(s))
        /\ \A s \in Sessions \ {x} : /\ Where(s, "test")' <=> Where(s, "test")
                                     /\ Where(s, "report")' <=> Where(s, "report")
        /\ \A p : Where(x, p)' <=> p = "establish"
    BY <1>1, <2>1, SessionStep
  <2>3. \A p : ~Where(x, p)
    BY <2>1, PlaceTypes DEF Where
  <2>4. AtFits(x)' /\ (Up(x)' <=> Up(x))
    BY <1>0, <1>1, <2>1, <2>2, <2>3 DEF AtFits, Up
  <2> QED BY <1>1, <2>1, <2>2, <2>3, <2>4, QuietStep
<1>3. CASE ConnectionEstablished(x)
  <2>1. /\ Where(x, "establish") /\ Goes(x, "callback")
        /\ "callback" \in PCs /\ "establish" \in PCs /\ conn'[x] = "kConnected"
    BY <1>0, <1>3 DEF ConnectionEstablished, Where, PCs
  <2>2. /\ \A s \in Sessions \ {x} : AtFits(s)' /\ (Up(s)' <=> Up(s))
        /\ \A s \in Sessions \ {x} : /\ Where(s, "test")' <=> Where(s, "test")
                                     /\ Where(s, "report")' <=> Where(s, "report")
        /\ \A p : Where(x, p)' <=> p = "callback"
    BY <1>1, <2>1, SessionStep DEF Where
  <2>3. \A p : Where(x, p) <=> p = "establish"
    BY <2>1, PlaceTypes DEF Where
  <2>4. conn[x] = "kConnecting"
    BY <1>0, <2>1 DEF AtFits
  <2>5. AtFits(x)' /\ (Up(x)' <=> Up(x))
    BY <1>0, <1>1, <2>1, <2>2, <2>3, <2>4 DEF AtFits, Up
  <2> QED BY <1>1, <2>1, <2>2, <2>3, <2>4, <2>5, QuietStep
<1>4. CASE OnConnection(x)
  <2> DEFINE t == IF conn[x] = "kConnected" THEN "add" ELSE "subtract"
  <2>1. /\ Where(x, "callback") /\ Goes(x, t) /\ t \in PCs /\ "callback" \in PCs
        /\ conn'[x] = conn[x] /\ conn[x] # "kDisconnecting"
    BY <1>4 DEF OnConnection, Where, PCs
  <2>2. /\ \A s \in Sessions \ {x} : AtFits(s)' /\ (Up(s)' <=> Up(s))
        /\ \A s \in Sessions \ {x} : /\ Where(s, "test")' <=> Where(s, "test")
                                     /\ Where(s, "report")' <=> Where(s, "report")
        /\ \A p : Where(x, p)' <=> t # "idle" /\ p = t
    BY <1>1, <2>1, SessionStep DEF Where
  <2>3. \A p : Where(x, p) <=> p = "callback"
    BY <2>1, PlaceTypes DEF Where
  <2>4. conn[x] \in {"kConnected", "kDisconnected"}
    BY <1>0, <2>1 DEF AtFits
  <2>5. AtFits(x)' /\ (Up(x)' <=> Up(x))
    BY <1>0, <1>1, <2>1, <2>2, <2>3, <2>4 DEF AtFits, Up
  <2> QED BY <1>1, <2>1, <2>2, <2>3, <2>5, QuietStep
<1>5. CASE HandleClose(x)
  <2>1. /\ at[LoopOf(x)] = Idle /\ Goes(x, "callback") /\ "callback" \in PCs
        /\ conn[x] \in {"kConnected", "kDisconnecting"} /\ conn'[x] = "kDisconnected"
    BY <1>0, <1>5 DEF HandleClose, Free, PCs
  <2>2. /\ \A s \in Sessions \ {x} : AtFits(s)' /\ (Up(s)' <=> Up(s))
        /\ \A s \in Sessions \ {x} : /\ Where(s, "test")' <=> Where(s, "test")
                                     /\ Where(s, "report")' <=> Where(s, "report")
        /\ \A p : Where(x, p)' <=> p = "callback"
    BY <1>1, <2>1, SessionStep
  <2>3. \A p : ~Where(x, p)
    BY <2>1, PlaceTypes DEF Where
  <2>4. AtFits(x)' /\ (Up(x)' <=> Up(x))
    BY <1>0, <1>1, <2>1, <2>2, <2>3 DEF AtFits, Up
  <2> QED BY <1>1, <2>1, <2>2, <2>3, <2>4, QuietStep
<1> QED BY <1>2, <1>3, <1>4, <1>5

(* onConnect() counts x up: it was not counted, so not all had been up.     *)
LEMMA OnConnectStep ==
  ASSUME TypeOK, Exact, NEW x \in Sessions, OnConnect(x)
  PROVE  Exact'
<1>0. AtFits(x) /\ numConnected_ = Cardinality(Counted) /\ numConnected_ \in Nat
  BY CountedFinite DEF Exact
<1>1. /\ UNCHANGED <<numThreads_, made, conn, messagesRead_, reports>>
      /\ numConnected_' = numConnected_ + 1 /\ everUp'
      /\ allUp' <=> (allUp \/ numConnected_' = sessionCount_)
      /\ Where(x, "add") /\ Goes(x, "idle") /\ "idle" \in PCs /\ "add" \in PCs
  BY DEF OnConnect, baseVars, Where, PCs
<1>2. /\ \A s \in Sessions \ {x} : AtFits(s)' /\ (Up(s)' <=> Up(s))
      /\ \A s \in Sessions \ {x} : /\ Where(s, "test")' <=> Where(s, "test")
                                   /\ Where(s, "report")' <=> Where(s, "report")
      /\ \A p : ~Where(x, p)'
  BY <1>1, SessionStep DEF Where
<1>3. \A p : Where(x, p) <=> p = "add"
  BY <1>1, PlaceTypes DEF Where
<1>4. conn[x] \in {"kConnected", "kDisconnecting"} /\ ~Up(x) /\ ~allUp
  BY <1>0, <1>3 DEF AtFits, Up, Exact
<1>5. AtFits(x)' /\ Up(x)'
  BY <1>0, <1>1, <1>2, <1>4 DEF AtFits, Up
<1>6. Counted' = Counted \cup {x} /\ x \notin Counted
  BY <1>2, <1>4, <1>5 DEF Counted
<1>7. numConnected_' = Cardinality(Counted')
  BY <1>0, <1>1, <1>6, CountedFinite, FS_AddElement
<1>8. Cardinality(Counted') = sessionCount_ => Counted' = Sessions
  <2>1. /\ IsFiniteSet(Sessions) /\ Cardinality(Sessions) = sessionCount_
    BY FS_Interval DEF Sessions
  <2>2. Counted' \in SUBSET Sessions
    BY DEF Counted
  <2> QED BY <2>1, <2>2, FS_Subset
<1>9. allUp' => \A s \in Sessions : Up(s)'
  BY <1>1, <1>4, <1>7, <1>8 DEF Counted
<1>10. \A s \in Sessions : ~ (allUp' /\ Where(s, "report")')
  <2> SUFFICES ASSUME NEW s \in Sessions, allUp', Where(s, "report")' PROVE FALSE
    OBVIOUS
  <2>1. s # x /\ Where(s, "report") /\ Up(s)
    BY <1>2, <1>9
  <2>2. conn[s] = "kDisconnected" /\ AtFits(s)
    BY <2>1 DEF Exact, AtFits
  <2>3. Where(s, "callback") \/ Where(s, "subtract")
    BY <2>1, <2>2 DEF Up
  <2> QED BY <2>1, <2>3, PlaceTypes DEF Where
<1>11. \A r \in reports' : ~r.allUp
  BY <1>1, <1>4 DEF Exact
<1>12. numConnected_' # 0
  BY <1>0, <1>1
<1>13. numConnected_' = Cardinality(Counted)'
  BY <1>7
<1>14. \A s \in Sessions : AtFits(s)'
  BY <1>2, <1>5
<1> QED BY <1>9, <1>10, <1>11, <1>12, <1>13, <1>14 DEF Exact

(* onDisconnect() counts x down, and x will look at the counter.            *)
LEMMA FetchSubStep ==
  ASSUME TypeOK, Exact, NEW x \in Sessions, FetchSub(x)
  PROVE  Exact'
<1>0. AtFits(x) /\ numConnected_ = Cardinality(Counted) /\ numConnected_ \in Nat
  BY CountedFinite DEF Exact
<1>1. /\ UNCHANGED <<numThreads_, made, conn, messagesRead_, reports, allUp>>
      /\ numConnected_' = numConnected_ - 1
      /\ Where(x, "subtract") /\ Goes(x, "test") /\ "test" \in PCs /\ "subtract" \in PCs
  BY DEF FetchSub, baseVars, Where, PCs
<1>2. /\ \A s \in Sessions \ {x} : AtFits(s)' /\ (Up(s)' <=> Up(s))
      /\ \A s \in Sessions \ {x} : /\ Where(s, "test")' <=> Where(s, "test")
                                   /\ Where(s, "report")' <=> Where(s, "report")
      /\ \A p : Where(x, p)' <=> p = "test"
  BY <1>1, SessionStep DEF Where
<1>3. conn[x] = "kDisconnected" /\ Up(x)
  BY <1>0, <1>1 DEF AtFits, Up
<1>4. AtFits(x)' /\ ~Up(x)' /\ conn'[x] = "kDisconnected"
  BY <1>0, <1>1, <1>2, <1>3 DEF AtFits, Up
<1>5. Counted' = Counted \ {x} /\ x \in Counted
  BY <1>2, <1>3, <1>4 DEF Counted
<1>6. numConnected_' = Cardinality(Counted')
  BY <1>0, <1>1, <1>5, CountedFinite, FS_RemoveElement
<1>7. numConnected_ # 0
  BY <1>0, <1>5, CountedFinite
<1>8. allUp' => \A s \in Sessions : Up(s)' \/ conn'[s] = "kDisconnected"
  BY <1>1, <1>2, <1>4 DEF Exact
<1>9. \A s \in Sessions : ~ (allUp' /\ Where(s, "report")')
  BY <1>1, <1>2, <1>7 DEF Exact
<1>10. \A r \in reports' : ~r.allUp
  BY <1>1, <1>7 DEF Exact
<1>11. Seen'
  BY <1>2 DEF Seen
<1>12. numConnected_' = Cardinality(Counted)'
  BY <1>6
<1>13. \A s \in Sessions : AtFits(s)'
  BY <1>2, <1>4
<1> QED BY <1>8, <1>9, <1>10, <1>11, <1>12, <1>13 DEF Exact

(* The test of the counter.                                                 *)
LEMMA TestStep ==
  ASSUME TypeOK, Exact, NEW x \in Sessions, Test(x)
  PROVE  Exact'
<1> DEFINE q == IF numConnected_ = 0 THEN "report" ELSE "idle"
<1>0. AtFits(x)
  BY DEF Exact
<1>1. /\ UNCHANGED <<numThreads_, made, conn, messagesRead_>>
      /\ UNCHANGED <<numConnected_, allUp, everUp, reports>>
      /\ Where(x, "test") /\ Goes(x, q) /\ q \in PCs /\ "test" \in PCs
  BY DEF Test, AllDisconnected, baseVars, countVars, Where, PCs
<1>2. /\ \A s \in Sessions \ {x} : AtFits(s)' /\ (Up(s)' <=> Up(s))
      /\ \A s \in Sessions \ {x} : /\ Where(s, "test")' <=> Where(s, "test")
                                   /\ Where(s, "report")' <=> Where(s, "report")
      /\ \A p : Where(x, p)' <=> q # "idle" /\ p = q
  BY <1>1, SessionStep DEF Where
<1>3. conn[x] = "kDisconnected" /\ ~Up(x)
  <2>1. conn[x] = "kDisconnected"
    BY <1>0, <1>1 DEF AtFits
  <2>2. ~Where(x, "callback") /\ ~Where(x, "subtract")
    BY <1>1, PlaceTypes DEF Where
  <2> QED BY <2>1, <2>2 DEF Up
<1>4. AtFits(x)' /\ ~Up(x)'
  BY <1>0, <1>1, <1>2, <1>3 DEF AtFits, Up
<1>5. Counted' = Counted
  BY <1>2, <1>3, <1>4 DEF Counted
<1>6. Cardinality(Counted)' = Cardinality(Counted)
  <2>1. Cardinality(Counted)' = Cardinality(Counted')
    OBVIOUS
  <2> QED BY <1>5, <2>1
<1>7. allUp' => \A s \in Sessions : Up(s)' \/ conn'[s] = "kDisconnected"
  BY <1>1, <1>2, <1>3 DEF Exact
<1>8. \A s \in Sessions : allUp' /\ Where(s, "report")' => numConnected_' = 0
  BY <1>1, <1>2 DEF Exact
<1>9. numConnected_' = 0 => Seen'
  BY <1>1, <1>2 DEF Seen
<1>10. \A s \in Sessions : AtFits(s)'
  BY <1>2, <1>4
<1>11. Total(messagesRead_)' = Total(messagesRead_)
  <2>1. Total(messagesRead_)' = Total(messagesRead_')
    OBVIOUS
  <2> QED BY <1>1, <2>1
<1>12. \A r \in reports' : r.allUp => /\ allUp' /\ numConnected_' = 0
                                      /\ ~r.raced => r.total = Total(messagesRead_)'
  BY <1>1, <1>11 DEF Exact
<1>13. numConnected_' = Cardinality(Counted)'
  BY <1>1, <1>6 DEF Exact
<1> QED BY <1>7, <1>8, <1>9, <1>10, <1>12, <1>13 DEF Exact

(* The report.                                                              *)
LEMMA ReportStep ==
  ASSUME TypeOK, Exact, NEW x \in Sessions, Report(x)
  PROVE  Exact'
<1> DEFINE new == [allUp |-> allUp, raced |-> base = "construct",
                   total |-> IF base = "construct" THEN -1 ELSE Total(messagesRead_)]
<1>0. AtFits(x)
  BY DEF Exact
<1>1. /\ UNCHANGED <<numThreads_, made, conn, messagesRead_>>
      /\ UNCHANGED <<numConnected_, allUp, everUp>> /\ reports' = reports \cup {new}
      /\ Where(x, "report") /\ Goes(x, "idle") /\ "idle" \in PCs /\ "report" \in PCs
  BY DEF Report, baseVars, Where, PCs
<1>2. /\ \A s \in Sessions \ {x} : AtFits(s)' /\ (Up(s)' <=> Up(s))
      /\ \A s \in Sessions \ {x} : /\ Where(s, "test")' <=> Where(s, "test")
                                   /\ Where(s, "report")' <=> Where(s, "report")
      /\ \A p : ~Where(x, p)'
  BY <1>1, SessionStep DEF Where
<1>3. conn[x] = "kDisconnected" /\ ~Up(x)
  <2>1. conn[x] = "kDisconnected"
    BY <1>0, <1>1 DEF AtFits
  <2>2. ~Where(x, "callback") /\ ~Where(x, "subtract")
    BY <1>1, PlaceTypes DEF Where
  <2> QED BY <2>1, <2>2 DEF Up
<1>4. AtFits(x)' /\ ~Up(x)'
  BY <1>0, <1>1, <1>2, <1>3 DEF AtFits, Up
<1>5. Counted' = Counted
  BY <1>2, <1>3, <1>4 DEF Counted
<1>6. Cardinality(Counted)' = Cardinality(Counted)
  <2>1. Cardinality(Counted)' = Cardinality(Counted')
    OBVIOUS
  <2> QED BY <1>5, <2>1
<1>7. allUp' => \A s \in Sessions : Up(s)' \/ conn'[s] = "kDisconnected"
  BY <1>1, <1>2, <1>3 DEF Exact
<1>8. \A s \in Sessions : allUp' /\ Where(s, "report")' => numConnected_' = 0
  BY <1>1, <1>2 DEF Exact
<1>9. reports' # {}
  BY <1>1
<1>10. \A s \in Sessions : AtFits(s)'
  BY <1>2, <1>4
<1>11. Total(messagesRead_)' = Total(messagesRead_)
  <2>1. Total(messagesRead_)' = Total(messagesRead_')
    OBVIOUS
  <2> QED BY <1>1, <2>1
<1>12. /\ new.allUp <=> allUp
       /\ ~new.raced => new.total = Total(messagesRead_)
  OBVIOUS
<1> HIDE DEF new
<1>13. \A r \in reports' : r.allUp => /\ allUp' /\ numConnected_' = 0
                                      /\ ~r.raced => r.total = Total(messagesRead_)'
  <2> SUFFICES ASSUME NEW r \in reports', r.allUp
               PROVE  /\ allUp /\ numConnected_ = 0
                      /\ ~r.raced => r.total = Total(messagesRead_)
    BY <1>1, <1>11
  <2>1. CASE r \in reports
    BY <2>1 DEF Exact
  <2>2. CASE r = new
    BY <1>1, <1>12, <2>2 DEF Exact
  <2> QED BY <1>1, <2>1, <2>2
<1>14. numConnected_' = Cardinality(Counted)'
  BY <1>1, <1>6 DEF Exact
<1> QED BY <1>7, <1>8, <1>9, <1>10, <1>13, <1>14 DEF Exact

LEMMA CountingStep == TypeOK /\ Stopping /\ Counting /\ [Next]_vars => Counting'
<1> SUFFICES ASSUME TypeOK, Stopping, Counting, [Next]_vars, mistaken' = {}
             PROVE  Exact'
  BY DEF Counting
<1>0. /\ mistaken \subseteq mistaken'
      /\ conn \in [Sessions -> {"none", "connecting", "kConnecting", "kConnected",
                                "kDisconnecting", "kDisconnected"}]
      /\ made \in Int
  BY DEF TypeOK, Next, vars, BaseThread, StartSession, EmplaceSession, StopSession,
     LoopQuit, HandleTimeout, NewConnection, Callback, ConnectionEstablished,
     OnConnection, OnConnect, FetchSub, Test, Report, OnMessage, HandleClose,
     ClientQuit
<1>e. Exact
  BY <1>0 DEF Counting
<1> USE DEF baseVars, countVars
<1>1. CASE StartSession
  <2>1. /\ UNCHANGED <<numThreads_, at, numConnected_, allUp, everUp, reports>>
        /\ made' = made + 1 /\ UNCHANGED messagesRead_ /\ made + 1 \in Sessions
        /\ conn' = [conn EXCEPT ![made + 1] = "connecting"]
    BY <1>1 DEF StartSession, TypeOK, Sessions
  <2>2. conn[made + 1] = "none"
    BY <1>0, <1>e, <2>1 DEF Exact, AtFits
  <2>3. \A s \in Sessions :
          \/ conn'[s] = conn[s] /\ (s > made' => s > made)
          \/ conn[s] = "none" /\ conn'[s] = "connecting" /\ s <= made'
    BY <1>0, <2>1, <2>2 DEF Sessions
  <2>4. made' \in Int /\ made' >= made
    BY <1>0, <2>1
  <2> QED BY <1>e, <2>1, <2>3, <2>4, PlacesSame
<1>2. CASE EmplaceSession \/ HandleTimeout \/ LoopQuit \/ (\E l \in Loops : ClientQuit(l))
           \/ UNCHANGED vars
  <2>1. /\ UNCHANGED <<numThreads_, at, numConnected_, allUp, everUp, reports>>
        /\ UNCHANGED <<made, conn, messagesRead_>>
    BY <1>2 DEF EmplaceSession, HandleTimeout, LoopQuit, ClientQuit, vars
  <2>2. made' \in Int /\ made' >= made
    BY <1>0, <2>1
  <2> QED BY <1>e, <2>1, <2>2, PlacesSame
<1>3. CASE StopSession
  <2>1. /\ UNCHANGED <<numThreads_, at, numConnected_, allUp, everUp, reports>>
        /\ UNCHANGED <<made, messagesRead_>> /\ stopped + 1 \in Sessions
        /\ conn' = [conn EXCEPT ![stopped + 1] = Shutdown(@)]
    BY <1>3 DEF StopSession, TypeOK, Stopping, Sessions
  <2>2. \A s \in Sessions :
          \/ conn'[s] = conn[s] /\ (s > made' => s > made)
          \/ conn[s] = "kConnected" /\ conn'[s] = "kDisconnecting" /\ made' = made
    BY <1>0, <2>1 DEF Shutdown
  <2>3. made' \in Int /\ made' >= made
    BY <1>0, <2>1
  <2> QED BY <1>e, <2>1, <2>2, <2>3, PlacesSame
<1>4. ASSUME NEW s \in Sessions, OnMessage(s) PROVE Exact'
  <2>1. /\ UNCHANGED <<numThreads_, at, numConnected_, allUp, everUp, reports>>
        /\ UNCHANGED <<made, conn>> /\ conn[s] \in {"kConnected", "kDisconnecting"}
    BY <1>4 DEF OnMessage
  <2>2. made' \in Int /\ made' >= made
    BY <1>0, <2>1
  <2> QED BY <1>e, <2>1, <2>2, PlacesSame
<1>5. ASSUME NEW s \in Sessions,
             \/ NewConnection(s) \/ ConnectionEstablished(s)
             \/ OnConnection(s) \/ HandleClose(s)
      PROVE  Exact'
  BY <1>e, <1>5, MoveStep
<1>6. ASSUME NEW s \in Sessions, OnConnect(s) \/ FetchSub(s) \/ Test(s) \/ Report(s)
      PROVE  Exact'
  BY <1>e, <1>6, OnConnectStep, FetchSubStep, TestStep, ReportStep
<1> QED BY <1>1, <1>2, <1>3, <1>4, <1>5, <1>6 DEF Next, BaseThread, Callback

LEMMA CountingInvariant == Spec => []Counting
<1>1. Init => Counting
  <2> SUFFICES ASSUME Init PROVE Exact
    BY DEF Counting
  <2>1. /\ made = 0 /\ conn = [s \in Sessions |-> "none"]
        /\ at = [l \in Loops |-> Idle] /\ numConnected_ = 0
        /\ reports = {} /\ allUp = FALSE /\ everUp = FALSE
        /\ \A s \in Sessions : LoopOf(s) \in Loops
    BY LoopOfType DEF Init
  <2>2. \A s \in Sessions : \A p : ~Where(s, p)
    BY <2>1, PlaceTypes DEF Where
  <2>3. \A s \in Sessions : AtFits(s) /\ ~Up(s)
    BY <2>1, <2>2 DEF AtFits, Up
  <2>4. Counted = {}
    BY <2>3 DEF Counted
  <2> QED BY <2>1, <2>2, <2>3, <2>4, FS_EmptySet DEF Exact
<1> QED BY <1>1, CountingStep, TypeInvariant, PTL DEF Spec

(* Until a callback is mistaken, whoever is the last to go down reports,    *)
(* although each session counts down and reads the counter in two steps,    *)
(* and a total reported after all were up counts every message, whichever   *)
(* loops the sessions are on: onConnect() and onDisconnect().               *)
THEOREM ReportAlwaysRight == Spec => []ReportRight
<1>1. TypeOK /\ Counting => ReportRight
  <2> SUFFICES ASSUME TypeOK, Counting, mistaken = {} PROVE ReportRight
    BY DEF ReportRight, LastOneReports, TotalsExact
  <2>0. Exact
    BY DEF Counting
  <2>1. LastOneReports
    <3> SUFFICES ASSUME everUp, numConnected_ = 0, \A l \in Loops : at[l] = Idle
                 PROVE  reports # {}
      BY DEF LastOneReports
    <3>1. \A s \in Sessions : \A p : ~Where(s, p)
      BY LoopOfType, PlaceTypes DEF Where, TypeOK
    <3> QED BY <2>0, <3>1 DEF Exact, Seen
  <2>2. TotalsExact
    BY <2>0 DEF Exact, TotalsExact
  <2> QED BY <2>1, <2>2 DEF ReportRight
<1> QED BY <1>1, CountingInvariant, TypeInvariant, PTL
==============================================================================
