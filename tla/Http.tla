-------------------------------- MODULE Http --------------------------------
(* lib/protocols/http.c and cgi.c: requests and responses, as they are     *)
(* written and as they are read again, through lib/tokenizer.c, from a     *)
(* stream that arrives in portions; the head of a script's output. Words   *)
(* are a member or two long, and the buffers for them long enough.         *)
EXTENDS Integers, Sequences, SequencesExt, FiniteSetsExt

RECURSIVE ReadUntil(_, _, _), RequestHeaders(_, _), ResponseHeaders(_, _), GetAll(_, _, _), HeadLines(_, _, _)

CRLF == <<"\r", "\n">>
EOF == "EOF"
-----------------------------------------------------------------------------
(* A tokenizer: what it has looked ahead at, the portions that are still   *)
(* to come, whether all that was to be there was, and what was read last.  *)
New(portions) == [cache |-> <<>>, rest |-> portions, ok |-> TRUE, text |-> <<>>]

(* One read, which returns no more than what has arrived.                  *)
Prefetch(b, n) ==
  LET want == n - Len(b.cache)
      p == b.rest[1]
  IN  IF want <= 0 \/ b.rest = <<>> THEN b
      ELSE IF Len(p) <= want THEN [b EXCEPT !.cache = @ \o p, !.rest = Tail(@)]
      ELSE [b EXCEPT !.cache = @ \o SubSeq(p, 1, want), !.rest = <<SubSeq(p, want + 1, Len(p))>> \o Tail(@)]

Peek(b) == LET f == Prefetch(b, 1) IN IF f.cache = <<>> THEN EOF ELSE f.cache[1]
Get(b) ==
  LET f == Prefetch(b, 1)
  IN  IF f.cache = <<>> THEN [f EXCEPT !.text = <<EOF>>] ELSE [f EXCEPT !.text = <<f.cache[1]>>, !.cache = Tail(@)]

Follows_OneRead(b, literal) == IsPrefix(literal, b.cache)     \* a slip: looks at what is in the cache
Follows(b, literal) == IsPrefix(literal, Prefetch(b, Len(literal)).cache)
SkipLiteral(b, literal) ==
  LET f == Prefetch(b, Len(literal))
  IN  IF ~b.ok THEN b
      ELSE IF Follows(b, literal) THEN [f EXCEPT !.cache = SubSeq(@, Len(literal) + 1, Len(@))] ELSE [f EXCEPT !.ok = FALSE]
BufSkip(b, c) == IF ~b.ok THEN b ELSE IF Peek(b) = c THEN Get(b) ELSE [Prefetch(b, 1) EXCEPT !.ok = FALSE]

(* What comes before c, or before the end.                                 *)
ReadUntil(b, c, text) ==
  LET f == Prefetch(b, 1)
  IN  IF ~b.ok THEN b
      ELSE IF f.cache = <<>> \/ f.cache[1] = c THEN [f EXCEPT !.text = text]
      ELSE ReadUntil([f EXCEPT !.cache = Tail(@)], c, Append(text, f.cache[1]))
-----------------------------------------------------------------------------
(* Requests. A parameter's value is encoded, so that it ends where the     *)
(* next one begins.                                                        *)
Hex == [c \in {"&", "=", " ", "?"} |->
          CASE c = "&" -> <<"2", "6">> [] c = "=" -> <<"3", "D">> [] c = " " -> <<"2", "0">> [] c = "?" -> <<"3", "F">>]
Urlencode(data) == FlattenSeq([k \in DOMAIN data |-> IF data[k] \in DOMAIN Hex THEN <<"%">> \o Hex[data[k]] ELSE <<data[k]>>])

Header(name, value) == [name |-> name, value |-> value]
HeaderLines(hs) == FlattenSeq([k \in DOMAIN hs |-> hs[k].name \o <<":", " ">> \o hs[k].value \o CRLF])
QueryOf(params) ==
  FlattenSeq([k \in DOMAIN params |-> <<IF k = 1 THEN "?" ELSE "&">> \o params[k].name \o <<"=">> \o Urlencode(params[k].value)])
WriteRequest(r) ==
  r.method \o <<" ">> \o r.uri \o QueryOf(r.params) \o <<" ">> \o <<"HTTP/1.0">> \o CRLF \o HeaderLines(r.headers) \o CRLF

(* parse_query: the path, the query behind the first question mark, and    *)
(* what follows the last slash of the path.                                *)
Before(s, c) == IF Contains(s, c) THEN SubSeq(s, 1, SelectInSeq(s, LAMBDA x : x = c) - 1) ELSE s
ParseQuery(uri) ==
  LET path == Before(uri, "?")
  IN  [path |-> path, query |-> SubSeq(uri, Len(path) + 2, Len(uri)),
       filename |-> IF Contains(path, "/") THEN SubSeq(path, SelectLastInSeq(path, LAMBDA x : x = "/") + 1, Len(path)) ELSE <<>>]

(* The name of a header, and then its value: whether it was there is ok.   *)
HeaderName(b) == SkipLiteral(ReadUntil(b, ":", <<>>), <<":", " ">>)
HeaderValue(b) == SkipLiteral(ReadUntil(b, "\r", <<>>), CRLF)

(* read_request asks for the empty line before each header, with nothing   *)
(* looked ahead at.                                                        *)
RequestHeaders(b, headers) ==
  LET n == HeaderName(Prefetch(b, 2))
      v == HeaderValue(n)
  IN  IF ~b.ok THEN [b |-> b, headers |-> headers]
      ELSE IF Follows(b, CRLF) THEN [b |-> SkipLiteral(b, CRLF), headers |-> headers]
      ELSE RequestHeaders(v, IF v.ok THEN Append(headers, Header(n.text, v.text)) ELSE headers)
ReadRequest(portions) ==
  LET m == ReadUntil(New(portions), " ", <<>>)
      u == ReadUntil(BufSkip(m, " "), " ", <<>>)
      v == ReadUntil(BufSkip(u, " "), "\r", <<>>)
      h == RequestHeaders(SkipLiteral(v, CRLF), <<>>)
  IN  [ok |-> h.b.ok, method |-> m.text, uri |-> u.text, version |-> v.text, parts |-> ParseQuery(u.text),
       headers |-> h.headers, rest |-> h.b.cache \o FlattenSeq(h.b.rest)]

(* get_header and get_res_header: the first of the name.                   *)
GetHeader(headers, name) ==
  LET found == SelectSeq(headers, LAMBDA h : h.name = name) IN IF found = <<>> THEN <<>> ELSE <<found[1].value>>
-----------------------------------------------------------------------------
(* Responses. Digits are characters of their own.                          *)
ContentLength == <<"Content-", "Length">>
Connection == <<"Con", "nection">>
Digit == [c \in {"0", "1", "2", "3", "4", "5"} |-> CHOOSE n \in 0 .. 5 : ToString(n) = c]
IsNumber(s) == s # <<>> /\ s[1] \in DOMAIN Digit

GetDigit(b, status) ==
  LET g == Get(b) IN IF ~b.ok \/ g.text[1] \notin DOMAIN Digit THEN [b |-> [g EXCEPT !.ok = FALSE], n |-> 0]
                     ELSE [b |-> g, n |-> 10 * status + Digit[g.text[1]]]
Expect(b, c) == LET g == Get(b) IN [g EXCEPT !.ok = b.ok /\ g.text = <<c>>]
ReadStatusLine(b) ==
  LET v == Get(b)
      d1 == GetDigit(Expect([v EXCEPT !.ok = v.text[1] \in {"HTTP/1.0", "HTTP/1.1"}], " "), 0)
      d2 == GetDigit(d1.b, d1.n)
      d3 == GetDigit(d2.b, d2.n)
  IN  [b |-> SkipLiteral(ReadUntil(Expect(d3.b, " "), "\r", <<>>), CRLF), n |-> d3.n]

(* parse_response looks whether there is more before each line.            *)
ResponseHeaders(b, headers) ==
  LET f == Prefetch(b, 1)
      n == HeaderName(Prefetch(f, 2))
      v == HeaderValue(n)
  IN  IF ~b.ok \/ f.cache = <<>> THEN [b |-> f, headers |-> headers]
      ELSE IF Follows(f, CRLF) THEN [b |-> SkipLiteral(f, CRLF), headers |-> headers]
      ELSE ResponseHeaders(v, Append(headers, Header(n.text, v.text)))

(* n characters, or all there are when n is negative; the character 255    *)
(* and the end are not told apart.                                         *)
GetAll(b, n, body) ==
  IF n = 0 THEN [b EXCEPT !.text = body]
  ELSE IF n < 0 /\ Peek(b) = EOF THEN [b EXCEPT !.text = body]
  ELSE IF n > 0 /\ Get(b).text[1] \in {EOF, "255"} THEN [b EXCEPT !.ok = FALSE]
  ELSE GetAll(Get(b), n - 1, body \o Get(b).text)

ReadBody(b, headers) ==
  LET length == GetHeader(headers, ContentLength)
      connection == GetHeader(headers, Connection)
  IN  CASE length # <<>> -> GetAll(b, IF IsNumber(length[1]) THEN Digit[length[1][1]] ELSE 0, <<>>)
        [] length = <<>> /\ connection = <<<<"close">>>> -> GetAll(b, -1, <<>>)
        [] OTHER -> [b EXCEPT !.ok = FALSE, !.text = <<"panic">>]
ParseResponse(portions) ==
  LET s == ReadStatusLine(New(portions))
      h == ResponseHeaders(s.b, <<>>)
      body == ReadBody(h.b, h.headers)
  IN  IF ~h.b.ok THEN [ok |-> FALSE] ELSE [ok |-> body.ok, status |-> s.n, headers |-> h.headers, body |-> body.text]
-----------------------------------------------------------------------------
(* cgi.c: the head of what a script has written, and its length, 0 for     *)
(* none.                                                                   *)
Spaces == {" ", "\t", "\r", "\n"}
From(data, pos, stops) ==               \* the first place at pos or behind it of one of stops
  LET places == {k \in pos .. Len(data) : data[k] \in stops} IN IF places = {} THEN Len(data) + 1 ELSE Min(places)
NotFrom(data, pos, skipped) ==
  LET places == {k \in pos .. Len(data) : data[k] \notin skipped} IN IF places = {} THEN Len(data) + 1 ELSE Min(places)
Passed(data, pos, c) == IF pos <= Len(data) /\ data[pos] = c THEN pos + 1 ELSE pos
EndOfLine(data, pos) == Passed(data, Passed(data, pos, "\r"), "\n")
HeadLines(data, pos, headers) ==
  LET colon == From(data, pos, {":"})
      value == NotFrom(data, colon + 1, Spaces)
      end == From(data, value, {"\r", "\n"})
      next == EndOfLine(data, end)
      all == Append(headers, Header(SubSeq(data, pos, colon - 1), SubSeq(data, value, end - 1)))
  IN  IF colon > Len(data) \/ value > Len(data) \/ end > Len(data) THEN [size |-> 0, headers |-> headers]
      ELSE IF next <= Len(data) /\ data[next] \in {"\r", "\n"} THEN [size |-> EndOfLine(data, next) - 1, headers |-> all]
      ELSE HeadLines(data, next, all)
ParseHead(data) == HeadLines(data, 1, <<>>)
-----------------------------------------------------------------------------
(* The two ends of a connection.                                           *)
Cut(s, places) ==
  LET cuts == SetToSortSeq(places, <)
      from(k) == IF k = 1 THEN 1 ELSE cuts[k - 1] + 1
  IN  [k \in 1 .. Len(cuts) + 1 |-> SubSeq(s, from(k), IF k > Len(cuts) THEN Len(s) ELSE cuts[k])]

(* A request is read as it was written, whatever follows it.               *)
RequestArrives(r, places) ==
  LET s == WriteRequest(r)
      x == ReadRequest(Cut(s \o <<"G">>, places))
      query == IF Contains(r.uri, "?") THEN SubSeq(r.uri, Len(Before(r.uri, "?")) + 2, Len(r.uri)) \o QueryOf(r.params)
               ELSE SubSeq(QueryOf(r.params), 2, Len(QueryOf(r.params)))
  IN  /\ x.ok /\ x.rest = <<"G">>
      /\ x.method = r.method /\ x.uri = r.uri \o QueryOf(r.params) /\ x.headers = r.headers
      /\ x.parts.path = Before(r.uri, "?") /\ x.parts.query = query
      /\ Contains(r.uri, "?") \/ Cardinality({k \in DOMAIN query : query[k] = "="}) = Len(r.params)
      /\ IsSuffix(x.parts.filename, x.parts.path) /\ ~Contains(x.parts.filename, "/")

(* A response is read however it arrives, except that a body that has its  *)
(* length must not have the character 255.                                 *)
ResponseArrives(headers, body, places) ==
  LET s == <<"HTTP/1.1", " ", "2", "0", "3", " ", "OK", " ">> \o CRLF \o HeaderLines(headers) \o CRLF \o body
      x == ParseResponse(Cut(s, places))
      framed == GetHeader(headers, ContentLength) = <<<<ToString(Len(body))>>>>
      toTheEnd == GetHeader(headers, ContentLength) = <<>> /\ GetHeader(headers, Connection) = <<<<"close">>>>
  IN  IF (framed /\ ~Contains(body, "255")) \/ toTheEnd THEN x.ok /\ x.status = 203 /\ x.headers = headers /\ x.body = body
      ELSE x.ok => IsPrefix(x.body, body)

(* The head of a script's output is found when all of it was read; where   *)
(* its lines end in two characters, the very last may be missing.          *)
HeadIsFound(headers, newline, body) ==
  LET head == FlattenSeq([k \in DOMAIN headers |-> headers[k].name \o <<":", " ">> \o headers[k].value \o newline]) \o newline
      needed == Len(head) - (Len(newline) - 1)
  IN  \A n \in 0 .. Len(head \o body) :
        LET x == ParseHead(SubSeq(head \o body, 1, n))
        IN  IF n < needed THEN x.size = 0 ELSE x.size = Min({n, Len(head)}) /\ x.headers = headers

(* A request is cut in two places.  InLastLine, between its last two       *)
(* characters, is excepted: literal_follows "returns true if the given     *)
(* literal is next in the buffer" (lib/tokenizer.c:251), but makes one read*)
(* only, of which it then has half of the empty line, and read_request     *)
(* reads a header instead.                                                 *)
Twice(n) == {{i, j} : i, j \in 1 .. n}
CutsOf(x) == Twice(Len(WriteRequest(x.request)))
InLastLine(x) == Len(WriteRequest(x.request)) - 1
ReadsAsWritten(x) ==
  CASE x.kind = "request" -> RequestArrives(x.request, {})
    [] x.kind = "cut request" -> \A places \in CutsOf(x) : InLastLine(x) \in places \/ RequestArrives(x.request, places)
    [] x.kind = "response" ->
         \A places \in Twice(9 + Len(HeaderLines(x.headers)) + Len(x.body)) : ResponseArrives(x.headers, x.body, places)
    [] x.kind = "head" -> HeadIsFound(x.headers, <<"\n">>, x.body) /\ HeadIsFound(x.headers, CRLF, x.body)
=============================================================================
