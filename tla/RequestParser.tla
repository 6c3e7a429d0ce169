---------------------------- MODULE RequestParser ----------------------------
(***************************************************************************)
(* request_parser of the HTTP server (HttpServer/request_parser.cpp) and the *)
(* read loop of connection::do_read that feeds it (HttpServer/connection.cpp) *)
(* with the bytes of one client, in pieces of any size.                      *)
(*                                                                           *)
(* A byte is one of the classes the parser tells apart, and the strings of   *)
(* the request are counted, not kept: they are substrings of the input.      *)
(***************************************************************************)
EXTENDS Integers, Sequences, FiniteSets

CONSTANT Inputs     \* what the client may send: sequences of Char

\* "a": letters and other token characters, "(": the other tspecials, "sp": the space,
\* "del": the other control characters, "high": bytes above 127
Char == {"H", "T", "P", "a", "0", ".", "/", ":", "(", "sp",
         "tab", "cr", "lf", "del", "high"}

ASSUME InputsAssumption == Inputs \subseteq Seq(Char)

is_char(c) == c # "high"

is_ctl(c) == c \in {"tab", "cr", "lf", "del"}

is_tspecial(c) == c \in {"(", "/", ":", "sp", "tab"}

is_digit(c) == c = "0"

is_token(c) == is_char(c) /\ ~ is_ctl(c) /\ ~ is_tspecial(c)

State == {"method_start", "method", "uri", "http_version_h", "http_version_t_1",
          "http_version_t_2", "http_version_p", "http_version_slash",
          "http_version_major_start", "http_version_major",
          "http_version_minor_start", "http_version_minor", "expecting_newline_1",
          "header_line_start", "header_lws", "header_name",
          "space_before_header_value", "header_value", "expecting_newline_2",
          "expecting_newline_3"}

Header == [name : Nat, value : Nat]

\* The parser's state_, its result so far, and the request it has filled in
Parser == [state : State, result : {"good", "bad", "indeterminate"},
           method : Nat, uri : Nat, headers : Seq(Header)]

request_parser ==
  [state |-> "method_start", result |-> "indeterminate",
   method |-> 0, uri |-> 0, headers |-> <<>>]

-----------------------------------------------------------------------------
(* consume: one operator per group of cases, p being the parser and c input *)

bad(p) == [p EXCEPT !.result = "bad"]

goto(p, s) == [p EXCEPT !.state = s]

expect(p, c, x, s) == IF c = x THEN goto(p, s) ELSE bad(p)

method(p, c) ==
  IF c = "sp" /\ p.state = "method" THEN goto(p, "uri")
  ELSE IF ~ is_token(c) THEN bad(p)
  ELSE [goto(p, "method") EXCEPT !.method = @ + 1]

uri(p, c) ==
  IF c = "sp" THEN goto(p, "http_version_h")
  ELSE IF is_ctl(c) THEN bad(p)
  ELSE [p EXCEPT !.uri = @ + 1]

\* A number of the version ends at x; its value is read by nobody.
version(p, c, here, x, s) ==
  IF p.state = here /\ c = x THEN goto(p, s)
  ELSE IF is_digit(c) THEN goto(p, here)
  ELSE bad(p)

\* req.headers.back().name and .value get one more character.
push_name(p) == [p EXCEPT !.headers[Len(p.headers)].name = @ + 1]

push_value(p) == [p EXCEPT !.headers[Len(p.headers)].value = @ + 1]

\* Mutant: a folded line is accepted although there is no header it could go on.
header_line_startFolds(p, c) ==
  IF c = "cr" THEN goto(p, "expecting_newline_3")
  ELSE IF c \in {"sp", "tab"} THEN goto(p, "header_lws")
  ELSE IF ~ is_token(c) THEN bad(p)
  ELSE [goto(p, "header_name") EXCEPT !.headers = Append(@, [name |-> 1, value |-> 0])]

header_line_start(p, c) ==
  IF c = "cr" THEN goto(p, "expecting_newline_3")
  ELSE IF p.headers # <<>> /\ c \in {"sp", "tab"} THEN goto(p, "header_lws")
  ELSE IF ~ is_token(c) THEN bad(p)
  ELSE [goto(p, "header_name") EXCEPT !.headers = Append(@, [name |-> 1, value |-> 0])]

\* Mutant: the first character of a folded line is not kept.
header_lwsDrops(p, c) ==
  IF c = "cr" THEN goto(p, "expecting_newline_2")
  ELSE IF c \in {"sp", "tab"} THEN p
  ELSE IF is_ctl(c) THEN bad(p)
  ELSE goto(p, "header_value")

header_lws(p, c) ==
  IF c = "cr" THEN goto(p, "expecting_newline_2")
  ELSE IF c \in {"sp", "tab"} THEN p
  ELSE IF is_ctl(c) THEN bad(p)
  ELSE push_value(goto(p, "header_value"))

header_name(p, c) ==
  IF c = ":" THEN goto(p, "space_before_header_value")
  ELSE IF ~ is_token(c) THEN bad(p)
  ELSE push_name(p)

\* Mutant: a line feed alone ends a header line.
header_valueLoose(p, c) ==
  IF c = "cr" THEN goto(p, "expecting_newline_2")
  ELSE IF c = "lf" THEN goto(p, "header_line_start")
  ELSE IF is_ctl(c) THEN bad(p)
  ELSE push_value(p)

header_value(p, c) ==
  IF c = "cr" THEN goto(p, "expecting_newline_2")
  ELSE IF is_ctl(c) THEN bad(p)
  ELSE push_value(p)

consume(p, c) ==
  CASE p.state \in {"method_start", "method"} -> method(p, c)
    [] p.state = "uri"                -> uri(p, c)
    [] p.state = "http_version_h"     -> expect(p, c, "H", "http_version_t_1")
    [] p.state = "http_version_t_1"   -> expect(p, c, "T", "http_version_t_2")
    [] p.state = "http_version_t_2"   -> expect(p, c, "T", "http_version_p")
    [] p.state = "http_version_p"     -> expect(p, c, "P", "http_version_slash")
    [] p.state = "http_version_slash" -> expect(p, c, "/", "http_version_major_start")
    [] p.state \in {"http_version_major_start", "http_version_major"} ->
         version(p, c, "http_version_major", ".", "http_version_minor_start")
    [] p.state \in {"http_version_minor_start", "http_version_minor"} ->
         version(p, c, "http_version_minor", "cr", "expecting_newline_1")
    [] p.state \in {"expecting_newline_1", "expecting_newline_2"} ->
         expect(p, c, "lf", "header_line_start")
    [] p.state = "header_line_start"  -> header_line_start(p, c)
    [] p.state = "header_lws"         -> header_lws(p, c)
    [] p.state = "header_name"        -> header_name(p, c)
    [] p.state = "space_before_header_value" -> expect(p, c, "sp", "header_value")
    [] p.state = "header_value"       -> header_value(p, c)
    [] p.state = "expecting_newline_3" ->
         [p EXCEPT !.result = IF c = "lf" THEN "good" ELSE "bad"]

\* parse: consume until the result is known or the piece ends.
parse(p, piece) ==
  LET f[i \in 0..Len(piece)] ==
        IF i = 0 THEN p
        ELSE LET q == f[i - 1]
             IN  IF q.result = "indeterminate" THEN consume(q, piece[i]) ELSE q
  IN  f[Len(piece)]

-----------------------------------------------------------------------------
(* The read loop of one connection *)

VARIABLES
  input,     \* the bytes this client sends
  read,      \* how many of them async_read_some has delivered
  parser,    \* request_parser_ and request_
  reply      \* what do_write was called with: "none", "handle_request", "bad_request"

parserVars == <<input, read, parser, reply>>

ParserInit ==
  /\ input \in Inputs
  /\ read = 0 /\ parser = request_parser /\ reply = "none"

\* Mutant: one byte more than bytes_transferred is taken from the buffer.
do_readOver(n) ==
  /\ reply = "none"
  /\ n \in 1..(Len(input) - read)
  /\ read' = read + n + 1
  /\ parser' = parse(parser, SubSeq(input, read + 1, read + n))
  /\ UNCHANGED <<input, reply>>

\* The completion handler of do_read, without an error.  What follows a complete
\* request in the same piece is ignored.
do_read(n) ==
  /\ reply = "none"
  /\ n \in 1..(Len(input) - read)
  /\ read' = read + n
  /\ parser' = parse(parser, SubSeq(input, read + 1, read + n))
  /\ reply' = CASE parser'.result = "good" -> "handle_request"
                [] parser'.result = "bad"  -> "bad_request"
                [] OTHER                   -> "none"
  /\ UNCHANGED input

ParserNext == \E n \in 1..(Len(input) - read) : do_read(n)

ParserSpec == ParserInit /\ [][ParserNext]_parserVars

-----------------------------------------------------------------------------
(* A request by its lines, without a state machine: the reference *)

\* The lines of the first n bytes, as [from, to]: a line ends at a line feed and
\* its last two bytes do not count.
Ends(n) == {i \in 1..n : input[i] = "lf"}

LineOf(e) ==
  LET before == {i \in 1..(e - 1) : input[i] = "lf"}
  IN  [from |-> 1 + (IF before = {} THEN 0 ELSE CHOOSE i \in before : \A j \in before : j <= i),
       to   |-> e - 2]

Lines(n) == {LineOf(e) : e \in Ends(n)}

\* Carriage returns and line feeds come in pairs only.
Paired(n) ==
  \A i \in 1..n :
    /\ input[i] = "lf" => i > 1 /\ input[i - 1] = "cr"
    /\ input[i] = "cr" => i < n /\ input[i + 1] = "lf"

All(a, b, P(_)) == \A i \in a..b : P(input[i])

Text(c) == ~ is_ctl(c)
UriChar(c) == ~ is_ctl(c) /\ c # "sp"
Blank(c) == c \in {"sp", "tab"}

Number(a, b) == a <= b /\ All(a, b, is_digit)

Version(a, b) ==
  /\ b >= a + 4 /\ SubSeq(input, a, a + 4) = <<"H", "T", "T", "P", "/">>
  /\ \E d \in a..b : input[d] = "." /\ Number(a + 5, d - 1) /\ Number(d + 1, b)

\* The spaces around the uri
RequestLine(l, x, y) ==
  /\ l.from < x /\ x < y /\ input[x] = "sp" /\ input[y] = "sp"
  /\ All(l.from, x - 1, is_token) /\ All(x + 1, y - 1, UriChar)
  /\ Version(y + 1, l.to)

\* The colon of a header line
HeaderLine(l, x) ==
  /\ l.from < x /\ x < l.to /\ input[x] = ":" /\ input[x + 1] = "sp"
  /\ All(l.from, x - 1, is_token) /\ All(x + 2, l.to, Text)

\* A folded line: blanks, then the rest of the value from x on.
FoldedLine(l, x) ==
  /\ l.from < x /\ x <= l.to + 1
  /\ All(l.from, x - 1, Blank)
  /\ x <= l.to => ~ Blank(input[x]) /\ All(x, l.to, Text)

In(l) == l.from..(l.to + 1)

FirstLine(n) == LineOf(CHOOSE e \in Ends(n) : \A f \in Ends(n) : e <= f)

\* The first n bytes are one complete request.
IsRequest(n) ==
  LET first == FirstLine(n)
      last  == LineOf(n)
  IN  /\ n >= 2 /\ input[n] = "lf" /\ Paired(n)
      /\ last.from > last.to /\ last # first
      /\ \E x, y \in In(first) : RequestLine(first, x, y)
      /\ \A l \in Lines(n) \ {first, last} :
           \/ \E x \in In(l) : HeaderLine(l, x)
           \/ l.from # first.to + 3 /\ \E x \in In(l) : FoldedLine(l, x)

\* The header lines of the first n bytes, the folded lines, and the k-th header line
Heads(n) == {l \in Lines(n) : \E x \in In(l) : HeaderLine(l, x)} \ {FirstLine(n)}

Folds(n) == Lines(n) \ (Heads(n) \cup {FirstLine(n), LineOf(n)})

NthHead(n, k) ==
  CHOOSE l \in Heads(n) : Cardinality({m \in Heads(n) : m.from <= l.from}) = k

\* What the folded lines after the header line h, and before the next, add to its value
FoldedText(n, h) ==
  {i \in 1..n : \E l \in Folds(n), z \in 1..n :
     /\ l.from > h.from
     /\ \A m \in Heads(n) : m.from > h.from => m.from > l.from
     /\ FoldedLine(l, z) /\ i \in z..l.to}

-----------------------------------------------------------------------------
(* Properties *)

\* Every variable has its type.
ParserTypeOK ==
  /\ input \in Seq(Char) /\ read \in 0..Len(input) /\ parser \in Parser
  /\ reply \in {"none", "handle_request", "bad_request"}

\* request_parser accepts exactly the requests, at their last byte, whatever
\* pieces the bytes come in; it is handled then and never later or twice.
AcceptsRequests ==
  (reply = "handle_request") <=> \E n \in 1..read : IsRequest(n)

\* The request handed to handle_request has the method, the uri and the headers
\* of the text: none is lost, cut or run into its neighbour.
FieldsOfText ==
  reply = "handle_request" =>
    LET n     == CHOOSE k \in 1..read : IsRequest(k)
        first == FirstLine(n)
    IN  /\ \E x, y \in In(first) :
             /\ RequestLine(first, x, y)
             /\ parser.method = x - first.from /\ parser.uri = y - x - 1
        /\ Len(parser.headers) = Cardinality(Heads(n))
        /\ \A k \in 1..Len(parser.headers) :
             LET h == NthHead(n, k)
             IN  \E x \in In(h) :
                   /\ HeaderLine(h, x)
                   /\ parser.headers[k].name = x - h.from
                   /\ parser.headers[k].value = (h.to - x - 1) + Cardinality(FoldedText(n, h))

\* req.headers.back(), which is undefined on an empty vector, is only called when
\* a header line has begun.
HeaderBegun(p) ==
  p.state \in {"header_lws", "header_name", "space_before_header_value",
               "header_value", "expecting_newline_2"} => p.headers # <<>>

BackDefined == HeaderBegun(parser)

=============================================================================
