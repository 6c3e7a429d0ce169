------------------------ MODULE RequestParserProofs ------------------------
(* What one character, one piece and all the pieces do to the parser, for     *)
(* every input.                                                              *)
EXTENDS RequestParser, WellFoundedInduction, TLAPS

LessThan == {ss \in Nat \X Nat : ss[1] < ss[2]}

\* The least-number principle, for a set instead of a predicate: what induction
\* over a piece or a line rests on.
LEMMA Least ==
  ASSUME NEW T, T \subseteq Nat, T # {}
  PROVE  \E m \in T : \A k \in T : m <= k
<1>1. IsWellFoundedOn(LessThan, Nat)
  BY NatLessThanWellFounded DEF OpToRel, LessThan
<1>2. PICK m \in T : \A k \in T : ~ (<<k, m>> \in LessThan)
  BY <1>1, WFMin, Zenon
<1>3. \A k \in T : ~ (k < m)
  BY <1>2 DEF LessThan
<1> QED BY <1>3

-----------------------------------------------------------------------------
(* One character *)

\* A parser that may be used further
Safe(q) == q \in Parser /\ HeaderBegun(q)

\* The states in which a header line has begun
InHeader == {"header_lws", "header_name", "space_before_header_value",
             "header_value", "expecting_newline_2"}

\* Going to another state is safe if that state needs no header or there is one.
LEMMA GotoSafe ==
  ASSUME NEW p \in Parser, NEW s \in State, s \in InHeader => p.headers # <<>>
  PROVE  Safe(goto(p, s)) /\ goto(p, s).headers = p.headers /\ goto(p, s).state = s
BY DEF Parser, Safe, HeaderBegun, goto, InHeader

\* Giving up is safe: the state stays.
LEMMA BadSafe == ASSUME NEW p \in Parser, HeaderBegun(p) PROVE Safe(bad(p))
BY DEF Parser, Safe, HeaderBegun, bad

\* req.headers.back() exists and can be changed.
LEMMA PushSafe ==
  ASSUME NEW p \in Parser, p.headers # <<>>
  PROVE  Safe(push_name(p)) /\ Safe(push_value(p))
<1>1. Len(p.headers) \in 1..Len(p.headers) /\ p.headers \in Seq(Header)
  BY DEF Parser
<1> DEFINE h0 == p.headers[Len(p.headers)]
<1>2. h0 \in Header
  BY <1>1
<1>3. ASSUME NEW h \in Header
      PROVE  LET q == [p EXCEPT !.headers = [p.headers EXCEPT ![Len(p.headers)] = h]]
             IN  Safe(q)
  <2>1. [p.headers EXCEPT ![Len(p.headers)] = h] \in Seq(Header)
    BY <1>1
  <2>2. [p.headers EXCEPT ![Len(p.headers)] = h] # <<>>
    BY <1>1
  <2> QED BY <2>1, <2>2 DEF Parser, Safe, HeaderBegun
<1>4. push_name(p) = [p EXCEPT !.headers = [p.headers EXCEPT ![Len(p.headers)] =
                                             [h0 EXCEPT !.name = h0.name + 1]]]
  BY DEF push_name
<1>5. push_value(p) = [p EXCEPT !.headers = [p.headers EXCEPT ![Len(p.headers)] =
                                              [h0 EXCEPT !.value = h0.value + 1]]]
  BY DEF push_value
<1>6. [h0 EXCEPT !.name = h0.name + 1] \in Header /\ [h0 EXCEPT !.value = h0.value + 1] \in Header
  BY <1>2 DEF Header
<1> HIDE DEF h0
<1> QED BY <1>3, <1>4, <1>5, <1>6

\* For every state of request_parser and every character, consume yields a parser
\* again and calls req.headers.back() on no empty vector, now or with the next
\* character.
THEOREM ConsumeSafe ==
  ASSUME NEW p \in Parser, NEW c \in Char, HeaderBegun(p)
  PROVE  consume(p, c) \in Parser /\ HeaderBegun(consume(p, c))
<1>1. Safe(bad(p))
  BY BadSafe
<1>2. \A s \in State : (s \in InHeader => p.headers # <<>>) => Safe(goto(p, s))
  BY GotoSafe
<1>3. p.state \in InHeader => p.headers # <<>>
  BY DEF HeaderBegun, InHeader
<1>4. SUFFICES Safe(consume(p, c))
  BY DEF Safe
<1>5. CASE p.state \in {"method_start", "method"}
  <2>1. consume(p, c) = method(p, c)
    BY <1>5 DEF consume
  <2>2. Safe([goto(p, "method") EXCEPT !.method = @ + 1])
    <3>1. PICK q \in Parser : q = goto(p, "method") /\ q.state = "method"
      BY GotoSafe DEF Safe, State, InHeader
    <3>2. [q EXCEPT !.method = @ + 1] \in Parser /\ [q EXCEPT !.method = @ + 1].state = "method"
      BY <3>1 DEF Parser
    <3>3. Safe([q EXCEPT !.method = @ + 1])
      BY <3>2 DEF Safe, HeaderBegun
    <3> QED BY <3>1, <3>3
  <2> QED BY <1>1, <1>2, <1>5, <2>1, <2>2 DEF method, State, InHeader
<1>6. CASE p.state = "uri"
  <2>1. consume(p, c) = uri(p, c)
    BY <1>6 DEF consume
  <2>2. Safe([p EXCEPT !.uri = @ + 1])
    BY <1>6 DEF Safe, Parser, HeaderBegun
  <2> QED BY <1>1, <1>2, <2>1, <2>2 DEF uri, State, InHeader
<1>7. CASE p.state = "http_version_h"
  <2>1. consume(p, c) = expect(p, c, "H", "http_version_t_1")
    BY <1>7 DEF consume
  <2> QED BY <1>1, <1>2, <1>3, <1>7, <2>1 DEF expect, State, InHeader
<1>8. CASE p.state = "http_version_t_1"
  <2>1. consume(p, c) = expect(p, c, "T", "http_version_t_2")
    BY <1>8 DEF consume
  <2> QED BY <1>1, <1>2, <1>3, <1>8, <2>1 DEF expect, State, InHeader
<1>9. CASE p.state = "http_version_t_2"
  <2>1. consume(p, c) = expect(p, c, "T", "http_version_p")
    BY <1>9 DEF consume
  <2> QED BY <1>1, <1>2, <1>3, <1>9, <2>1 DEF expect, State, InHeader
<1>10. CASE p.state = "http_version_p"
  <2>1. consume(p, c) = expect(p, c, "P", "http_version_slash")
    BY <1>10 DEF consume
  <2> QED BY <1>1, <1>2, <1>3, <1>10, <2>1 DEF expect, State, InHeader
<1>11. CASE p.state = "http_version_slash"
  <2>1. consume(p, c) = expect(p, c, "/", "http_version_major_start")
    BY <1>11 DEF consume
  <2> QED BY <1>1, <1>2, <1>3, <1>11, <2>1 DEF expect, State, InHeader
<1>12. CASE p.state \in {"http_version_major_start", "http_version_major"}
  <2>1. consume(p, c) = version(p, c, "http_version_major", ".", "http_version_minor_start")
    BY <1>12 DEF consume
  <2> QED BY <1>1, <1>2, <1>3, <1>12, <2>1 DEF version, State, InHeader
<1>13. CASE p.state \in {"http_version_minor_start", "http_version_minor"}
  <2>1. consume(p, c) = version(p, c, "http_version_minor", "cr", "expecting_newline_1")
    BY <1>13 DEF consume
  <2> QED BY <1>1, <1>2, <1>3, <1>13, <2>1 DEF version, State, InHeader
<1>14. CASE p.state \in {"expecting_newline_1", "expecting_newline_2"}
  <2>1. consume(p, c) = expect(p, c, "lf", "header_line_start")
    BY <1>14 DEF consume
  <2> QED BY <1>1, <1>2, <1>3, <1>14, <2>1 DEF expect, State, InHeader
<1>15. CASE p.state = "header_line_start"
  <2>1. consume(p, c) = header_line_start(p, c)
    BY <1>15 DEF consume
  <2>2. Safe([goto(p, "header_name") EXCEPT
                !.headers = Append(@, [name |-> 1, value |-> 0])])
    <3>1. [name |-> 1, value |-> 0] \in Header /\ p.headers \in Seq(Header)
      BY DEF Header, Parser
    <3>2. /\ Append(p.headers, [name |-> 1, value |-> 0]) \in Seq(Header)
          /\ Append(p.headers, [name |-> 1, value |-> 0]) # <<>>
      BY <3>1
    <3> QED BY <3>2 DEF Safe, Parser, State, HeaderBegun, goto
  <2> QED BY <1>1, <1>2, <2>1, <2>2 DEF header_line_start, State, InHeader
<1>16. CASE p.state = "header_lws"
  <2>1. consume(p, c) = header_lws(p, c)
    BY <1>16 DEF consume
  <2>2. p.headers # <<>>
    BY <1>3, <1>16 DEF InHeader
  <2>3. Safe(p) /\ Safe(push_value(goto(p, "header_value")))
    BY <2>2, GotoSafe, PushSafe DEF Safe, State, InHeader
  <2> QED BY <1>1, <1>2, <2>1, <2>2, <2>3 DEF header_lws, State, InHeader
<1>17. CASE p.state = "header_name"
  <2>1. consume(p, c) = header_name(p, c)
    BY <1>17 DEF consume
  <2>2. p.headers # <<>>
    BY <1>3, <1>17 DEF InHeader
  <2>3. Safe(push_name(p)) /\ Safe(push_value(p))
    BY <2>2, PushSafe
  <2> QED BY <1>1, <1>2, <2>1, <2>2, <2>3 DEF header_name, State, InHeader
<1>18. CASE p.state = "space_before_header_value"
  <2>1. consume(p, c) = expect(p, c, "sp", "header_value")
    BY <1>18 DEF consume
  <2> QED BY <1>1, <1>2, <1>3, <1>18, <2>1 DEF expect, State, InHeader
<1>19. CASE p.state = "header_value"
  <2>1. consume(p, c) = header_value(p, c)
    BY <1>19 DEF consume
  <2>2. p.headers # <<>>
    BY <1>3, <1>19 DEF InHeader
  <2>3. Safe(push_name(p)) /\ Safe(push_value(p))
    BY <2>2, PushSafe
  <2> QED BY <1>1, <1>2, <2>1, <2>2, <2>3 DEF header_value, State, InHeader
<1>20. CASE p.state = "expecting_newline_3"
  BY <1>20 DEF consume, Safe, Parser, HeaderBegun
<1> QED BY <1>5, <1>6, <1>7, <1>8, <1>9, <1>10, <1>11, <1>12, <1>13, <1>14, <1>15, <1>16, <1>17, <1>18, <1>19, <1>20 DEF Parser, State

-----------------------------------------------------------------------------
(* One piece: what the recursive function of parse computes *)

Step(q, c) == IF q.result = "indeterminate" THEN consume(q, c) ELSE q

\* g is the parser after each of the first n characters of s, from p on.
Steps(g, p, s, n) ==
  g = [i \in 0..n |-> IF i = 0 THEN p ELSE Step(g[i - 1], s[i])]

\* The loop of parse is well defined: a function with its recursion exists.
LEMMA StepsExist ==
  ASSUME NEW p, NEW s, NEW n \in Nat
  PROVE  \E g : Steps(g, p, s, n)
<1> DEFINE T == {k \in Nat : ~ \E g : Steps(g, p, s, k)}
<1>1. SUFFICES ASSUME T # {} PROVE FALSE
  OBVIOUS
<1>2. PICK m \in T : \A k \in T : m <= k
  BY <1>1, Least, Zenon
<1>3. m # 0
  <2> DEFINE g0 == [i \in 0..0 |-> p]
  <2>1. Steps(g0, p, s, 0)
    BY DEF Steps
  <2> QED BY <2>1
<1>4. PICK g : Steps(g, p, s, m - 1)
  BY <1>2, <1>3
<1> DEFINE h == [i \in 0..m |-> IF i = m THEN Step(g[m - 1], s[m]) ELSE g[i]]
<1>5. Steps(h, p, s, m)
  BY <1>3, <1>4 DEF Steps
<1> QED BY <1>5

\* parse is the last of those steps.
LEMMA ParseSteps ==
  ASSUME NEW p, NEW s \in Seq(Char)
  PROVE  \E g : Steps(g, p, s, Len(s)) /\ parse(p, s) = g[Len(s)]
<1> DEFINE f == CHOOSE g : Steps(g, p, s, Len(s))
<1>1. Steps(f, p, s, Len(s))
  BY StepsExist
<1>2. parse(p, s) = f[Len(s)]
  BY DEF parse, Steps, Step
<1> QED BY <1>1, <1>2

\* One step of the loop is safe, whatever the result so far.
LEMMA StepSafe == ASSUME NEW q, Safe(q), NEW c \in Char PROVE Safe(Step(q, c))
BY ConsumeSafe DEF Safe, Step

\* A piece leaves a safe parser safe.
LEMMA ParseSafe ==
  ASSUME NEW p, Safe(p), NEW s \in Seq(Char)
  PROVE  Safe(parse(p, s))
<1>1. PICK g : Steps(g, p, s, Len(s)) /\ parse(p, s) = g[Len(s)]
  BY ParseSteps
<1> DEFINE T == {k \in 0..Len(s) : ~ Safe(g[k])}
<1>2. SUFFICES ASSUME T # {} PROVE FALSE
  BY <1>1
<1>3. PICK m \in T : \A k \in T : m <= k
  <2>1. T \subseteq Nat
    OBVIOUS
  <2> HIDE DEF T
  <2> QED BY <1>2, <2>1, Least, Zenon
<1>4. m # 0
  BY <1>1 DEF Steps
<1>5. Safe(g[m - 1]) /\ s[m] \in Char
  BY <1>3, <1>4
<1>6. g[m] = Step(g[m - 1], s[m])
  BY <1>1, <1>4 DEF Steps
<1> QED BY <1>5, <1>6, StepSafe

-----------------------------------------------------------------------------
(* All the pieces *)

\* Whatever the client sends and however the bytes are cut into reads, the parser
\* of a connection stays well formed, never more than what was sent is read, and
\* req.headers.back() is never called on an empty vector.
THEOREM ParserSound == ParserSpec => [](ParserTypeOK /\ BackDefined)
<1>1. ParserInit => ParserTypeOK /\ BackDefined
  <2> SUFFICES ASSUME ParserInit PROVE ParserTypeOK /\ BackDefined
    OBVIOUS
  <2>1. input \in Seq(Char) /\ request_parser \in Parser /\ HeaderBegun(request_parser)
    BY InputsAssumption DEF ParserInit, request_parser, Parser, State, HeaderBegun
  <2> QED BY <2>1 DEF ParserInit, ParserTypeOK, BackDefined
<1>2. ParserTypeOK /\ BackDefined /\ [ParserNext]_parserVars => (ParserTypeOK /\ BackDefined)'
  <2> SUFFICES ASSUME ParserTypeOK, BackDefined, [ParserNext]_parserVars
               PROVE  (ParserTypeOK /\ BackDefined)'
    OBVIOUS
  <2>1. CASE UNCHANGED parserVars
    BY <2>1 DEF parserVars, ParserTypeOK, BackDefined, HeaderBegun
  <2>2. ASSUME NEW n \in 1..(Len(input) - read), do_read(n)
        PROVE  (ParserTypeOK /\ BackDefined)'
    <3>1. SubSeq(input, read + 1, read + n) \in Seq(Char) /\ read + n \in 0..Len(input)
      BY DEF ParserTypeOK
    <3>2. Safe(parser')
      BY <2>2, <3>1, ParseSafe DEF ParserTypeOK, BackDefined, Safe, do_read
    <3>3. reply' \in {"none", "handle_request", "bad_request"}
      BY <2>2 DEF do_read
    <3> QED BY <2>2, <3>1, <3>2, <3>3 DEF ParserTypeOK, BackDefined, Safe, do_read
  <2> QED BY <2>1, <2>2 DEF ParserNext
<1> QED BY <1>1, <1>2, PTL DEF ParserSpec

-----------------------------------------------------------------------------
(* The text by its lines: a form of IsRequest that grows line by line *)

\* The line from a to the line feed at e
Line(a, e) == [from |-> a, to |-> e - 2]

NoLf(a, b) == \A i \in a..b : input[i] # "lf"

\* A line may begin at a.
Begins(a) == a = 1 \/ input[a - 1] = "lf"

\* A request line ends at e.
ReqEnd(e) ==
  /\ e >= 2 /\ input[e - 1] = "cr" /\ input[e] = "lf"
  /\ \E x, y \in 1..(e - 1) : RequestLine(Line(1, e), x, y)

\* The line from a to e is a header line, or a folded one after a header line.
LaterEnd(a, e) ==
  /\ a + 2 <= e /\ input[e - 1] = "cr" /\ input[e] = "lf"
  /\ \/ \E x \in a..(e - 1) : HeaderLine(Line(a, e), x)
     \/ ~ NoLf(1, a - 2) /\ \E x \in a..(e - 1) : FoldedLine(Line(a, e), x)

\* The line from a to e is empty.
EmptyEnd(a, e) == e = a + 1 /\ input[a] = "cr" /\ input[e] = "lf"

\* The first m bytes are a request line and header lines, all complete.
Good(m) ==
  /\ m \in 1..Len(input) /\ input[m] = "lf"
  /\ \E e \in 1..m : NoLf(1, e - 1) /\ ReqEnd(e)
  /\ \A a, e \in 2..m :
       input[a - 1] = "lf" /\ a <= e /\ input[e] = "lf" /\ NoLf(a, e - 1) => LaterEnd(a, e)

\* A line among complete ones ends as a line does.
LEMMA GoodEnd ==
  ASSUME NEW m, Good(m), NEW a \in 2..m, NEW e \in 2..m, a <= e,
         input[a - 1] = "lf", input[e] = "lf", NoLf(a, e - 1)
  PROVE  LaterEnd(a, e)
BY DEF Good

\* A piece of the text, as a sequence
LEMMA Piece ==
  ASSUME input \in Seq(Char), NEW m \in Nat, NEW n \in Nat, m + n <= Len(input)
  PROVE  /\ SubSeq(input, m + 1, m + n) \in Seq(Char)
         /\ Len(SubSeq(input, m + 1, m + n)) = n
         /\ \A i \in 1..n : SubSeq(input, m + 1, m + n)[i] = input[m + i]
OBVIOUS

\* A set of positions that is not empty has a last one.
LEMMA Greatest ==
  ASSUME NEW n \in Nat, NEW T \in SUBSET (1..n), T # {}
  PROVE  \E m \in T : \A k \in T : k <= m
<1> DEFINE S == {i \in 0..n : n - i \in T}
<1>1. S \subseteq Nat /\ S # {}
  <2>1. PICK k \in T : k \in 1..n
    OBVIOUS
  <2>2. n - k \in 0..n /\ n - (n - k) = k
    BY <2>1
  <2>3. n - k \in S
    BY <2>1, <2>2
  <2>4. S \subseteq Nat
    OBVIOUS
  <2> HIDE DEF S
  <2> QED BY <2>3, <2>4
<1>2. PICK i \in S : \A j \in S : i <= j
  <2> HIDE DEF S
  <2> QED BY <1>1, Least, Zenon
<1>3. ASSUME NEW k \in T PROVE k <= n - i
  <2>1. k \in 1..n /\ n - k \in 0..n /\ n - (n - k) = k
    OBVIOUS
  <2>2. n - k \in S
    BY <2>1
  <2>3. i <= n - k
    BY <1>2, <2>2
  <2> QED BY <2>1, <2>3
<1> QED BY <1>2, <1>3

\* Every line feed ends a line that begins somewhere.
LEMMA LineBegins ==
  ASSUME input \in Seq(Char), NEW e \in 1..Len(input)
  PROVE  \E a \in 1..e : Begins(a) /\ NoLf(a, e - 1)
<1> DEFINE T == {i \in 1..(e - 1) : input[i] = "lf"}
<1>1. CASE T = {}
  BY <1>1 DEF Begins, NoLf
<1>2. CASE T # {}
  <2>1. PICK m \in T : \A k \in T : k <= m
    <3>1. T \in SUBSET (1..(e - 1)) /\ e - 1 \in Nat
      OBVIOUS
    <3> HIDE DEF T
    <3> QED BY <1>2, <3>1, Greatest
  <2>2. m + 1 \in 1..e /\ Begins(m + 1) /\ NoLf(m + 1, e - 1)
    BY <2>1 DEF Begins, NoLf
  <2> QED BY <2>2
<1> QED BY <1>1, <1>2

\* LineOf is that line.
LEMMA LineOfIs ==
  ASSUME input \in Seq(Char), NEW e \in 1..Len(input), NEW a \in 1..e,
         Begins(a), NoLf(a, e - 1)
  PROVE  LineOf(e) = Line(a, e)
<1> DEFINE T == {i \in 1..(e - 1) : input[i] = "lf"}
<1>1. CASE a = 1
  <2>1. T = {}
    BY <1>1 DEF NoLf
  <2> QED BY <1>1, <2>1 DEF LineOf, Line
<1>2. CASE a # 1
  <2>1. a - 1 \in T /\ \A j \in T : j <= a - 1
    BY <1>2 DEF NoLf, Begins
  <2>2. (CHOOSE i \in T : \A j \in T : j <= i) = a - 1
    BY <2>1
  <2>3. LineOf(e) = [from |-> 1 + (IF T = {} THEN 0
                                    ELSE CHOOSE i \in T : \A j \in T : j <= i),
                     to   |-> e - 2]
    BY Zenon DEF LineOf
  <2>4. T # {}
    BY <2>1
  <2> HIDE DEF T
  <2>5. LineOf(e) = [from |-> 1 + (a - 1), to |-> e - 2]
    BY <2>2, <2>3, <2>4, Zenon
  <2>6. 1 + (a - 1) = a
    OBVIOUS
  <2> QED BY <2>5, <2>6, Zenon DEF Line
<1> QED BY <1>1, <1>2

\* Good text is good up to the end of each of its lines.
LEMMA GoodDown ==
  ASSUME input \in Seq(Char), NEW m, Good(m), NEW e \in 1..m, input[e] = "lf"
  PROVE  Good(e)
BY DEF Good, NoLf

\* The first line makes good text.
LEMMA GoodFirst ==
  ASSUME input \in Seq(Char), NEW e \in 1..Len(input), ReqEnd(e), NoLf(1, e - 1)
  PROVE  Good(e)
BY DEF Good, NoLf, ReqEnd

\* A further line keeps it good.
LEMMA GoodNext ==
  ASSUME input \in Seq(Char), NEW e \in 1..Len(input), NEW a \in 2..e,
         Good(a - 1), NoLf(a, e - 1), LaterEnd(a, e)
  PROVE  Good(e)
<1>1. input[e] = "lf" /\ input[a - 1] = "lf"
  BY DEF LaterEnd, Good
<1>2. \E f \in 1..e : NoLf(1, f - 1) /\ ReqEnd(f)
  BY DEF Good
<1>3. ASSUME NEW b \in 2..e, NEW f \in 2..e, input[b - 1] = "lf", b <= f,
             input[f] = "lf", NoLf(b, f - 1)
      PROVE  LaterEnd(b, f)
  <2>1. CASE f = e
    <3>1. b = a
      BY <1>1, <1>3, <2>1 DEF NoLf
    <3> QED BY <2>1, <3>1
  <2>2. CASE f # e
    <3>1. f <= a - 1
      BY <1>3, <2>2 DEF NoLf
    <3>2. b \in 2..(a - 1) /\ f \in 2..(a - 1)
      BY <1>3, <3>1
    <3> QED BY <1>3, <3>2, GoodEnd
  <2> QED BY <2>1, <2>2
<1> QED BY <1>1, <1>2, <1>3 DEF Good

-----------------------------------------------------------------------------
(* IsRequest and the good text before its empty line *)

\* HTTP/ begins at a.
Http(a) ==
  /\ input[a] = "H" /\ input[a + 1] = "T" /\ input[a + 2] = "T"
  /\ input[a + 3] = "P" /\ input[a + 4] = "/"

\* Character by character
LEMMA HttpText ==
  ASSUME input \in Seq(Char), NEW a \in 1..Len(input), a + 4 <= Len(input)
  PROVE  SubSeq(input, a, a + 4) = <<"H", "T", "T", "P", "/">> <=> Http(a)
<1> DEFINE s == SubSeq(input, a, a + 4)
<1>1. s \in Seq(Char) /\ Len(s) = 5 /\ \A i \in 1..5 : s[i] = input[a + i - 1]
  <2>1. a \in Int /\ a + 4 \in Int /\ a <= a + 4 /\ a + 4 - a + 1 = 5
    OBVIOUS
  <2>2. Len(s) = 5
    BY <2>1
  <2>3. s \in Seq(Char)
    BY <2>1
  <2>4. ASSUME NEW i \in 1..5 PROVE s[i] = input[a + i - 1]
    BY <2>1
  <2> QED BY <2>2, <2>3, <2>4
<1>2. s[1] = input[a] /\ s[2] = input[a + 1] /\ s[3] = input[a + 2]
      /\ s[4] = input[a + 3] /\ s[5] = input[a + 4]
  BY <1>1
<1>3. s = <<"H", "T", "T", "P", "/">> <=>
        s[1] = "H" /\ s[2] = "T" /\ s[3] = "T" /\ s[4] = "P" /\ s[5] = "/"
  <2> HIDE DEF s
  <2> QED BY <1>1
<1> QED BY <1>2, <1>3 DEF Http

\* A version, with its five characters spelt out
LEMMA VersionText ==
  ASSUME input \in Seq(Char), NEW a \in 1..Len(input), NEW b \in 0..Len(input)
  PROVE  Version(a, b) <=>
           /\ a + 4 <= b /\ Http(a)
           /\ \E d \in a..b : input[d] = "." /\ Number(a + 5, d - 1) /\ Number(d + 1, b)
BY HttpText DEF Version

\* Before its end a request line has no carriage return and no line feed.
LEMMA ReqPlain ==
  ASSUME input \in Seq(Char), NEW e \in 1..Len(input), ReqEnd(e)
  PROVE  \A i \in 1..(e - 2) : input[i] # "cr" /\ input[i] # "lf"
<1>1. PICK x \in 1..(e - 1), y \in 1..(e - 1) : RequestLine(Line(1, e), x, y)
  BY DEF ReqEnd
<1>2. /\ 1 < x /\ x < y /\ input[x] = "sp" /\ input[y] = "sp"
      /\ \A i \in 1..(x - 1) : is_token(input[i])
      /\ \A i \in (x + 1)..(y - 1) : UriChar(input[i])
      /\ Version(y + 1, e - 2)
  BY <1>1 DEF RequestLine, Line, All
<1>0. 1 < x /\ x < y
  BY <1>2
<1>a. y + 1 \in 1..Len(input) /\ e - 2 \in 0..Len(input) /\ (y + 1) + 4 = y + 5 /\ (y + 1) + 5 = y + 6
  BY <1>0
<1>b. /\ (y + 1) + 4 <= e - 2 /\ Http(y + 1)
      /\ \E d \in (y + 1)..(e - 2) :
           input[d] = "." /\ Number((y + 1) + 5, d - 1) /\ Number(d + 1, e - 2)
  BY <1>2, <1>a, VersionText
<1>3. y + 5 <= e - 2 /\ Http(y + 1)
  BY <1>a, <1>b
<1>4. PICK d \in (y + 1)..(e - 2) :
        input[d] = "." /\ Number(y + 6, d - 1) /\ Number(d + 1, e - 2)
  BY <1>a, <1>b
<1>5. /\ \A i \in (y + 6)..(d - 1) : is_digit(input[i])
      /\ \A i \in (d + 1)..(e - 2) : is_digit(input[i])
  BY <1>4 DEF Number, All
<1>6. ASSUME NEW i \in 1..(e - 2) PROVE input[i] # "cr" /\ input[i] # "lf"
  <2>1. CASE i <= y
    <3>1. i \in 1..(x - 1) \/ i = x \/ i \in (x + 1)..(y - 1) \/ i = y
      BY <1>0, <2>1
    <3> QED BY <1>2, <3>1 DEF is_token, UriChar, is_ctl
  <2>2. CASE i \in (y + 1)..(y + 5)
    BY <1>3, <2>2 DEF Http
  <2>3. CASE y + 5 < i
    BY <1>4, <1>5, <2>3 DEF is_digit
  <2> QED BY <2>1, <2>2, <2>3
<1> QED BY <1>6

\* Nor has a later line.
LEMMA LaterPlain ==
  ASSUME input \in Seq(Char), NEW e \in 1..Len(input), NEW a \in 1..e, LaterEnd(a, e)
  PROVE  \A i \in a..(e - 2) : input[i] # "cr" /\ input[i] # "lf"
<1>1. ASSUME NEW x \in a..(e - 1), HeaderLine(Line(a, e), x)
      PROVE  \A i \in a..(e - 2) : input[i] # "cr" /\ input[i] # "lf"
  <2>1. /\ a < x /\ x < e - 2 /\ input[x] = ":" /\ input[x + 1] = "sp"
        /\ \A i \in a..(x - 1) : is_token(input[i])
        /\ \A i \in (x + 2)..(e - 2) : Text(input[i])
    BY <1>1 DEF HeaderLine, Line, All
  <2>2. ASSUME NEW i \in a..(e - 2) PROVE input[i] # "cr" /\ input[i] # "lf"
    <3>1. i \in a..(x - 1) \/ i = x \/ i = x + 1 \/ i \in (x + 2)..(e - 2)
      OBVIOUS
    <3> QED BY <2>1, <3>1 DEF is_token, Text, is_ctl
  <2> QED BY <2>2
<1>2. ASSUME NEW x \in a..(e - 1), FoldedLine(Line(a, e), x)
      PROVE  \A i \in a..(e - 2) : input[i] # "cr" /\ input[i] # "lf"
  <2>1. /\ a < x /\ x <= e - 1 /\ \A i \in a..(x - 1) : Blank(input[i])
        /\ x <= e - 2 => \A i \in x..(e - 2) : Text(input[i])
    BY <1>2 DEF FoldedLine, Line, All
  <2>2. ASSUME NEW i \in a..(e - 2) PROVE input[i] # "cr" /\ input[i] # "lf"
    <3>1. i \in a..(x - 1) \/ (x <= e - 2 /\ i \in x..(e - 2))
      BY <2>1
    <3> QED BY <2>1, <3>1 DEF Blank, Text, is_ctl
  <2> QED BY <2>2
<1> QED BY <1>1, <1>2 DEF LaterEnd

\* Carriage returns and line feeds of good text are paired.
LEMMA GoodPaired ==
  ASSUME input \in Seq(Char), NEW m, Good(m)
  PROVE  Paired(m)
<1>1. PICK f \in 1..m : NoLf(1, f - 1) /\ ReqEnd(f)
  BY DEF Good
<1>2. m \in 1..Len(input) /\ input[m] = "lf"
  BY DEF Good
<1>3. ASSUME NEW e \in 1..m, input[e] = "lf"
      PROVE  /\ e > 1 /\ input[e - 1] = "cr"
             /\ \E a \in 1..e : /\ Begins(a) /\ NoLf(a, e - 1)
                               /\ \A i \in a..(e - 2) : input[i] # "cr"
  <2>a. e \in 1..Len(input)
    BY <1>2
  <2>1. PICK a \in 1..e : Begins(a) /\ NoLf(a, e - 1)
    BY <2>a, LineBegins
  <2>2. CASE a = 1
    <3>1. f = e
      BY <1>1, <1>3, <2>1, <2>2 DEF NoLf, ReqEnd
    <3>2. \A i \in a..(e - 2) : input[i] # "cr"
      BY <1>1, <2>a, <2>2, <3>1, ReqPlain
    <3> QED BY <1>1, <2>1, <3>1, <3>2 DEF ReqEnd
  <2>3. CASE a # 1
    <3>1. LaterEnd(a, e)
      BY <1>3, <2>1, <2>3 DEF Good, Begins
    <3>2. \A i \in a..(e - 2) : input[i] # "cr"
      BY <2>a, <3>1, LaterPlain
    <3>3. e > 1 /\ input[e - 1] = "cr"
      BY <3>1 DEF LaterEnd
    <3> QED BY <2>1, <3>2, <3>3
  <2> QED BY <2>2, <2>3
<1>4. ASSUME NEW i \in 1..m, input[i] = "cr"
      PROVE  i < m /\ input[i + 1] = "lf"
  <2> DEFINE T == {k \in i..m : input[k] = "lf"}
  <2>1. PICK e \in T : \A k \in T : e <= k
    <3>1. T \subseteq Nat /\ T # {}
      BY <1>2
    <3> HIDE DEF T
    <3> QED BY <3>1, Least
  <2>2. e \in 1..m /\ input[e] = "lf" /\ NoLf(i, e - 1)
    <3>1. e \in i..m /\ input[e] = "lf"
      BY <2>1
    <3>2. ASSUME NEW j \in i..(e - 1), input[j] = "lf" PROVE FALSE
      <4>1. j \in T /\ j < e
        BY <1>2, <3>1, <3>2
      <4> QED BY <2>1, <4>1
    <3> QED BY <1>2, <3>1, <3>2 DEF NoLf
  <2>3. PICK a \in 1..e : /\ Begins(a) /\ NoLf(a, e - 1)
                           /\ \A k \in a..(e - 2) : input[k] # "cr"
    BY <1>3, <2>2
  <2>4. i <= e /\ i # e
    BY <1>4, <2>1
  <2>5. a <= i
    BY <2>2, <2>3, <2>4 DEF Begins, NoLf
  <2>6. i = e - 1
    BY <1>4, <2>3, <2>4, <2>5
  <2>7. i < m /\ e = i + 1
    BY <1>2, <2>2, <2>6
  <2> QED BY <2>2, <2>7
<1> QED BY <1>3, <1>4 DEF Paired

\* The first line of the reference is the one up to the first line feed.
LEMMA FirstLineIs ==
  ASSUME input \in Seq(Char), NEW n \in 1..Len(input), NEW f \in 1..n,
         input[f] = "lf", NoLf(1, f - 1)
  PROVE  FirstLine(n) = Line(1, f)
<1>1. f \in Ends(n) /\ \A g \in Ends(n) : f <= g
  BY DEF Ends, NoLf
<1>2. \A e \in Ends(n) : e \in Int
  BY DEF Ends
<1>a. \A e \in Ends(n) : (\A g \in Ends(n) : e <= g) => e = f
  BY <1>1, <1>2
<1>3. (CHOOSE e \in Ends(n) : \A g \in Ends(n) : e <= g) = f
  BY <1>1, <1>a
<1>4. f \in 1..Len(input) /\ 1 \in 1..f
  OBVIOUS
<1>5. LineOf(f) = Line(1, f)
  BY <1>4, LineOfIs DEF Begins
<1> QED BY <1>3, <1>5 DEF FirstLine

\* A request is good text and an empty line.
LEMMA RequestIsGood ==
  ASSUME input \in Seq(Char), NEW n \in 1..Len(input), IsRequest(n)
  PROVE  n >= 4 /\ input[n - 1] = "cr" /\ input[n] = "lf" /\ Good(n - 2)
<1> DEFINE first == FirstLine(n)
           last == LineOf(n)
<1>1. /\ n >= 2 /\ input[n] = "lf" /\ Paired(n)
      /\ last.from > last.to /\ last # first
      /\ \E x, y \in In(first) : RequestLine(first, x, y)
      /\ \A l \in Lines(n) \ {first, last} :
           \/ \E x \in In(l) : HeaderLine(l, x)
           \/ l.from # first.to + 3 /\ \E x \in In(l) : FoldedLine(l, x)
  BY DEF IsRequest
<1> HIDE DEF first, last
<1>2. input[n - 1] = "cr"
  BY <1>1 DEF Paired
<1>3. PICK f \in Ends(n) : \A g \in Ends(n) : f <= g
  <2>1. Ends(n) \subseteq Nat /\ n \in Ends(n)
    BY <1>1 DEF Ends
  <2> QED BY <2>1, Least
<1>4. f \in 1..n /\ input[f] = "lf" /\ NoLf(1, f - 1)
  <2>1. f \in 1..n /\ input[f] = "lf"
    BY <1>3 DEF Ends
  <2>2. ASSUME NEW j \in 1..(f - 1), input[j] = "lf" PROVE FALSE
    <3>1. j \in Ends(n) /\ j < f
      BY <2>1, <2>2 DEF Ends
    <3> QED BY <1>3, <2>1, <3>1
  <2> QED BY <2>1, <2>2 DEF NoLf
<1>5. first = Line(1, f)
  BY <1>4, FirstLineIs DEF first
<1>6. PICK a \in 1..n : Begins(a) /\ NoLf(a, n - 1)
  BY LineBegins
<1>7. last = Line(a, n)
  BY <1>6, LineOfIs DEF last
<1>8. a > n - 2
  BY <1>1, <1>7 DEF Line
<1>9. a = n - 1
  BY <1>1, <1>2, <1>6, <1>8 DEF Begins
<1>10. f # n
  <2>1. ASSUME f = n PROVE FALSE
    <3>1. a = 1
      BY <1>4, <1>6, <2>1 DEF Begins, NoLf
    <3> QED BY <1>1, <1>5, <1>7, <2>1, <3>1
  <2> QED BY <2>1
<1>11. f <= n - 2
  BY <1>2, <1>4, <1>10
<1>12. f >= 2 /\ input[f - 1] = "cr"
  BY <1>1, <1>4 DEF Paired
<1>13. n - 2 \in 1..Len(input) /\ input[n - 2] = "lf"
  <2>1. a # 1 /\ a - 1 = n - 2
    BY <1>4, <1>9, <1>11, <1>12
  <2> QED BY <1>6, <1>11, <1>12, <2>1 DEF Begins
<1>14. ReqEnd(f)
  <2>1. In(first) = 1..(f - 1)
    BY <1>4, <1>5 DEF In, Line
  <2> QED BY <1>1, <1>4, <1>5, <1>12, <2>1 DEF ReqEnd
<1>15. ASSUME NEW b \in 2..(n - 2), NEW e \in 2..(n - 2), input[b - 1] = "lf", b <= e,
              input[e] = "lf", NoLf(b, e - 1)
       PROVE  LaterEnd(b, e)
  <2> DEFINE l == Line(b, e)
  <2>1. b \in 1..e /\ e \in 1..Len(input) /\ Begins(b) /\ e \in Ends(n)
    BY <1>15 DEF Begins, Ends
  <2>2. l = LineOf(e)
    BY <1>15, <2>1, LineOfIs
  <2>3. l \in Lines(n)
    BY <2>1, <2>2 DEF Lines
  <2>4. l # first /\ l # last
    BY <1>5, <1>7 DEF Line
  <2>5. l.from = b /\ l.to = e - 2 /\ first.to = f - 2 /\ In(l) = b..(e - 1)
    BY <1>5 DEF Line, In
  <2>6. input[e - 1] = "cr"
    BY <1>1, <1>15 DEF Paired
  <2>7. \/ \E x \in b..(e - 1) : HeaderLine(l, x)
        \/ b # f + 1 /\ \E x \in b..(e - 1) : FoldedLine(l, x)
    <3>1. (f - 2) + 3 = f + 1
      BY <1>4
    <3> HIDE DEF l
    <3> QED BY <1>1, <2>3, <2>4, <2>5, <3>1
  <2>8. b # f + 1 => ~ NoLf(1, b - 2)
    <3>1. f <= b - 1
      BY <1>4, <1>15 DEF NoLf
    <3> QED BY <1>4, <3>1 DEF NoLf
  <2>9. \A x \in b..(e - 1) : HeaderLine(l, x) \/ FoldedLine(l, x) => b + 2 <= e
    <3>1. ASSUME NEW x \in b..(e - 1), HeaderLine(l, x) PROVE b + 2 <= e
      <4>1. l.from < x /\ x < l.to
        BY <3>1 DEF HeaderLine
      <4> QED BY <2>5, <4>1
    <3>2. ASSUME NEW x \in b..(e - 1), FoldedLine(l, x) PROVE b + 2 <= e
      <4>1. l.from < x /\ x <= l.to + 1
        BY <3>2 DEF FoldedLine
      <4> QED BY <2>5, <4>1
    <3> QED BY <3>1, <3>2
  <2> HIDE DEF l
  <2>10. b + 2 <= e
    BY <2>7, <2>9
  <2> QED BY <1>15, <2>6, <2>7, <2>8, <2>10 DEF LaterEnd, l
<1>16. Good(n - 2)
  BY <1>4, <1>11, <1>13, <1>14, <1>15 DEF Good
<1> QED BY <1>1, <1>2, <1>4, <1>11, <1>12, <1>16

\* Good text and an empty line are a request.
LEMMA GoodIsRequest ==
  ASSUME input \in Seq(Char), NEW n \in 4..Len(input),
         input[n - 1] = "cr", input[n] = "lf", Good(n - 2)
  PROVE  IsRequest(n)
<1> DEFINE first == FirstLine(n)
           last == LineOf(n)
<1>1. PICK f \in 1..(n - 2) : NoLf(1, f - 1) /\ ReqEnd(f)
  BY DEF Good
<1>2. first = Line(1, f)
  <2>1. n \in 1..Len(input) /\ f \in 1..n /\ input[f] = "lf"
    BY <1>1 DEF ReqEnd
  <2> QED BY <1>1, <2>1, FirstLineIs
<1>3. last = Line(n - 1, n)
  <2>1. n \in 1..Len(input) /\ n - 1 \in 1..n /\ (n - 1) - 1 = n - 2
    OBVIOUS
  <2>2. Begins(n - 1) /\ NoLf(n - 1, n - 1)
    BY <2>1 DEF Begins, NoLf, Good
  <2> QED BY <2>1, <2>2, LineOfIs
<1> HIDE DEF first, last
<1>4. Paired(n)
  <2>1. Paired(n - 2) /\ input[n - 2] = "lf"
    BY GoodPaired DEF Good
  <2>2. ASSUME NEW i \in 1..n
        PROVE  /\ input[i] = "lf" => i > 1 /\ input[i - 1] = "cr"
               /\ input[i] = "cr" => i < n /\ input[i + 1] = "lf"
    <3>1. CASE i \in 1..(n - 2)
      BY <2>1, <3>1 DEF Paired
    <3>2. CASE i = n - 1
      <4>1. i < n /\ i + 1 = n
        BY <3>2
      <4> QED BY <3>2, <4>1
    <3>3. CASE i = n
      BY <3>3
    <3> QED BY <3>1, <3>2, <3>3
  <2> QED BY <2>2 DEF Paired
<1>5. last.from > last.to /\ last # first
  BY <1>2, <1>3 DEF Line
<1>6. \E x, y \in In(first) : RequestLine(first, x, y)
  <2>1. In(first) = 1..(f - 1)
    BY <1>2 DEF In, Line
  <2> QED BY <1>1, <1>2, <2>1 DEF ReqEnd
<1>7. ASSUME NEW l \in Lines(n) \ {first, last}
      PROVE  \/ \E x \in In(l) : HeaderLine(l, x)
             \/ l.from # first.to + 3 /\ \E x \in In(l) : FoldedLine(l, x)
  <2>1. PICK e \in Ends(n) : l = LineOf(e)
    BY DEF Lines
  <2>2. e \in 1..n /\ e \in 1..Len(input) /\ input[e] = "lf"
    BY <2>1 DEF Ends
  <2>3. PICK a \in 1..e : Begins(a) /\ NoLf(a, e - 1)
    BY <2>2, LineBegins
  <2>4. l = Line(a, e)
    BY <2>1, <2>2, <2>3, LineOfIs
  <2>5. a # 1
    <3>1. ASSUME a = 1 PROVE FALSE
      <4>1. e = f
        BY <1>1, <2>2, <2>3, <3>1 DEF NoLf, ReqEnd
      <4> QED BY <1>2, <2>4, <3>1, <4>1
    <3> QED BY <3>1
  <2>6. e # n
    BY <2>1 DEF last
  <2>7. e \in 2..(n - 2) /\ a \in 2..(n - 2) /\ input[a - 1] = "lf" /\ a <= e
    BY <2>2, <2>3, <2>5, <2>6 DEF Begins
  <2>8. LaterEnd(a, e)
    BY <2>2, <2>3, <2>7, GoodEnd
  <2>9. l.from = a /\ In(l) = a..(e - 1) /\ first.to + 3 = f + 1
    BY <1>2, <2>2, <2>4 DEF Line, In
  <2>10. ~ NoLf(1, a - 2) => a # f + 1
    BY <1>1, <2>7 DEF NoLf
  <2>11. CASE \E x \in a..(e - 1) : HeaderLine(Line(a, e), x)
    BY <2>4, <2>9, <2>11
  <2>12. CASE ~ NoLf(1, a - 2) /\ \E x \in a..(e - 1) : FoldedLine(Line(a, e), x)
    BY <2>4, <2>9, <2>10, <2>12
  <2> QED BY <2>8, <2>11, <2>12 DEF LaterEnd
<1>8. n >= 2
  OBVIOUS
<1> QED BY <1>4, <1>5, <1>6, <1>7, <1>8 DEF IsRequest, first, last

\* A request that goes on after n, in its first line, has that line end after n.
LEMMA FirstLineEnds ==
  ASSUME input \in Seq(Char), NEW n \in 0..Len(input), NoLf(1, n),
         NEW k \in (n + 1)..Len(input), IsRequest(k)
  PROVE  \E e \in (n + 1)..Len(input) : ReqEnd(e)
<1>1. k \in 1..Len(input)
  OBVIOUS
<1>2. k >= 4 /\ Good(k - 2)
  BY <1>1, RequestIsGood
<1>3. PICK e \in 1..(k - 2) : ReqEnd(e)
  BY <1>2 DEF Good
<1>4. input[e] = "lf"
  BY <1>3 DEF ReqEnd
<1>5. e \in (n + 1)..Len(input)
  BY <1>2, <1>3, <1>4 DEF NoLf
<1> QED BY <1>3, <1>5

\* A request that goes on after n, in the line from a, has that line end after n.
LEMMA LaterLineEnds ==
  ASSUME input \in Seq(Char), NEW a \in 2..Len(input), Good(a - 1),
         NEW n \in (a - 1)..Len(input), NoLf(a, n),
         NEW k \in (n + 1)..Len(input), IsRequest(k)
  PROVE  \E e \in (n + 1)..Len(input) : LaterEnd(a, e) \/ EmptyEnd(a, e)
<1>1. k \in 1..Len(input)
  OBVIOUS
<1>2. k >= 4 /\ input[k - 1] = "cr" /\ input[k] = "lf" /\ Good(k - 2)
  BY <1>1, RequestIsGood
<1>a. input[a - 1] = "lf" /\ input[k - 2] = "lf"
  BY <1>2 DEF Good
<1> DEFINE T == {i \in (n + 1)..k : input[i] = "lf"}
<1>3. PICK e \in T : \A i \in T : e <= i
  <2>1. T \subseteq Nat
    OBVIOUS
  <2>2. k \in T
    BY <1>2
  <2> HIDE DEF T
  <2> QED BY <2>1, <2>2, Least
<1>4. e \in (n + 1)..k /\ input[e] = "lf"
  BY <1>3
<1>5. NoLf(a, e - 1)
  <2>1. ASSUME NEW j \in a..(e - 1), input[j] = "lf" PROVE FALSE
    <3>1. j \notin a..n
      BY <2>1 DEF NoLf
    <3>2. j \in T /\ j < e
      BY <1>4, <2>1, <3>1
    <3> QED BY <1>3, <1>4, <3>2
  <2> QED BY <2>1 DEF NoLf
<1>6. CASE e = k
  <2>1. a >= k - 1
    BY <1>2, <1>5, <1>6, <1>a DEF NoLf
  <2>2. a # k
    BY <1>2, <1>a
  <2>3. a = k - 1
    BY <1>4, <1>6, <2>1, <2>2
  <2> QED BY <1>2, <1>4, <1>6, <2>3 DEF EmptyEnd
<1>7. CASE e # k
  <2>1. e <= k - 2
    BY <1>2, <1>4, <1>7
  <2>2. a \in 2..(k - 2) /\ e \in 2..(k - 2) /\ a <= e
    BY <1>4, <2>1
  <2>3. LaterEnd(a, e)
    BY <1>2, <1>4, <1>5, <1>a, <2>2, GoodEnd
  <2> QED BY <1>4, <2>3
<1> QED BY <1>6, <1>7

-----------------------------------------------------------------------------
(* The first line, character by character *)

\* A request line that ends at e, with its parts: the method is before x, the uri
\* between x and y, and the version has its dot at d.
Parts(e, x, y, d) ==
  /\ 1 < x /\ x < y /\ y + 6 < d /\ d + 2 < e
  /\ \A i \in 1..(x - 1) : is_token(input[i])
  /\ input[x] = "sp"
  /\ \A i \in (x + 1)..(y - 1) : UriChar(input[i])
  /\ input[y] = "sp" /\ Http(y + 1)
  /\ \A i \in (y + 6)..(d - 1) : is_digit(input[i])
  /\ input[d] = "."
  /\ \A i \in (d + 1)..(e - 2) : is_digit(input[i])
  /\ input[e - 1] = "cr" /\ input[e] = "lf"

\* A request line has these parts.
LEMMA ReqLineParts ==
  ASSUME input \in Seq(Char), NEW e \in 1..Len(input), NEW x \in 1..e, NEW y \in 1..e,
         input[e - 1] = "cr", input[e] = "lf"
  PROVE  RequestLine(Line(1, e), x, y) <=> \E d \in 1..e : Parts(e, x, y, d)
<1>1. RequestLine(Line(1, e), x, y) <=>
        /\ 1 < x /\ x < y /\ input[x] = "sp" /\ input[y] = "sp"
        /\ \A i \in 1..(x - 1) : is_token(input[i])
        /\ \A i \in (x + 1)..(y - 1) : UriChar(input[i])
        /\ Version(y + 1, e - 2)
  BY DEF RequestLine, Line, All
<1>2. CASE e < 2 \/ ~ x < y
  <2>1. ~ (1 < x /\ x < y)
    BY <1>2
  <2> QED BY <1>1, <2>1 DEF Parts
<1>3. CASE e >= 2 /\ x < y /\ y = e
  BY <1>1, <1>3 DEF Parts
<1>4. CASE e >= 2 /\ x < y /\ y # e
  <2>1. y + 1 \in 1..Len(input) /\ e - 2 \in 0..Len(input) /\ (y + 1) + 4 = y + 5 /\ (y + 1) + 5 = y + 6
    BY <1>4
  <2>2. Version(y + 1, e - 2) <=>
          /\ (y + 1) + 4 <= e - 2 /\ Http(y + 1)
          /\ \E d \in (y + 1)..(e - 2) :
               input[d] = "." /\ Number((y + 1) + 5, d - 1) /\ Number(d + 1, e - 2)
    BY <2>1, VersionText
  <2>3. Version(y + 1, e - 2) <=>
          \E d \in 1..e :
            /\ y + 6 < d /\ d + 2 < e /\ Http(y + 1) /\ input[d] = "."
            /\ \A i \in (y + 6)..(d - 1) : is_digit(input[i])
            /\ \A i \in (d + 1)..(e - 2) : is_digit(input[i])
    <3>1. ASSUME Version(y + 1, e - 2)
          PROVE  \E d \in 1..e :
                   /\ y + 6 < d /\ d + 2 < e /\ Http(y + 1) /\ input[d] = "."
                   /\ \A i \in (y + 6)..(d - 1) : is_digit(input[i])
                   /\ \A i \in (d + 1)..(e - 2) : is_digit(input[i])
      <4>1. PICK d \in (y + 1)..(e - 2) :
              input[d] = "." /\ Number(y + 6, d - 1) /\ Number(d + 1, e - 2)
        BY <2>1, <2>2, <3>1
      <4>2. /\ y + 6 <= d - 1 /\ d + 1 <= e - 2
            /\ \A i \in (y + 6)..(d - 1) : is_digit(input[i])
            /\ \A i \in (d + 1)..(e - 2) : is_digit(input[i])
        BY <4>1 DEF Number, All
      <4>3. d \in 1..e /\ y + 6 < d /\ d + 2 < e
        BY <4>2
      <4>4. Http(y + 1)
        BY <2>2, <3>1
      <4> QED BY <4>1, <4>2, <4>3, <4>4
    <3>2. ASSUME NEW d \in 1..e,
                 y + 6 < d, d + 2 < e, Http(y + 1), input[d] = ".",
                 \A i \in (y + 6)..(d - 1) : is_digit(input[i]),
                 \A i \in (d + 1)..(e - 2) : is_digit(input[i])
          PROVE  Version(y + 1, e - 2)
      <4>1. d \in (y + 1)..(e - 2) /\ y + 6 <= d - 1 /\ d + 1 <= e - 2 /\ y + 5 <= e - 2
        BY <3>2
      <4>2. Number(y + 6, d - 1) /\ Number(d + 1, e - 2)
        BY <3>2, <4>1 DEF Number, All
      <4> QED BY <2>1, <2>2, <3>2, <4>1, <4>2
    <3> QED BY <3>1, <3>2
  <2> QED BY <1>1, <2>3 DEF Parts
<1> QED BY <1>2, <1>3, <1>4

\* In other words:
LEMMA ReqEndParts ==
  ASSUME input \in Seq(Char), NEW e \in 1..Len(input), ReqEnd(e)
  PROVE  \E x, y, d \in 1..e : Parts(e, x, y, d)
<1>1. PICK x \in 1..(e - 1), y \in 1..(e - 1) : RequestLine(Line(1, e), x, y)
  BY DEF ReqEnd
<1>2. x \in 1..e /\ y \in 1..e
  OBVIOUS
<1> QED BY <1>1, <1>2, ReqLineParts DEF ReqEnd

\* The first n bytes are a part of a method.
InMethod(n) == \A i \in 1..n : is_token(input[i])

\* They are a method, the space at x and a part of a uri.
InUri(x, n) ==
  /\ 1 < x /\ x <= n /\ input[x] = "sp"
  /\ \A i \in 1..(x - 1) : is_token(input[i])
  /\ \A i \in (x + 1)..n : UriChar(input[i])

\* A method and a uri end at the spaces at x and y, and j characters of HTTP/ follow.
InHttp(x, y, j) ==
  /\ InUri(x, y - 1) /\ input[y] = "sp"
  /\ j >= 1 => input[y + 1] = "H"
  /\ j >= 2 => input[y + 2] = "T"
  /\ j >= 3 => input[y + 3] = "T"
  /\ j >= 4 => input[y + 4] = "P"
  /\ j >= 5 => input[y + 5] = "/"

\* Then come digits up to n.
InMajor(x, y, n) ==
  InHttp(x, y, 5) /\ y + 5 <= n /\ \A i \in (y + 6)..n : is_digit(input[i])

\* Then a dot at d, and digits up to n.
InMinor(x, y, d, n) ==
  /\ InMajor(x, y, d - 1) /\ y + 6 < d /\ d <= n /\ input[d] = "."
  /\ \A i \in (d + 1)..n : is_digit(input[i])

\* No request line ends after n.
NoReqEnd(n) == \A e \in (n + 1)..Len(input) : ~ ReqEnd(e)

\* The space after the method, and the one after the uri, are where the parser saw
\* them.
LEMMA SameX ==
  ASSUME input \in Seq(Char), NEW n \in 1..Len(input), NEW x \in 1..n, InUri(x, n),
         NEW e \in (n + 1)..Len(input), NEW u \in 1..e, NEW v \in 1..e, NEW d \in 1..e,
         Parts(e, u, v, d)
  PROVE  u = x /\ n < v
<1>a. /\ 1 < u /\ u < v /\ input[u] = "sp" /\ input[v] = "sp"
      /\ \A i \in 1..(u - 1) : is_token(input[i])
  BY DEF Parts
<1>b. /\ 1 < x /\ x <= n /\ input[x] = "sp"
      /\ \A i \in 1..(x - 1) : is_token(input[i])
      /\ \A i \in (x + 1)..n : UriChar(input[i])
  BY DEF InUri
<1>c. ~ is_token("sp") /\ ~ UriChar("sp")
  BY DEF is_token, is_tspecial, UriChar
<1>1. u = x
  <2>1. u \notin 1..(x - 1)
    BY <1>a, <1>b, <1>c
  <2>2. x \notin 1..(u - 1)
    BY <1>a, <1>b, <1>c
  <2> QED BY <2>1, <2>2
<1>2. v \notin (x + 1)..n
  BY <1>a, <1>b, <1>c
<1>3. u < v
  BY <1>a
<1> QED BY <1>1, <1>2, <1>3

\* The same for the space after the uri
LEMMA SameY ==
  ASSUME input \in Seq(Char), NEW n \in 1..Len(input), NEW x \in 1..n, NEW y \in 2..n,
         InUri(x, y - 1), input[y] = "sp",
         NEW e \in (n + 1)..Len(input), NEW u \in 1..e, NEW v \in 1..e, NEW d \in 1..e,
         Parts(e, u, v, d)
  PROVE  u = x /\ v = y
<1>a. 1 < x /\ x <= y - 1
  BY DEF InUri
<1>1. y - 1 \in 1..Len(input) /\ x \in 1..(y - 1) /\ e \in ((y - 1) + 1)..Len(input)
  BY <1>a
<1>2. u = x /\ y - 1 < v
  BY <1>1, SameX
<1>3. \A i \in (u + 1)..(v - 1) : UriChar(input[i])
  BY DEF Parts
<1>4. y \notin (u + 1)..(v - 1)
  BY <1>3 DEF UriChar
<1> QED BY <1>a, <1>2, <1>4

\* A character that ends neither a method nor goes on with it ends the hope for a
\* request line.
LEMMA MethodBlocked ==
  ASSUME input \in Seq(Char), NEW n \in 0..Len(input), n + 1 <= Len(input), InMethod(n),
         ~ is_token(input[n + 1]), n = 0 \/ input[n + 1] # "sp"
  PROVE  NoReqEnd(n)
<1>1. SUFFICES ASSUME NEW e \in (n + 1)..Len(input), ReqEnd(e) PROVE FALSE
  BY DEF NoReqEnd
<1>a. e \in 1..Len(input)
  OBVIOUS
<1>2. PICK x \in 1..e, y \in 1..e, d \in 1..e : Parts(e, x, y, d)
  BY <1>1, <1>a, ReqEndParts
<1>3. 1 < x /\ input[x] = "sp" /\ \A i \in 1..(x - 1) : is_token(input[i])
  BY <1>2 DEF Parts
<1>4. x \notin 1..n
  BY <1>3 DEF InMethod, is_token, is_tspecial
<1>5. x # n + 1
  <2>1. n = 0 => x # n + 1
    BY <1>3
  <2>2. input[n + 1] # "sp" => x # n + 1
    BY <1>3
  <2> QED BY <2>1, <2>2
<1>6. n + 1 \in 1..(x - 1)
  BY <1>4, <1>5
<1> QED BY <1>3, <1>6

\* The same in the uri
LEMMA UriBlocked ==
  ASSUME input \in Seq(Char), NEW n \in 1..Len(input), n + 1 <= Len(input),
         NEW x \in 1..n, InUri(x, n), input[n + 1] # "sp", is_ctl(input[n + 1])
  PROVE  NoReqEnd(n)
<1>1. SUFFICES ASSUME NEW e \in (n + 1)..Len(input), ReqEnd(e) PROVE FALSE
  BY DEF NoReqEnd
<1>a. e \in 1..Len(input)
  OBVIOUS
<1>2. PICK u \in 1..e, y \in 1..e, d \in 1..e : Parts(e, u, y, d)
  BY <1>1, <1>a, ReqEndParts
<1>3. u = x /\ n < y
  BY <1>2, SameX
<1>4. x <= n
  BY DEF InUri
<1>5. n + 1 \in (u + 1)..(y - 1) \/ n + 1 = y
  BY <1>3, <1>4
<1> QED BY <1>2, <1>5 DEF Parts, UriChar

\* The same in HTTP/
LEMMA HttpBlocked ==
  ASSUME input \in Seq(Char), NEW y \in 2..Len(input), NEW x \in 1..y, NEW j \in 0..4,
         y + j + 1 <= Len(input), InHttp(x, y, j), ~ InHttp(x, y, j + 1)
  PROVE  NoReqEnd(y + j)
<1>1. SUFFICES ASSUME NEW e \in (y + j + 1)..Len(input), ReqEnd(e) PROVE FALSE
  BY DEF NoReqEnd
<1>a. e \in 1..Len(input)
  OBVIOUS
<1>2. PICK u \in 1..e, v \in 1..e, d \in 1..e : Parts(e, u, v, d)
  BY <1>1, <1>a, ReqEndParts
<1>3. y + j \in 1..Len(input) /\ x \in 1..(y + j) /\ y \in 2..(y + j)
  OBVIOUS
<1>4. InUri(x, y - 1) /\ input[y] = "sp"
  BY DEF InHttp
<1>5. v = y
  BY <1>2, <1>3, <1>4, SameY
<1>6. Http(y + 1)
  BY <1>2, <1>5 DEF Parts
<1>7. /\ input[y + 1] = "H" /\ input[y + 2] = "T" /\ input[y + 3] = "T"
      /\ input[y + 4] = "P" /\ input[y + 5] = "/"
  BY <1>6 DEF Http
<1> QED BY <1>4, <1>7 DEF InHttp

\* The same in the first number of the version
LEMMA MajorBlocked ==
  ASSUME input \in Seq(Char), NEW n \in 1..Len(input), n + 1 <= Len(input),
         NEW y \in 2..n, NEW x \in 1..n, InMajor(x, y, n),
         ~ is_digit(input[n + 1]), n = y + 5 \/ input[n + 1] # "."
  PROVE  NoReqEnd(n)
<1>1. SUFFICES ASSUME NEW e \in (n + 1)..Len(input), ReqEnd(e) PROVE FALSE
  BY DEF NoReqEnd
<1>a. e \in 1..Len(input)
  OBVIOUS
<1>2. PICK u \in 1..e, v \in 1..e, d \in 1..e : Parts(e, u, v, d)
  BY <1>1, <1>a, ReqEndParts
<1>3. InUri(x, y - 1) /\ input[y] = "sp"
  BY DEF InMajor, InHttp
<1>4. v = y
  BY <1>2, <1>3, SameY
<1>5. /\ y + 6 < d /\ input[d] = "." /\ \A i \in (y + 6)..(d - 1) : is_digit(input[i])
  BY <1>2, <1>4 DEF Parts
<1>6. y + 5 <= n /\ \A i \in (y + 6)..n : is_digit(input[i])
  BY DEF InMajor
<1>7. n < d
  BY <1>5, <1>6 DEF is_digit
<1>8. n + 1 # d
  BY <1>5
<1>9. n + 1 \in (y + 6)..(d - 1)
  BY <1>6, <1>7, <1>8
<1> QED BY <1>5, <1>9

\* The same in the second
LEMMA MinorBlocked ==
  ASSUME input \in Seq(Char), NEW n \in 1..Len(input), n + 1 <= Len(input),
         NEW y \in 2..n, NEW x \in 1..n, NEW d \in 1..n, InMinor(x, y, d, n),
         ~ is_digit(input[n + 1]), n = d \/ input[n + 1] # "cr"
  PROVE  NoReqEnd(n)
<1>1. SUFFICES ASSUME NEW e \in (n + 1)..Len(input), ReqEnd(e) PROVE FALSE
  BY DEF NoReqEnd
<1>a. e \in 1..Len(input)
  OBVIOUS
<1>2. PICK u \in 1..e, v \in 1..e, b \in 1..e : Parts(e, u, v, b)
  BY <1>1, <1>a, ReqEndParts
<1>3. InUri(x, y - 1) /\ input[y] = "sp"
  BY DEF InMinor, InMajor, InHttp
<1>4. v = y
  BY <1>2, <1>3, SameY
<1>5. /\ y + 6 < b /\ b + 2 < e /\ input[b] = "." /\ input[e - 1] = "cr" /\ input[e] = "lf"
      /\ \A i \in (y + 6)..(b - 1) : is_digit(input[i])
      /\ \A i \in (b + 1)..(e - 2) : is_digit(input[i])
  BY <1>2, <1>4 DEF Parts
<1>6. /\ y + 6 < d /\ d <= n /\ input[d] = "."
      /\ \A i \in (y + 6)..(d - 1) : is_digit(input[i])
      /\ \A i \in (d + 1)..n : is_digit(input[i])
  BY DEF InMinor, InMajor
<1>7. b = d
  <2>1. ~ (b < d)
    BY <1>5, <1>6 DEF is_digit
  <2>2. ~ (d < b)
    BY <1>5, <1>6 DEF is_digit
  <2> QED BY <2>1, <2>2
<1>8. n < e - 1
  <2>1. e - 1 # n
    BY <1>5, <1>6, <1>7 DEF is_digit
  <2> QED BY <2>1
<1>9. n + 1 # e - 1
  BY <1>5, <1>6, <1>7
<1>10. n + 1 \in (b + 1)..(e - 2)
  BY <1>6, <1>7, <1>8, <1>9
<1> QED BY <1>5, <1>10

\* The carriage return after the version must be followed by a line feed.
LEMMA ReqCrBlocked ==
  ASSUME input \in Seq(Char), NEW n \in 1..Len(input), n + 1 <= Len(input),
         input[n] = "cr", input[n + 1] # "lf"
  PROVE  NoReqEnd(n)
<1>1. SUFFICES ASSUME NEW e \in (n + 1)..Len(input), ReqEnd(e) PROVE FALSE
  BY DEF NoReqEnd
<1>2. e \in 1..Len(input) /\ input[e] = "lf"
  BY <1>1 DEF ReqEnd
<1>3. \A i \in 1..(e - 2) : input[i] # "cr"
  BY <1>1, <1>2, ReqPlain
<1>4. e # n + 1
  BY <1>2
<1>5. n \in 1..(e - 2)
  BY <1>4
<1> QED BY <1>3, <1>5

-----------------------------------------------------------------------------
(* A later line, from a on, character by character *)

\* Up to n the line is a part of a header's name.
InName(a, n) == a <= n /\ \A i \in a..n : is_token(input[i])

\* It is a name, the colon and the space at x, and a part of the value.
InValue(a, x, n) ==
  /\ a < x /\ x + 1 <= n /\ input[x] = ":" /\ input[x + 1] = "sp"
  /\ \A i \in a..(x - 1) : is_token(input[i])
  /\ \A i \in (x + 2)..n : Text(input[i])

\* It is folded and has been blank so far.
InBlanks(a, n) == ~ NoLf(1, a - 2) /\ a <= n /\ \A i \in a..n : Blank(input[i])

\* It is folded and goes on with the value from z on.
InFolded(a, z, n) ==
  /\ ~ NoLf(1, a - 2) /\ a < z /\ z <= n /\ \A i \in a..(z - 1) : Blank(input[i])
  /\ ~ Blank(input[z]) /\ \A i \in z..n : Text(input[i])

\* The line does not end after n.
NoLineEnd(a, n) == \A e \in (n + 1)..Len(input) : ~ LaterEnd(a, e) /\ ~ EmptyEnd(a, e)

\* A header line that ends at e, with its colon at x
HeaderParts(a, e, x) ==
  /\ a < x /\ x + 2 < e /\ input[x] = ":" /\ input[x + 1] = "sp"
  /\ \A i \in a..(x - 1) : is_token(input[i])
  /\ \A i \in (x + 2)..(e - 2) : Text(input[i])

\* A folded line that ends at e, with its text from z on
FoldedParts(a, e, z) ==
  /\ a < z /\ z < e
  /\ \A i \in a..(z - 1) : Blank(input[i])
  /\ z <= e - 2 => ~ Blank(input[z]) /\ \A i \in z..(e - 2) : Text(input[i])

\* These are the reference's.
LEMMA LineParts ==
  ASSUME NEW a \in Nat, NEW e \in Nat, NEW x \in Nat
  PROVE  /\ HeaderLine(Line(a, e), x) <=> HeaderParts(a, e, x)
         /\ FoldedLine(Line(a, e), x) <=> FoldedParts(a, e, x)
<1> DEFINE l == Line(a, e)
<1>1. l.from = a /\ l.to = e - 2
  BY DEF Line
<1>2. x < e - 2 <=> x + 2 < e
  OBVIOUS
<1>3. x <= (e - 2) + 1 <=> x < e
  OBVIOUS
<1> HIDE DEF l
<1>4. HeaderLine(l, x) <=> HeaderParts(a, e, x)
  BY <1>1, <1>2 DEF HeaderLine, HeaderParts, All
<1>5. FoldedLine(l, x) <=> FoldedParts(a, e, x)
  BY <1>1, <1>3 DEF FoldedLine, FoldedParts, All
<1> QED BY <1>4, <1>5 DEF l

\* A later line with its parts
LEMMA LaterEndParts ==
  ASSUME input \in Seq(Char), NEW e \in 1..Len(input), NEW a \in 1..e
  PROVE  LaterEnd(a, e) <=>
           /\ a + 2 <= e /\ input[e - 1] = "cr" /\ input[e] = "lf"
           /\ \/ \E x \in a..(e - 1) : HeaderParts(a, e, x)
              \/ ~ NoLf(1, a - 2) /\ \E x \in a..(e - 1) : FoldedParts(a, e, x)
<1>1. ASSUME NEW x \in a..(e - 1)
      PROVE  /\ HeaderLine(Line(a, e), x) <=> HeaderParts(a, e, x)
             /\ FoldedLine(Line(a, e), x) <=> FoldedParts(a, e, x)
  <2>1. a \in Nat /\ e \in Nat /\ x \in Nat
    OBVIOUS
  <2> QED BY <2>1, LineParts
<1>2. (\E x \in a..(e - 1) : HeaderLine(Line(a, e), x)) <=> \E x \in a..(e - 1) : HeaderParts(a, e, x)
  BY <1>1
<1>3. (\E x \in a..(e - 1) : FoldedLine(Line(a, e), x)) <=> \E x \in a..(e - 1) : FoldedParts(a, e, x)
  BY <1>1
<1> QED BY <1>2, <1>3 DEF LaterEnd

\* A line may only begin with a token character, a blank if it is folded, or the
\* carriage return of the empty line.
LEMMA StartBlocked ==
  ASSUME input \in Seq(Char), NEW a \in 2..Len(input),
         ~ is_token(input[a]), input[a] # "cr", NoLf(1, a - 2) \/ ~ Blank(input[a])
  PROVE  NoLineEnd(a, a - 1)
<1>1. ASSUME NEW e \in a..Len(input), LaterEnd(a, e) PROVE FALSE
  <2>1. e \in 1..Len(input) /\ a \in 1..e
    OBVIOUS
  <2>2. ASSUME NEW x \in a..(e - 1), HeaderParts(a, e, x) PROVE FALSE
    BY <2>2 DEF HeaderParts
  <2>3. ASSUME NEW x \in a..(e - 1), FoldedParts(a, e, x), ~ NoLf(1, a - 2) PROVE FALSE
    BY <2>3 DEF FoldedParts
  <2> QED BY <1>1, <2>1, <2>2, <2>3, LaterEndParts
<1> QED BY <1>1 DEF NoLineEnd, EmptyEnd

\* A name goes on with a token character or ends with a colon.
LEMMA NameBlocked ==
  ASSUME input \in Seq(Char), NEW n \in 1..Len(input), n + 1 <= Len(input),
         NEW a \in 2..n, InName(a, n), ~ is_token(input[n + 1]), input[n + 1] # ":"
  PROVE  NoLineEnd(a, n)
<1>a. is_token(input[a]) /\ \A i \in a..n : is_token(input[i])
  BY DEF InName
<1>1. ASSUME NEW e \in (n + 1)..Len(input), LaterEnd(a, e) PROVE FALSE
  <2>1. e \in 1..Len(input) /\ a \in 1..e
    OBVIOUS
  <2>2. ASSUME NEW x \in a..(e - 1), HeaderParts(a, e, x) PROVE FALSE
    <3>1. input[x] = ":" /\ \A i \in a..(x - 1) : is_token(input[i])
      BY <2>2 DEF HeaderParts
    <3>2. x \notin a..n
      BY <1>a, <3>1 DEF is_token, is_tspecial
    <3>3. x # n + 1
      BY <3>1
    <3>4. n + 1 \in a..(x - 1)
      BY <3>2, <3>3
    <3> QED BY <3>1, <3>4
  <2>3. ASSUME NEW x \in a..(e - 1), FoldedParts(a, e, x) PROVE FALSE
    <3>1. Blank(input[a])
      BY <2>3 DEF FoldedParts
    <3> QED BY <1>a, <3>1 DEF Blank, is_token, is_ctl, is_tspecial
  <2> QED BY <1>1, <2>1, <2>2, <2>3, LaterEndParts
<1>2. input[a] # "cr"
  BY <1>a DEF is_token, is_ctl
<1> QED BY <1>1, <1>2 DEF NoLineEnd, EmptyEnd

\* After the colon comes a space.
LEMMA ColonBlocked ==
  ASSUME input \in Seq(Char), NEW n \in 1..Len(input), n + 1 <= Len(input),
         NEW a \in 2..n, a < n, InName(a, n - 1), input[n] = ":", input[n + 1] # "sp"
  PROVE  NoLineEnd(a, n)
<1>a. is_token(input[a]) /\ \A i \in a..(n - 1) : is_token(input[i])
  BY DEF InName
<1>b. ~ is_token(":")
  BY DEF is_token, is_tspecial
<1>1. ASSUME NEW e \in (n + 1)..Len(input), LaterEnd(a, e) PROVE FALSE
  <2>1. e \in 1..Len(input) /\ a \in 1..e
    OBVIOUS
  <2>2. ASSUME NEW x \in a..(e - 1), HeaderParts(a, e, x) PROVE FALSE
    <3>1. input[x] = ":" /\ input[x + 1] = "sp" /\ \A i \in a..(x - 1) : is_token(input[i])
      BY <2>2 DEF HeaderParts
    <3>2. x \notin a..(n - 1)
      BY <1>a, <1>b, <3>1
    <3>3. n \notin a..(x - 1)
      BY <1>b, <3>1
    <3>4. x = n
      BY <3>2, <3>3
    <3> QED BY <3>1, <3>4
  <2>3. ASSUME NEW x \in a..(e - 1), FoldedParts(a, e, x) PROVE FALSE
    <3>1. Blank(input[a])
      BY <2>3 DEF FoldedParts
    <3> QED BY <1>a, <3>1 DEF Blank, is_token, is_ctl, is_tspecial
  <2> QED BY <1>1, <2>1, <2>2, <2>3, LaterEndParts
<1>2. input[a] # "cr"
  BY <1>a DEF is_token, is_ctl
<1> QED BY <1>1, <1>2 DEF NoLineEnd, EmptyEnd

\* A value goes on with text or ends with a carriage return.
LEMMA ValueBlocked ==
  ASSUME input \in Seq(Char), NEW n \in 1..Len(input), n + 1 <= Len(input),
         NEW a \in 2..n, NEW x \in 1..n, InValue(a, x, n),
         is_ctl(input[n + 1]), input[n + 1] # "cr"
  PROVE  NoLineEnd(a, n)
<1>a. /\ a < x /\ x + 1 <= n /\ input[x] = ":" /\ input[x + 1] = "sp"
      /\ is_token(input[a]) /\ \A i \in a..(x - 1) : is_token(input[i])
      /\ \A i \in (x + 2)..n : Text(input[i])
  BY DEF InValue
<1>b. ~ is_token(":")
  BY DEF is_token, is_tspecial
<1>c. input[n] # "cr"
  <2>1. n = x + 1 \/ n \in (x + 2)..n
    BY <1>a
  <2> QED BY <1>a, <2>1 DEF Text, is_ctl
<1>1. ASSUME NEW e \in (n + 1)..Len(input), LaterEnd(a, e) PROVE FALSE
  <2>1. e \in 1..Len(input) /\ a \in 1..e /\ input[e - 1] = "cr"
    BY <1>1 DEF LaterEnd
  <2>a. e - 1 # n /\ e - 1 # n + 1
    BY <1>c, <2>1
  <2>2. ASSUME NEW u \in a..(e - 1), HeaderParts(a, e, u) PROVE FALSE
    <3>1. /\ input[u] = ":" /\ \A i \in a..(u - 1) : is_token(input[i])
          /\ \A i \in (u + 2)..(e - 2) : Text(input[i])
      BY <2>2 DEF HeaderParts
    <3>2. u \notin a..(x - 1)
      BY <1>a, <1>b, <3>1
    <3>3. x \notin a..(u - 1)
      BY <1>a, <1>b, <3>1
    <3>4. u = x
      BY <1>a, <3>2, <3>3
    <3>5. n + 1 \in (u + 2)..(e - 2)
      BY <1>a, <2>a, <3>4
    <3> QED BY <3>1, <3>5 DEF Text
  <2>3. ASSUME NEW u \in a..(e - 1), FoldedParts(a, e, u) PROVE FALSE
    <3>1. Blank(input[a])
      BY <2>3 DEF FoldedParts
    <3> QED BY <1>a, <3>1 DEF Blank, is_token, is_ctl, is_tspecial
  <2> QED BY <1>1, <2>1, <2>2, <2>3, LaterEndParts
<1>2. input[a] # "cr"
  BY <1>a DEF is_token, is_ctl
<1> QED BY <1>1, <1>2 DEF NoLineEnd, EmptyEnd

\* A folded line that begins with a blank is no header line and not empty.
LEMMA BlankFirst ==
  ASSUME input \in Seq(Char), NEW a \in 2..Len(input), Blank(input[a]),
         NEW e \in a..Len(input), NEW x \in a..(e - 1), HeaderParts(a, e, x)
  PROVE  FALSE
<1>1. is_token(input[a])
  BY DEF HeaderParts
<1> QED BY <1>1 DEF Blank, is_token, is_ctl, is_tspecial

\* After blanks come blanks, text or a carriage return.
LEMMA BlanksBlocked ==
  ASSUME input \in Seq(Char), NEW n \in 1..Len(input), n + 1 <= Len(input),
         NEW a \in 2..n, InBlanks(a, n),
         is_ctl(input[n + 1]), input[n + 1] # "cr", ~ Blank(input[n + 1])
  PROVE  NoLineEnd(a, n)
<1>a. Blank(input[a]) /\ \A i \in a..n : Blank(input[i])
  BY DEF InBlanks
<1>b. ~ Blank("cr")
  BY DEF Blank
<1>1. ASSUME NEW e \in (n + 1)..Len(input), LaterEnd(a, e) PROVE FALSE
  <2>1. e \in 1..Len(input) /\ a \in 1..e /\ e \in a..Len(input) /\ a \in 2..Len(input)
    OBVIOUS
  <2>a. input[e - 1] = "cr"
    BY <1>1 DEF LaterEnd
  <2>b. e - 1 \notin a..n /\ e - 1 # n + 1
    BY <1>a, <1>b, <2>a
  <2>2. ASSUME NEW u \in a..(e - 1), FoldedParts(a, e, u) PROVE FALSE
    <3>1. /\ \A i \in a..(u - 1) : Blank(input[i])
          /\ u <= e - 2 => ~ Blank(input[u]) /\ \A i \in u..(e - 2) : Text(input[i])
      BY <2>2 DEF FoldedParts
    <3>2. n + 1 \notin a..(u - 1)
      BY <3>1
    <3>3. u <= n + 1
      BY <3>2
    <3>4. n + 1 <= e - 2
      BY <2>b
    <3>5. u <= e - 2 /\ n + 1 \in u..(e - 2)
      BY <3>3, <3>4
    <3> QED BY <3>1, <3>5 DEF Text
  <2>3. \A u \in a..(e - 1) : ~ HeaderParts(a, e, u)
    BY <1>a, <2>1, BlankFirst
  <2> QED BY <1>1, <2>1, <2>2, <2>3, LaterEndParts
<1>2. input[a] # "cr"
  BY <1>a, <1>b
<1> QED BY <1>1, <1>2 DEF NoLineEnd, EmptyEnd

\* The value goes on in a folded line as in a header line.
LEMMA FoldedBlocked ==
  ASSUME input \in Seq(Char), NEW n \in 1..Len(input), n + 1 <= Len(input),
         NEW a \in 2..n, NEW z \in 1..n, InFolded(a, z, n),
         is_ctl(input[n + 1]), input[n + 1] # "cr"
  PROVE  NoLineEnd(a, n)
<1>a. /\ a < z /\ z <= n /\ Blank(input[a]) /\ \A i \in a..(z - 1) : Blank(input[i])
      /\ ~ Blank(input[z]) /\ \A i \in z..n : Text(input[i])
  BY DEF InFolded
<1>b. ~ Blank("cr") /\ ~ Text("cr")
  BY DEF Blank, Text, is_ctl
<1>1. ASSUME NEW e \in (n + 1)..Len(input), LaterEnd(a, e) PROVE FALSE
  <2>1. e \in 1..Len(input) /\ a \in 1..e /\ e \in a..Len(input) /\ a \in 2..Len(input)
    OBVIOUS
  <2>a. input[e - 1] = "cr"
    BY <1>1 DEF LaterEnd
  <2>b. e - 1 # n /\ e - 1 # n + 1
    BY <1>a, <1>b, <2>a
  <2>2. ASSUME NEW u \in a..(e - 1), FoldedParts(a, e, u) PROVE FALSE
    <3>1. /\ \A i \in a..(u - 1) : Blank(input[i])
          /\ u <= e - 2 => ~ Blank(input[u]) /\ \A i \in u..(e - 2) : Text(input[i])
      BY <2>2 DEF FoldedParts
    <3>2. z \notin a..(u - 1)
      BY <1>a, <3>1
    <3>3. u <= z
      BY <1>a, <3>2
    <3>4. n + 1 <= e - 2
      BY <2>b
    <3>5. u <= e - 2 /\ n + 1 \in u..(e - 2)
      BY <3>3, <3>4
    <3> QED BY <3>1, <3>5 DEF Text
  <2>3. \A u \in a..(e - 1) : ~ HeaderParts(a, e, u)
    BY <1>a, <2>1, BlankFirst
  <2> QED BY <1>1, <2>1, <2>2, <2>3, LaterEndParts
<1>2. input[a] # "cr"
  BY <1>a, <1>b
<1> QED BY <1>1, <1>2 DEF NoLineEnd, EmptyEnd

\* A carriage return must be followed by a line feed, at the end of a line
LEMMA LineCrBlocked ==
  ASSUME input \in Seq(Char), NEW n \in 1..Len(input), n + 1 <= Len(input),
         NEW a \in 2..n, a < n, input[a] # "cr", input[n] = "cr", input[n + 1] # "lf"
  PROVE  NoLineEnd(a, n)
<1>1. ASSUME NEW e \in (n + 1)..Len(input), LaterEnd(a, e) PROVE FALSE
  <2>1. e \in 1..Len(input) /\ a \in 1..e
    OBVIOUS
  <2>2. input[e] = "lf"
    BY <1>1 DEF LaterEnd
  <2>3. \A i \in a..(e - 2) : input[i] # "cr"
    BY <1>1, <2>1, LaterPlain
  <2>4. e # n + 1
    BY <2>2
  <2>5. n \in a..(e - 2)
    BY <2>4
  <2> QED BY <2>3, <2>5
<1> QED BY <1>1 DEF NoLineEnd, EmptyEnd

\* and in the empty line.
LEMMA EmptyCrBlocked ==
  ASSUME input \in Seq(Char), NEW a \in 2..Len(input), a + 1 <= Len(input),
         input[a] = "cr", input[a + 1] # "lf"
  PROVE  NoLineEnd(a, a)
<1>1. ASSUME NEW e \in (a + 1)..Len(input), LaterEnd(a, e) PROVE FALSE
  <2>1. e \in 1..Len(input) /\ a \in 1..e
    OBVIOUS
  <2>2. \A i \in a..(e - 2) : input[i] # "cr"
    BY <1>1, <2>1, LaterPlain
  <2>3. a + 2 <= e
    BY <1>1 DEF LaterEnd
  <2>4. a \in a..(e - 2)
    BY <2>3
  <2> QED BY <2>2, <2>4
<1> QED BY <1>1 DEF NoLineEnd, EmptyEnd

-----------------------------------------------------------------------------
(* What has no line feed *)

\* Neither a method nor a uri nor a version has a line feed.
LEMMA FirstNoLf ==
  ASSUME input \in Seq(Char), NEW n \in 0..Len(input)
  PROVE  /\ InMethod(n) => NoLf(1, n)
         /\ \A x \in 1..n : InUri(x, n) => NoLf(1, n)
         /\ \A x, y \in 1..n : \A j \in 0..5 : InHttp(x, y, j) /\ n = y + j => NoLf(1, n)
         /\ \A x, y \in 1..n : InMajor(x, y, n) => NoLf(1, n)
         /\ \A x, y, d \in 1..n : InMinor(x, y, d, n) => NoLf(1, n)
<1>a. ~ is_token("lf") /\ ~ UriChar("lf") /\ ~ is_digit("lf")
  BY DEF is_token, is_ctl, UriChar, is_digit
<1>1. InMethod(n) => NoLf(1, n)
  BY <1>a DEF InMethod, NoLf
<1>2. ASSUME NEW m \in 0..Len(input), NEW x \in 1..m, InUri(x, m) PROVE NoLf(1, m)
  <2>1. /\ input[x] = "sp" /\ \A i \in 1..(x - 1) : is_token(input[i])
        /\ \A i \in (x + 1)..m : UriChar(input[i])
    BY <1>2 DEF InUri
  <2>2. ASSUME NEW i \in 1..m PROVE input[i] # "lf"
    <3>1. i \in 1..(x - 1) \/ i = x \/ i \in (x + 1)..m
      OBVIOUS
    <3> QED BY <1>a, <2>1, <3>1
  <2> QED BY <2>2 DEF NoLf
<1>3. ASSUME NEW m \in 0..Len(input), NEW x \in 1..m, NEW y \in 1..m, NEW j \in 0..5,
             InHttp(x, y, j), m = y + j
      PROVE  NoLf(1, m)
  <2>1. 1 < x /\ x <= y - 1
    BY <1>3 DEF InHttp, InUri
  <2>2. y - 1 \in 0..Len(input) /\ x \in 1..(y - 1)
    BY <2>1
  <2>3. NoLf(1, y - 1)
    BY <1>2, <1>3, <2>2 DEF InHttp
  <2>4. ASSUME NEW i \in 1..m PROVE input[i] # "lf"
    <3>1. i \in 1..(y - 1) \/ i = y \/ (i = y + 1 /\ j >= 1) \/ (i = y + 2 /\ j >= 2)
          \/ (i = y + 3 /\ j >= 3) \/ (i = y + 4 /\ j >= 4) \/ (i = y + 5 /\ j >= 5)
      BY <1>3
    <3>2. CASE i \in 1..(y - 1)
      BY <2>3, <3>2 DEF NoLf
    <3>3. CASE i \notin 1..(y - 1)
      BY <1>3, <3>1, <3>3 DEF InHttp
    <3> QED BY <3>2, <3>3
  <2> QED BY <2>4 DEF NoLf
<1>4. ASSUME NEW m \in 0..Len(input), NEW x \in 1..m, NEW y \in 1..m, InMajor(x, y, m)
      PROVE  NoLf(1, m)
  <2>1. InHttp(x, y, 5) /\ y + 5 <= m /\ \A i \in (y + 6)..m : is_digit(input[i])
    BY <1>4 DEF InMajor
  <2>2. 1 < x /\ x <= y - 1
    BY <2>1 DEF InHttp, InUri
  <2>3. y + 5 \in 0..Len(input) /\ x \in 1..(y + 5) /\ y \in 1..(y + 5)
    BY <2>1, <2>2
  <2>4. NoLf(1, y + 5)
    BY <1>3, <2>1, <2>3
  <2>5. ASSUME NEW i \in 1..m PROVE input[i] # "lf"
    <3>1. i \in 1..(y + 5) \/ i \in (y + 6)..m
      OBVIOUS
    <3> QED BY <1>a, <2>1, <2>4, <3>1 DEF NoLf
  <2> QED BY <2>5 DEF NoLf
<1>5. ASSUME NEW x \in 1..n, NEW y \in 1..n, NEW d \in 1..n, InMinor(x, y, d, n)
      PROVE  NoLf(1, n)
  <2>1. /\ InMajor(x, y, d - 1) /\ y + 6 < d /\ input[d] = "."
        /\ \A i \in (d + 1)..n : is_digit(input[i])
    BY <1>5 DEF InMinor
  <2>2. 1 < x /\ x <= y - 1
    BY <2>1 DEF InMajor, InHttp, InUri
  <2>3. d - 1 \in 0..Len(input) /\ x \in 1..(d - 1) /\ y \in 1..(d - 1)
    BY <2>1, <2>2
  <2>4. NoLf(1, d - 1)
    BY <1>4, <2>1, <2>3
  <2>5. ASSUME NEW i \in 1..n PROVE input[i] # "lf"
    <3>1. i \in 1..(d - 1) \/ i = d \/ i \in (d + 1)..n
      OBVIOUS
    <3> QED BY <1>a, <2>1, <2>4, <3>1 DEF NoLf
  <2> QED BY <2>5 DEF NoLf
<1> QED BY <1>1, <1>2, <1>3, <1>4, <1>5

\* Nor has a part of a header line or of a folded line.
LEMMA LaterNoLf ==
  ASSUME input \in Seq(Char), NEW n \in 1..Len(input), NEW a \in 2..n
  PROVE  /\ InName(a, n) => NoLf(a, n)
         /\ \A x \in 1..n : InValue(a, x, n) => NoLf(a, n)
         /\ InBlanks(a, n) => NoLf(a, n)
         /\ \A z \in 1..n : InFolded(a, z, n) => NoLf(a, n)
<1>a. ~ is_token("lf") /\ ~ Text("lf") /\ ~ Blank("lf")
  BY DEF is_token, is_ctl, Text, Blank
<1>1. InName(a, n) => NoLf(a, n)
  BY <1>a DEF InName, NoLf
<1>2. ASSUME NEW x \in 1..n, InValue(a, x, n) PROVE NoLf(a, n)
  <2>1. /\ a < x /\ x + 1 <= n /\ input[x] = ":" /\ input[x + 1] = "sp"
        /\ \A i \in a..(x - 1) : is_token(input[i])
        /\ \A i \in (x + 2)..n : Text(input[i])
    BY <1>2 DEF InValue
  <2>2. ASSUME NEW i \in a..n PROVE input[i] # "lf"
    <3>1. i \in a..(x - 1) \/ i = x \/ i = x + 1 \/ i \in (x + 2)..n
      OBVIOUS
    <3> QED BY <1>a, <2>1, <3>1
  <2> QED BY <2>2 DEF NoLf
<1>3. InBlanks(a, n) => NoLf(a, n)
  BY <1>a DEF InBlanks, NoLf
<1>4. ASSUME NEW z \in 1..n, InFolded(a, z, n) PROVE NoLf(a, n)
  <2>1. /\ \A i \in a..(z - 1) : Blank(input[i])
        /\ \A i \in z..n : Text(input[i])
    BY <1>4 DEF InFolded
  <2>2. ASSUME NEW i \in a..n PROVE input[i] # "lf"
    <3>1. i \in a..(z - 1) \/ i \in z..n
      OBVIOUS
    <3> QED BY <1>a, <2>1, <3>1
  <2> QED BY <2>2 DEF NoLf
<1> QED BY <1>1, <1>2, <1>3, <1>4

-----------------------------------------------------------------------------
(* The parser after n bytes: what its state says about the text so far *)

\* The method and the uri it keeps are those of the text.
Fields(q, x, y) == q.method = x - 1 /\ q.uri = y - x - 1

\* So far there is no header.
NoHeader(q) == q.headers = <<>>

ShapeMethod(q, n) == InMethod(n) /\ q.method = n /\ q.uri = 0 /\ NoHeader(q)

ShapeUri(q, n) ==
  NoHeader(q) /\ \E x \in 1..n : InUri(x, n) /\ q.method = x - 1 /\ q.uri = n - x

ShapeHttp(q, n, j) ==
  NoHeader(q) /\ \E x, y \in 1..n : InHttp(x, y, j) /\ n = y + j /\ Fields(q, x, y)

ShapeMajor(q, n) ==
  NoHeader(q) /\ \E x, y \in 1..n : InMajor(x, y, n) /\ y + 5 < n /\ Fields(q, x, y)

ShapeDot(q, n) ==
  NoHeader(q) /\ \E x, y \in 1..n : InMinor(x, y, n, n) /\ Fields(q, x, y)

ShapeMinor(q, n) ==
  NoHeader(q) /\ \E x, y, d \in 1..n : InMinor(x, y, d, n) /\ d < n /\ Fields(q, x, y)

ShapeReqCr(q, n) ==
  /\ NoHeader(q) /\ n >= 1 /\ input[n] = "cr"
  /\ \E x, y, d \in 1..(n - 1) : InMinor(x, y, d, n - 1) /\ d < n - 1 /\ Fields(q, x, y)

\* The request line is complete.
FirstDone(q) ==
  \E e \in 1..Len(input) : \E x, y \in 1..e :
    NoLf(1, e - 1) /\ ReqEnd(e) /\ RequestLine(Line(1, e), x, y) /\ Fields(q, x, y)

\* A line is complete, and it is the first one as long as there is no header.
ShapeStart(q, n) == Good(n) /\ FirstDone(q) /\ (q.headers = <<>> <=> NoLf(1, n - 1))

\* The parser is in the line from a on.
InLine(q, a) == Good(a - 1) /\ FirstDone(q) /\ q.headers # <<>>

ShapeName(q, n) == \E a \in 2..n : InLine(q, a) /\ InName(a, n)

ShapeColon(q, n) ==
  \E a \in 2..n : InLine(q, a) /\ a < n /\ InName(a, n - 1) /\ input[n] = ":"

ShapeValue(q, n) ==
  \E a \in 2..n : InLine(q, a) /\ \E x \in 1..n : InValue(a, x, n) \/ InFolded(a, x, n)

ShapeBlanks(q, n) == \E a \in 2..n : InLine(q, a) /\ InBlanks(a, n)

ShapeLineCr(q, n) ==
  /\ n >= 1 /\ input[n] = "cr"
  /\ \E a \in 2..(n - 1) :
       /\ InLine(q, a)
       /\ \/ \E x \in 1..(n - 1) : InValue(a, x, n - 1) \/ InFolded(a, x, n - 1)
          \/ InBlanks(a, n - 1)

ShapeEmptyCr(q, n) == n >= 2 /\ input[n] = "cr" /\ Good(n - 1) /\ FirstDone(q)

Shape(q, n) ==
  \/ q.state = "method_start"             /\ ShapeMethod(q, n) /\ n = 0
  \/ q.state = "method"                   /\ ShapeMethod(q, n) /\ n > 0
  \/ q.state = "uri"                      /\ ShapeUri(q, n)
  \/ q.state = "http_version_h"           /\ ShapeHttp(q, n, 0)
  \/ q.state = "http_version_t_1"         /\ ShapeHttp(q, n, 1)
  \/ q.state = "http_version_t_2"         /\ ShapeHttp(q, n, 2)
  \/ q.state = "http_version_p"           /\ ShapeHttp(q, n, 3)
  \/ q.state = "http_version_slash"       /\ ShapeHttp(q, n, 4)
  \/ q.state = "http_version_major_start" /\ ShapeHttp(q, n, 5)
  \/ q.state = "http_version_major"       /\ ShapeMajor(q, n)
  \/ q.state = "http_version_minor_start" /\ ShapeDot(q, n)
  \/ q.state = "http_version_minor"       /\ ShapeMinor(q, n)
  \/ q.state = "expecting_newline_1"      /\ ShapeReqCr(q, n)
  \/ q.state = "header_line_start"        /\ ShapeStart(q, n)
  \/ q.state = "header_name"              /\ ShapeName(q, n)
  \/ q.state = "space_before_header_value" /\ ShapeColon(q, n)
  \/ q.state = "header_value"             /\ ShapeValue(q, n)
  \/ q.state = "header_lws"               /\ ShapeBlanks(q, n)
  \/ q.state = "expecting_newline_2"      /\ ShapeLineCr(q, n)
  \/ q.state = "expecting_newline_3"      /\ ShapeEmptyCr(q, n)

\* What n bytes have led to: no request yet, a request, or never one.
Known(q, n) ==
  \/ q.result = "indeterminate" /\ Shape(q, n) /\ \A k \in 1..n : ~ IsRequest(k)
  \/ q.result = "good" /\ FirstDone(q) /\ \E k \in 1..n : IsRequest(k)
  \/ q.result = "bad" /\ \A k \in 1..Len(input) : ~ IsRequest(k)

\* What the byte at n has led to
Outcome(r, n) ==
  \/ r.result = "indeterminate" /\ Shape(r, n) /\ ~ IsRequest(n)
  \/ r.result = "good" /\ FirstDone(r) /\ IsRequest(n)
  \/ r.result = "bad" /\ \A k \in n..Len(input) : ~ IsRequest(k)

\* A request ends with a line feed.
LEMMA NotLf ==
  ASSUME input \in Seq(Char), NEW n \in 1..Len(input), input[n] # "lf"
  PROVE  ~ IsRequest(n)
BY RequestIsGood

\* Good text lacks the empty line.
LEMMA GoodNotYet ==
  ASSUME input \in Seq(Char), NEW n \in 1..Len(input), Good(n)
  PROVE  ~ IsRequest(n)
<1> SUFFICES ASSUME IsRequest(n) PROVE FALSE
  OBVIOUS
<1>1. n >= 4 /\ input[n - 1] = "cr" /\ input[n] = "lf" /\ Good(n - 2)
  BY RequestIsGood
<1>2. input[n - 2] = "lf"
  BY <1>1 DEF Good
<1>3. n - 1 \in 2..n /\ n \in 2..n /\ (n - 1) - 1 = n - 2
  BY <1>1
<1>4. NoLf(n - 1, n - 1)
  BY <1>1 DEF NoLf
<1>5. LaterEnd(n - 1, n)
  BY <1>1, <1>2, <1>3, <1>4 DEF Good
<1> QED BY <1>5 DEF LaterEnd

\* Where no request line can end any more, there is no request.
LEMMA FirstBlocked ==
  ASSUME input \in Seq(Char), NEW n \in 0..Len(input), NoLf(1, n), NoReqEnd(n)
  PROVE  \A k \in (n + 1)..Len(input) : ~ IsRequest(k)
BY FirstLineEnds DEF NoReqEnd

\* Nor where no later line can end.
LEMMA LaterBlocked ==
  ASSUME input \in Seq(Char), NEW a \in 2..Len(input), Good(a - 1),
         NEW n \in (a - 1)..Len(input), NoLf(a, n), NoLineEnd(a, n)
  PROVE  \A k \in (n + 1)..Len(input) : ~ IsRequest(k)
BY LaterLineEnds DEF NoLineEnd

\* goto changes the state only.
LEMMA GotoIs ==
  ASSUME NEW p \in Parser, NEW s \in State
  PROVE  LET q == goto(p, s)
         IN  /\ q \in Parser /\ q.state = s /\ q.result = p.result
             /\ q.method = p.method /\ q.uri = p.uri /\ q.headers = p.headers
BY DEF Parser, goto

\* bad gives up.
LEMMA BadIs ==
  ASSUME NEW p \in Parser PROVE bad(p).result = "bad"
BY DEF Parser, bad

\* The method, character by character
LEMMA MethodStep ==
  ASSUME input \in Seq(Char), NEW n \in 0..Len(input), n + 1 <= Len(input),
         NEW q \in Parser, q.result = "indeterminate", Shape(q, n),
         q.state \in {"method_start", "method"}
  PROVE  Outcome(consume(q, input[n + 1]), n + 1)
<1> DEFINE c == input[n + 1]
           r == consume(q, c)
<1>1. r = method(q, c)
  BY DEF consume
<1>2. /\ InMethod(n) /\ q.method = n /\ q.uri = 0 /\ NoHeader(q)
      /\ q.state = "method_start" => n = 0
      /\ q.state = "method" => n > 0
  BY DEF Shape, ShapeMethod
<1>3. n + 1 \in 1..Len(input) /\ n \in 0..Len(input)
  OBVIOUS
<1> HIDE DEF c, r
<1>4. CASE c = "sp" /\ q.state = "method"
  <2>1. r = goto(q, "uri")
    BY <1>1, <1>4 DEF method
  <2>2. /\ r.state = "uri" /\ r.result = "indeterminate" /\ r.method = n /\ r.uri = 0
        /\ NoHeader(r)
    <3>1. "uri" \in State
      BY DEF State
    <3> QED BY <1>2, <2>1, <3>1, GotoIs DEF NoHeader
  <2>3. InUri(n + 1, n + 1)
    BY <1>2, <1>4 DEF InUri, InMethod, c
  <2>4. ShapeUri(r, n + 1)
    BY <2>2, <2>3 DEF ShapeUri
  <2>5. ~ IsRequest(n + 1)
    BY <1>3, <1>4, NotLf DEF c
  <2> QED BY <2>2, <2>4, <2>5 DEF Outcome, Shape, r, c
<1>5. CASE ~ (c = "sp" /\ q.state = "method") /\ ~ is_token(c)
  <2>1. r.result = "bad"
    BY <1>1, <1>5, BadIs DEF method
  <2>2. n = 0 \/ c # "sp"
    BY <1>2, <1>5
  <2>3. NoReqEnd(n)
    BY <1>2, <1>3, <1>5, <2>2, MethodBlocked DEF c
  <2>4. NoLf(1, n)
    BY <1>2, <1>3, FirstNoLf
  <2> QED BY <1>3, <2>1, <2>3, <2>4, FirstBlocked DEF Outcome, r, c
<1>6. CASE ~ (c = "sp" /\ q.state = "method") /\ is_token(c)
  <2>1. r = [goto(q, "method") EXCEPT !.method = @ + 1]
    BY <1>1, <1>6 DEF method
  <2>2. /\ r.state = "method" /\ r.result = "indeterminate" /\ r.method = n + 1 /\ r.uri = 0
        /\ NoHeader(r)
    <3>1. PICK g \in Parser : /\ g = goto(q, "method") /\ g.state = "method"
                              /\ g.result = "indeterminate" /\ g.method = n /\ g.uri = 0
                              /\ NoHeader(g)
      BY <1>2, GotoIs DEF State, NoHeader
    <3>2. r = [g EXCEPT !.method = @ + 1]
      BY <2>1, <3>1
    <3> QED BY <3>1, <3>2 DEF Parser, NoHeader
  <2>3. InMethod(n + 1)
    BY <1>2, <1>6 DEF InMethod, c
  <2>4. ~ IsRequest(n + 1)
    <3>1. c # "lf"
      BY <1>6 DEF is_token, is_ctl
    <3> QED BY <1>3, <3>1, NotLf DEF c
  <2>5. ShapeMethod(r, n + 1) /\ n + 1 > 0
    BY <1>3, <2>2, <2>3 DEF ShapeMethod
  <2>6. Outcome(r, n + 1)
    BY <2>2, <2>4, <2>5, Zenon DEF Outcome, Shape
  <2> QED BY <2>6 DEF r, c
<1> QED BY <1>4, <1>5, <1>6 DEF r, c

\* The uri, character by character
LEMMA UriStep ==
  ASSUME input \in Seq(Char), NEW n \in 0..Len(input), n + 1 <= Len(input),
         NEW q \in Parser, q.result = "indeterminate", Shape(q, n), q.state = "uri"
  PROVE  Outcome(consume(q, input[n + 1]), n + 1)
<1> DEFINE c == input[n + 1]
           r == consume(q, c)
<1>1. r = uri(q, c)
  BY DEF consume
<1>2. PICK x \in 1..n : InUri(x, n) /\ q.method = x - 1 /\ q.uri = n - x /\ NoHeader(q)
  BY DEF Shape, ShapeUri
<1>3. n + 1 \in 1..Len(input) /\ n \in 1..Len(input)
  OBVIOUS
<1>4. (n + 1) - 1 = n /\ (n + 1) - x = (n - x) + 1 /\ (n + 1) - x - 1 = n - x
      /\ x \in 1..(n + 1) /\ n + 1 \in 1..(n + 1) /\ n + 1 = (n + 1) + 0
  OBVIOUS
<1> HIDE DEF c, r
<1>5. CASE c = "sp"
  <2>1. r = goto(q, "http_version_h")
    BY <1>1, <1>5 DEF uri
  <2>2. /\ r.state = "http_version_h" /\ r.result = "indeterminate"
        /\ r.method = x - 1 /\ r.uri = n - x /\ NoHeader(r)
    BY <1>2, <2>1, GotoIs DEF State, NoHeader
  <2>3. InHttp(x, n + 1, 0)
    BY <1>2, <1>4, <1>5 DEF InHttp, c
  <2>4. ShapeHttp(r, n + 1, 0)
    BY <1>4, <2>2, <2>3 DEF ShapeHttp, Fields
  <2>5. ~ IsRequest(n + 1)
    BY <1>3, <1>5, NotLf DEF c
  <2> QED BY <2>2, <2>4, <2>5 DEF Outcome, Shape, r, c
<1>6. CASE c # "sp" /\ is_ctl(c)
  <2>1. r.result = "bad"
    BY <1>1, <1>6, BadIs DEF uri
  <2>2. NoReqEnd(n)
    BY <1>2, <1>3, <1>6, UriBlocked DEF c
  <2>3. NoLf(1, n)
    BY <1>2, <1>3, FirstNoLf
  <2> QED BY <1>3, <2>1, <2>2, <2>3, FirstBlocked DEF Outcome, r, c
<1>7. CASE c # "sp" /\ ~ is_ctl(c)
  <2>1. r = [q EXCEPT !.uri = @ + 1]
    BY <1>1, <1>7 DEF uri
  <2>2. /\ r.state = "uri" /\ r.result = "indeterminate"
        /\ r.method = x - 1 /\ r.uri = (n - x) + 1 /\ NoHeader(r)
    BY <1>2, <2>1 DEF Parser, NoHeader
  <2>3. InUri(x, n + 1)
    BY <1>2, <1>7 DEF InUri, UriChar, c
  <2>4. ShapeUri(r, n + 1)
    BY <1>4, <2>2, <2>3 DEF ShapeUri
  <2>5. ~ IsRequest(n + 1)
    <3>1. c # "lf"
      BY <1>7 DEF is_ctl
    <3> QED BY <1>3, <3>1, NotLf DEF c
  <2> QED BY <2>2, <2>4, <2>5 DEF Outcome, Shape, r, c
<1> QED BY <1>5, <1>6, <1>7 DEF r, c

\* One character of HTTP/: the next one is x, and the state then s.
LEMMA HttpOne ==
  ASSUME input \in Seq(Char), NEW n \in 0..Len(input), n + 1 <= Len(input),
         NEW q \in Parser, q.result = "indeterminate", NEW j \in 0..4, ShapeHttp(q, n, j),
         NEW s \in State, NEW x \in Char, x # "lf",
         x = IF j = 0 THEN "H" ELSE IF j = 1 THEN "T" ELSE IF j = 2 THEN "T"
             ELSE IF j = 3 THEN "P" ELSE "/",
         NEW r, r = expect(q, input[n + 1], x, s)
  PROVE  \/ r.result = "indeterminate" /\ r.state = s /\ ShapeHttp(r, n + 1, j + 1) /\ ~ IsRequest(n + 1)
         \/ r.result = "bad" /\ \A k \in (n + 1)..Len(input) : ~ IsRequest(k)
<1>1. PICK u \in 1..n, y \in 1..n :
        InHttp(u, y, j) /\ n = y + j /\ Fields(q, u, y) /\ NoHeader(q)
  BY DEF ShapeHttp
<1>a. 1 < u /\ u <= y - 1
  BY <1>1 DEF InHttp, InUri
<1>2. n + 1 \in 1..Len(input) /\ n \in 0..Len(input) /\ y \in 2..Len(input) /\ u \in 1..y
      /\ y + j + 1 <= Len(input) /\ u \in 1..(n + 1) /\ y \in 1..(n + 1) /\ n + 1 = y + (j + 1)
      /\ j \in 0..5
  BY <1>1, <1>a
<1>3. input[n + 1] = x <=> InHttp(u, y, j + 1)
  <2>1. CASE j = 0
    BY <1>1, <1>2, <2>1 DEF InHttp
  <2>2. CASE j = 1
    BY <1>1, <1>2, <2>2 DEF InHttp
  <2>3. CASE j = 2
    BY <1>1, <1>2, <2>3 DEF InHttp
  <2>4. CASE j = 3
    BY <1>1, <1>2, <2>4 DEF InHttp
  <2>5. CASE j = 4
    BY <1>1, <1>2, <2>5 DEF InHttp
  <2> QED BY <2>1, <2>2, <2>3, <2>4, <2>5
<1>4. CASE input[n + 1] = x
  <2>1. r = goto(q, s)
    BY <1>4 DEF expect
  <2>2. r.state = s /\ r.result = "indeterminate" /\ Fields(r, u, y) /\ NoHeader(r)
    BY <1>1, <2>1, GotoIs DEF Fields, NoHeader
  <2>3. ShapeHttp(r, n + 1, j + 1)
    BY <1>2, <1>3, <1>4, <2>2 DEF ShapeHttp
  <2>4. ~ IsRequest(n + 1)
    BY <1>2, <1>4, NotLf
  <2> QED BY <2>2, <2>3, <2>4
<1>5. CASE input[n + 1] # x
  <2>1. r.result = "bad"
    BY <1>5, BadIs DEF expect
  <2>2. NoReqEnd(n)
    BY <1>1, <1>2, <1>3, <1>5, HttpBlocked
  <2>3. NoLf(1, n)
    BY <1>1, <1>2, FirstNoLf
  <2> QED BY <1>2, <2>1, <2>2, <2>3, FirstBlocked
<1> QED BY <1>4, <1>5

\* HTTP/, character by character
LEMMA HttpStep ==
  ASSUME input \in Seq(Char), NEW n \in 0..Len(input), n + 1 <= Len(input),
         NEW q \in Parser, q.result = "indeterminate", Shape(q, n),
         q.state \in {"http_version_h", "http_version_t_1", "http_version_t_2",
                      "http_version_p", "http_version_slash"}
  PROVE  Outcome(consume(q, input[n + 1]), n + 1)
<1> DEFINE c == input[n + 1]
           r == consume(q, c)
<1>0. \A s \in {"http_version_t_1", "http_version_t_2", "http_version_p",
                 "http_version_slash", "http_version_major_start"} : s \in State
  BY DEF State
<1>1. CASE q.state = "http_version_h"
  <2>1. ShapeHttp(q, n, 0)
    BY <1>1 DEF Shape
  <2>2. r = expect(q, c, "H", "http_version_t_1")
    BY <1>1 DEF consume
  <2> HIDE DEF c, r
  <2>3. \/ r.result = "indeterminate" /\ r.state = "http_version_t_1" /\ ShapeHttp(r, n + 1, 0 + 1) /\ ~ IsRequest(n + 1)
        \/ r.result = "bad" /\ \A k \in (n + 1)..Len(input) : ~ IsRequest(k)
    BY <1>0, <2>1, <2>2, HttpOne DEF Char, c
  <2>4. 0 + 1 = 1
    OBVIOUS
  <2>5. Outcome(r, n + 1)
    BY <2>3, <2>4, Zenon DEF Outcome, Shape
  <2> QED BY <2>5 DEF r, c
<1>2. CASE q.state = "http_version_t_1"
  <2>1. ShapeHttp(q, n, 1)
    BY <1>2 DEF Shape
  <2>2. r = expect(q, c, "T", "http_version_t_2")
    BY <1>2 DEF consume
  <2> HIDE DEF c, r
  <2>3. \/ r.result = "indeterminate" /\ r.state = "http_version_t_2" /\ ShapeHttp(r, n + 1, 1 + 1) /\ ~ IsRequest(n + 1)
        \/ r.result = "bad" /\ \A k \in (n + 1)..Len(input) : ~ IsRequest(k)
    BY <1>0, <2>1, <2>2, HttpOne DEF Char, c
  <2>4. 1 + 1 = 2
    OBVIOUS
  <2>5. Outcome(r, n + 1)
    BY <2>3, <2>4, Zenon DEF Outcome, Shape
  <2> QED BY <2>5 DEF r, c
<1>3. CASE q.state = "http_version_t_2"
  <2>1. ShapeHttp(q, n, 2)
    BY <1>3 DEF Shape
  <2>2. r = expect(q, c, "T", "http_version_p")
    BY <1>3 DEF consume
  <2> HIDE DEF c, r
  <2>3. \/ r.result = "indeterminate" /\ r.state = "http_version_p" /\ ShapeHttp(r, n + 1, 2 + 1) /\ ~ IsRequest(n + 1)
        \/ r.result = "bad" /\ \A k \in (n + 1)..Len(input) : ~ IsRequest(k)
    BY <1>0, <2>1, <2>2, HttpOne DEF Char, c
  <2>4. 2 + 1 = 3
    OBVIOUS
  <2>5. Outcome(r, n + 1)
    BY <2>3, <2>4, Zenon DEF Outcome, Shape
  <2> QED BY <2>5 DEF r, c
<1>4. CASE q.state = "http_version_p"
  <2>1. ShapeHttp(q, n, 3)
    BY <1>4 DEF Shape
  <2>2. r = expect(q, c, "P", "http_version_slash")
    BY <1>4 DEF consume
  <2> HIDE DEF c, r
  <2>3. \/ r.result = "indeterminate" /\ r.state = "http_version_slash" /\ ShapeHttp(r, n + 1, 3 + 1) /\ ~ IsRequest(n + 1)
        \/ r.result = "bad" /\ \A k \in (n + 1)..Len(input) : ~ IsRequest(k)
    BY <1>0, <2>1, <2>2, HttpOne DEF Char, c
  <2>4. 3 + 1 = 4
    OBVIOUS
  <2>5. Outcome(r, n + 1)
    BY <2>3, <2>4, Zenon DEF Outcome, Shape
  <2> QED BY <2>5 DEF r, c
<1>5. CASE q.state = "http_version_slash"
  <2>1. ShapeHttp(q, n, 4)
    BY <1>5 DEF Shape
  <2>2. r = expect(q, c, "/", "http_version_major_start")
    BY <1>5 DEF consume
  <2> HIDE DEF c, r
  <2>3. \/ r.result = "indeterminate" /\ r.state = "http_version_major_start" /\ ShapeHttp(r, n + 1, 4 + 1) /\ ~ IsRequest(n + 1)
        \/ r.result = "bad" /\ \A k \in (n + 1)..Len(input) : ~ IsRequest(k)
    BY <1>0, <2>1, <2>2, HttpOne DEF Char, c
  <2>4. 4 + 1 = 5
    OBVIOUS
  <2>5. Outcome(r, n + 1)
    BY <2>3, <2>4, Zenon DEF Outcome, Shape
  <2> QED BY <2>5 DEF r, c
<1> QED BY <1>1, <1>2, <1>3, <1>4, <1>5

\* The first number of the version
LEMMA MajorStep ==
  ASSUME input \in Seq(Char), NEW n \in 0..Len(input), n + 1 <= Len(input),
         NEW q \in Parser, q.result = "indeterminate", Shape(q, n),
         q.state \in {"http_version_major_start", "http_version_major"}
  PROVE  Outcome(consume(q, input[n + 1]), n + 1)
<1> DEFINE c == input[n + 1]
           r == consume(q, c)
<1>1. r = version(q, c, "http_version_major", ".", "http_version_minor_start")
  BY DEF consume
<1>2. PICK x \in 1..n, y \in 1..n :
        /\ InMajor(x, y, n) /\ Fields(q, x, y) /\ NoHeader(q)
        /\ (q.state = "http_version_major" /\ y + 5 < n) \/ (q.state = "http_version_major_start" /\ n = y + 5)
  <2>1. CASE q.state = "http_version_major"
    BY <2>1 DEF Shape, ShapeMajor
  <2>2. CASE q.state = "http_version_major_start"
    <3>1. PICK x \in 1..n, y \in 1..n :
            InHttp(x, y, 5) /\ n = y + 5 /\ Fields(q, x, y) /\ NoHeader(q)
      BY <2>2 DEF Shape, ShapeHttp
    <3>2. InMajor(x, y, n)
      BY <3>1 DEF InMajor
    <3> QED BY <2>2, <3>1, <3>2
  <2> QED BY <2>1, <2>2
<1>a. 1 < x /\ x <= y - 1 /\ y + 5 <= n
  BY <1>2 DEF InMajor, InHttp, InUri
<1>3. /\ n + 1 \in 1..Len(input) /\ n \in 1..Len(input) /\ y \in 2..n /\ (n + 1) - 1 = n
      /\ x \in 1..(n + 1) /\ y \in 1..(n + 1) /\ y + 5 < n + 1
  BY <1>a
<1> HIDE DEF c, r
<1>4. CASE q.state = "http_version_major" /\ c = "."
  <2>1. r = goto(q, "http_version_minor_start")
    BY <1>1, <1>4 DEF version
  <2>2. r.state = "http_version_minor_start" /\ r.result = "indeterminate" /\ Fields(r, x, y) /\ NoHeader(r)
    BY <1>2, <2>1, GotoIs DEF State, Fields, NoHeader
  <2>3. y + 6 < n + 1
    BY <1>2, <1>4
  <2>4. InMinor(x, y, n + 1, n + 1)
    BY <1>2, <1>3, <1>4, <2>3 DEF InMinor, c
  <2>5. ShapeDot(r, n + 1)
    BY <1>3, <2>2, <2>4 DEF ShapeDot
  <2>6. ~ IsRequest(n + 1)
    BY <1>3, <1>4, NotLf DEF c
  <2> QED BY <2>2, <2>5, <2>6 DEF Outcome, Shape, r, c
<1>5. CASE ~ (q.state = "http_version_major" /\ c = ".") /\ is_digit(c)
  <2>1. r = goto(q, "http_version_major")
    BY <1>1, <1>5 DEF version
  <2>2. r.state = "http_version_major" /\ r.result = "indeterminate" /\ Fields(r, x, y) /\ NoHeader(r)
    BY <1>2, <2>1, GotoIs DEF State, Fields, NoHeader
  <2>3. InMajor(x, y, n + 1)
    BY <1>2, <1>3, <1>5 DEF InMajor, c
  <2>4. ShapeMajor(r, n + 1)
    BY <1>3, <2>2, <2>3 DEF ShapeMajor
  <2>5. ~ IsRequest(n + 1)
    BY <1>3, <1>5, NotLf DEF c, is_digit
  <2> QED BY <2>2, <2>4, <2>5 DEF Outcome, Shape, r, c
<1>6. CASE ~ (q.state = "http_version_major" /\ c = ".") /\ ~ is_digit(c)
  <2>1. r.result = "bad"
    BY <1>1, <1>6, BadIs DEF version
  <2>2. n = y + 5 \/ c # "."
    BY <1>2, <1>6
  <2>3. NoReqEnd(n)
    BY <1>2, <1>3, <1>6, <2>2, MajorBlocked DEF c
  <2>4. NoLf(1, n)
    BY <1>2, <1>3, FirstNoLf
  <2> QED BY <1>3, <2>1, <2>3, <2>4, FirstBlocked DEF Outcome, r, c
<1> QED BY <1>4, <1>5, <1>6 DEF r, c

\* The second number
LEMMA MinorStep ==
  ASSUME input \in Seq(Char), NEW n \in 0..Len(input), n + 1 <= Len(input),
         NEW q \in Parser, q.result = "indeterminate", Shape(q, n),
         q.state \in {"http_version_minor_start", "http_version_minor"}
  PROVE  Outcome(consume(q, input[n + 1]), n + 1)
<1> DEFINE c == input[n + 1]
           r == consume(q, c)
<1>1. r = version(q, c, "http_version_minor", "cr", "expecting_newline_1")
  BY DEF consume
<1>2. PICK x \in 1..n, y \in 1..n, d \in 1..n :
        /\ InMinor(x, y, d, n) /\ Fields(q, x, y) /\ NoHeader(q)
        /\ (q.state = "http_version_minor" /\ d < n) \/ (q.state = "http_version_minor_start" /\ n = d)
  <2>1. CASE q.state = "http_version_minor"
    BY <2>1 DEF Shape, ShapeMinor
  <2>2. CASE q.state = "http_version_minor_start"
    <3>1. PICK x \in 1..n, y \in 1..n : InMinor(x, y, n, n) /\ Fields(q, x, y) /\ NoHeader(q)
      BY <2>2 DEF Shape, ShapeDot
    <3>2. n \in 1..n
      BY <3>1
    <3> QED BY <2>2, <3>1, <3>2
  <2> QED BY <2>1, <2>2
<1>a. 1 < x /\ x <= y - 1 /\ y + 6 < d
  BY <1>2 DEF InMinor, InMajor, InHttp, InUri
<1>3. /\ n + 1 \in 1..Len(input) /\ n \in 1..Len(input) /\ y \in 2..n /\ (n + 1) - 1 = n
      /\ x \in 1..(n + 1) /\ y \in 1..(n + 1) /\ d \in 1..(n + 1) /\ d < n + 1
  BY <1>a
<1> HIDE DEF c, r
<1>4. CASE q.state = "http_version_minor" /\ c = "cr"
  <2>1. r = goto(q, "expecting_newline_1")
    BY <1>1, <1>4 DEF version
  <2>2. r.state = "expecting_newline_1" /\ r.result = "indeterminate" /\ Fields(r, x, y) /\ NoHeader(r)
    BY <1>2, <2>1, GotoIs DEF State, Fields, NoHeader
  <2>3. d < n
    BY <1>2, <1>4
  <2>4. ShapeReqCr(r, n + 1)
    BY <1>2, <1>3, <1>4, <2>2, <2>3 DEF ShapeReqCr, c
  <2>5. ~ IsRequest(n + 1)
    BY <1>3, <1>4, NotLf DEF c
  <2> QED BY <2>2, <2>4, <2>5 DEF Outcome, Shape, r, c
<1>5. CASE ~ (q.state = "http_version_minor" /\ c = "cr") /\ is_digit(c)
  <2>1. r = goto(q, "http_version_minor")
    BY <1>1, <1>5 DEF version
  <2>2. r.state = "http_version_minor" /\ r.result = "indeterminate" /\ Fields(r, x, y) /\ NoHeader(r)
    BY <1>2, <2>1, GotoIs DEF State, Fields, NoHeader
  <2>3. InMinor(x, y, d, n + 1)
    BY <1>2, <1>3, <1>5 DEF InMinor, c
  <2>4. ShapeMinor(r, n + 1)
    BY <1>3, <2>2, <2>3 DEF ShapeMinor
  <2>5. ~ IsRequest(n + 1)
    BY <1>3, <1>5, NotLf DEF c, is_digit
  <2> QED BY <2>2, <2>4, <2>5 DEF Outcome, Shape, r, c
<1>6. CASE ~ (q.state = "http_version_minor" /\ c = "cr") /\ ~ is_digit(c)
  <2>1. r.result = "bad"
    BY <1>1, <1>6, BadIs DEF version
  <2>2. n = d \/ c # "cr"
    BY <1>2, <1>6
  <2>3. NoReqEnd(n)
    BY <1>2, <1>3, <1>6, <2>2, MinorBlocked DEF c
  <2>4. NoLf(1, n)
    BY <1>2, <1>3, FirstNoLf
  <2> QED BY <1>3, <2>1, <2>3, <2>4, FirstBlocked DEF Outcome, r, c
<1> QED BY <1>4, <1>5, <1>6 DEF r, c

\* The line feed of the request line
LEMMA ReqCrStep ==
  ASSUME input \in Seq(Char), NEW n \in 0..Len(input), n + 1 <= Len(input),
         NEW q \in Parser, q.result = "indeterminate", Shape(q, n),
         q.state = "expecting_newline_1"
  PROVE  Outcome(consume(q, input[n + 1]), n + 1)
<1> DEFINE c == input[n + 1]
           r == consume(q, c)
<1>1. r = expect(q, c, "lf", "header_line_start")
  BY DEF consume
<1>2. NoHeader(q) /\ n >= 1 /\ input[n] = "cr"
  BY DEF Shape, ShapeReqCr
<1>3. PICK x \in 1..(n - 1), y \in 1..(n - 1), d \in 1..(n - 1) :
        InMinor(x, y, d, n - 1) /\ d < n - 1 /\ Fields(q, x, y)
  BY DEF Shape, ShapeReqCr
<1>4. /\ n + 1 \in 1..Len(input) /\ n \in 1..Len(input) /\ n - 1 \in 0..Len(input)
      /\ (n + 1) - 1 = n /\ (n + 1) - 2 = n - 1
      /\ x \in 1..(n + 1) /\ y \in 1..(n + 1) /\ d \in 1..(n + 1)
      /\ x \in 1..n /\ y \in 1..n
  BY <1>2
<1>5. NoLf(1, n)
  <2>1. NoLf(1, n - 1)
    BY <1>3, <1>4, FirstNoLf
  <2> QED BY <1>2, <2>1 DEF NoLf
<1> HIDE DEF c, r
<1>6. CASE c = "lf"
  <2>1. r = goto(q, "header_line_start")
    BY <1>1, <1>6 DEF expect
  <2>2. r.state = "header_line_start" /\ r.result = "indeterminate" /\ Fields(r, x, y) /\ r.headers = <<>>
    BY <1>2, <1>3, <2>1, GotoIs DEF State, Fields, NoHeader
  <2>3. Parts(n + 1, x, y, d)
    <3>1. /\ InUri(x, y - 1) /\ input[y] = "sp" /\ InHttp(x, y, 5)
          /\ \A i \in (y + 6)..(d - 1) : is_digit(input[i])
          /\ y + 6 < d /\ input[d] = "." /\ \A i \in (d + 1)..(n - 1) : is_digit(input[i])
      BY <1>3 DEF InMinor, InMajor, InHttp
    <3>2. /\ 1 < x /\ x <= y - 1 /\ input[x] = "sp"
          /\ \A i \in 1..(x - 1) : is_token(input[i])
          /\ \A i \in (x + 1)..(y - 1) : UriChar(input[i])
      BY <3>1 DEF InUri
    <3>3. Http(y + 1)
      BY <3>1 DEF InHttp, Http
    <3>4. x < y /\ d + 2 < n + 1
      BY <1>3, <3>2
    <3> QED BY <1>2, <1>4, <1>6, <3>1, <3>2, <3>3, <3>4 DEF Parts, c
  <2>4. RequestLine(Line(1, n + 1), x, y)
    BY <1>2, <1>4, <1>6, <2>3, ReqLineParts DEF c
  <2>5. ReqEnd(n + 1)
    <3>1. n + 1 >= 2
      BY <1>2
    <3> QED BY <1>2, <1>4, <1>6, <2>4, <3>1 DEF ReqEnd, c
  <2>6. Good(n + 1)
    BY <1>4, <1>5, <2>5, GoodFirst
  <2>7. FirstDone(r)
    BY <1>4, <1>5, <2>2, <2>4, <2>5 DEF FirstDone
  <2>8. ShapeStart(r, n + 1)
    BY <1>4, <1>5, <2>2, <2>6, <2>7 DEF ShapeStart
  <2>9. ~ IsRequest(n + 1)
    BY <1>4, <2>6, GoodNotYet
  <2> QED BY <2>2, <2>8, <2>9, Zenon DEF Outcome, Shape, r, c
<1>7. CASE c # "lf"
  <2>1. r.result = "bad"
    BY <1>1, <1>7, BadIs DEF expect
  <2>2. NoReqEnd(n)
    BY <1>2, <1>4, <1>7, ReqCrBlocked DEF c
  <2> QED BY <1>4, <1>5, <2>1, <2>2, FirstBlocked DEF Outcome, r, c
<1> QED BY <1>6, <1>7 DEF r, c

\* The request line is that of the method and the uri kept.
LEMMA FirstDoneSame ==
  ASSUME NEW q, NEW r, FirstDone(q), r.method = q.method, r.uri = q.uri
  PROVE  FirstDone(r)
BY DEF FirstDone, Fields

\* A character for the last header changes nothing else.
LEMMA PushIs ==
  ASSUME NEW p \in Parser, p.headers # <<>>, NEW r \in {push_name(p), push_value(p)}
  PROVE  /\ r.state = p.state /\ r.result = p.result /\ r.method = p.method /\ r.uri = p.uri
         /\ r.headers # <<>>
<1>1. p.headers \in Seq(Header) /\ Len(p.headers) > 0
  BY DEF Parser
<1>2. ASSUME NEW h
      PROVE  LET q == [p EXCEPT !.headers = [p.headers EXCEPT ![Len(p.headers)] = h]]
             IN  /\ q.state = p.state /\ q.result = p.result /\ q.method = p.method /\ q.uri = p.uri
                 /\ q.headers # <<>>
  <2>1. [p.headers EXCEPT ![Len(p.headers)] = h] # <<>>
    BY <1>1
  <2> QED BY <2>1 DEF Parser
<1>3. \E h : r = [p EXCEPT !.headers = [p.headers EXCEPT ![Len(p.headers)] = h]]
  <2>1. CASE r = push_name(p)
    BY <2>1 DEF push_name
  <2>2. CASE r = push_value(p)
    BY <2>2 DEF push_value
  <2> QED BY <2>1, <2>2
<1> QED BY <1>2, <1>3

\* Going to another state keeps what is known of the lines read.
LEMMA GotoKeeps ==
  ASSUME NEW p \in Parser, NEW s \in State, p.result = "indeterminate",
         FirstDone(p), p.headers # <<>>, NEW r, r = goto(p, s)
  PROVE  /\ r \in Parser /\ r.state = s /\ r.result = "indeterminate"
         /\ FirstDone(r) /\ r.headers # <<>>
<1>1. /\ r \in Parser /\ r.state = s /\ r.result = p.result
      /\ r.method = p.method /\ r.uri = p.uri /\ r.headers = p.headers
  BY GotoIs
<1>2. FirstDone(r)
  BY <1>1, FirstDoneSame
<1> QED BY <1>1, <1>2

\* The first character of a line
LEMMA StartStep ==
  ASSUME input \in Seq(Char), NEW n \in 0..Len(input), n + 1 <= Len(input),
         NEW q \in Parser, q.result = "indeterminate", Shape(q, n),
         q.state = "header_line_start"
  PROVE  Outcome(consume(q, input[n + 1]), n + 1)
<1> DEFINE c == input[n + 1]
           r == consume(q, c)
<1>1. r = header_line_start(q, c)
  BY DEF consume
<1>2. Good(n) /\ FirstDone(q) /\ (q.headers = <<>> <=> NoLf(1, n - 1))
  BY Zenon DEF Shape, ShapeStart
<1>a. n \in 1..Len(input)
  BY <1>2 DEF Good
<1>3. /\ n + 1 \in 1..Len(input) /\ n + 1 \in 2..Len(input) /\ n + 1 >= 2 /\ n + 1 \in 2..(n + 1)
      /\ (n + 1) - 1 = n /\ (n + 1) - 2 = n - 1 /\ n \in n..Len(input)
  BY <1>a
<1> HIDE DEF c, r
<1>4. CASE c = "cr"
  <2>1. r = goto(q, "expecting_newline_3")
    BY <1>1, <1>4 DEF header_line_start
  <2>2. r.state = "expecting_newline_3" /\ r.result = "indeterminate" /\ FirstDone(r)
    <3>1. "expecting_newline_3" \in State
      BY DEF State
    <3>2. /\ r.state = "expecting_newline_3" /\ r.result = q.result
          /\ r.method = q.method /\ r.uri = q.uri
      BY <2>1, <3>1, GotoIs
    <3>3. FirstDone(r)
      BY <1>2, <3>2, FirstDoneSame
    <3> QED BY <3>2, <3>3
  <2>3. ShapeEmptyCr(r, n + 1)
    BY <1>2, <1>3, <1>4, <2>2 DEF ShapeEmptyCr, c
  <2>4. ~ IsRequest(n + 1)
    BY <1>3, <1>4, NotLf DEF c
  <2> QED BY <2>2, <2>3, <2>4 DEF Outcome, Shape, r, c
<1>5. CASE c # "cr" /\ q.headers # <<>> /\ Blank(c)
  <2>1. r = goto(q, "header_lws")
    BY <1>1, <1>5 DEF header_line_start, Blank
  <2>2. r.state = "header_lws" /\ r.result = "indeterminate" /\ FirstDone(r) /\ r.headers # <<>>
    BY <1>2, <1>5, <2>1, GotoIs, FirstDoneSame DEF State
  <2>3. InBlanks(n + 1, n + 1)
    BY <1>2, <1>3, <1>5 DEF InBlanks, c
  <2>4. ShapeBlanks(r, n + 1)
    BY <1>2, <1>3, <2>2, <2>3 DEF ShapeBlanks, InLine
  <2>5. ~ IsRequest(n + 1)
    BY <1>3, <1>5, NotLf DEF c, Blank
  <2> QED BY <2>2, <2>4, <2>5, Zenon DEF Outcome, Shape, r, c
<1>6. CASE c # "cr" /\ ~ (q.headers # <<>> /\ Blank(c)) /\ ~ is_token(c)
  <2>1. r.result = "bad"
    BY <1>1, <1>6, BadIs DEF header_line_start, Blank
  <2>2. NoLf(1, (n + 1) - 2) \/ ~ Blank(c)
    BY <1>2, <1>3, <1>6
  <2>3. NoLineEnd(n + 1, (n + 1) - 1)
    BY <1>3, <1>6, <2>2, StartBlocked DEF c
  <2>4. NoLf(n + 1, n)
    BY <1>a DEF NoLf
  <2>5. \A k \in (n + 1)..Len(input) : ~ IsRequest(k)
    BY <1>2, <1>3, <2>3, <2>4, LaterBlocked
  <2> QED BY <2>1, <2>5 DEF Outcome, r, c
<1>7. CASE c # "cr" /\ ~ (q.headers # <<>> /\ Blank(c)) /\ is_token(c)
  <2>1. r = [goto(q, "header_name") EXCEPT !.headers = Append(@, [name |-> 1, value |-> 0])]
    BY <1>1, <1>7 DEF header_line_start, Blank
  <2>2. r.state = "header_name" /\ r.result = "indeterminate" /\ FirstDone(r) /\ r.headers # <<>>
    <3>1. PICK g \in Parser : /\ g = goto(q, "header_name") /\ g.state = "header_name"
                              /\ g.result = "indeterminate" /\ FirstDone(g)
      BY <1>2, GotoIs, FirstDoneSame DEF State
    <3>2. r = [g EXCEPT !.headers = Append(@, [name |-> 1, value |-> 0])]
      BY <2>1, <3>1
    <3>3. Append(g.headers, [name |-> 1, value |-> 0]) # <<>>
      BY DEF Parser
    <3>4. /\ r.state = g.state /\ r.result = g.result /\ r.method = g.method /\ r.uri = g.uri
          /\ r.headers # <<>>
      BY <3>2, <3>3 DEF Parser
    <3> QED BY <3>1, <3>4, FirstDoneSame
  <2>3. InName(n + 1, n + 1)
    BY <1>3, <1>7 DEF InName, c
  <2>4. ShapeName(r, n + 1)
    BY <1>2, <1>3, <2>2, <2>3 DEF ShapeName, InLine
  <2>5. ~ IsRequest(n + 1)
    BY <1>3, <1>7, NotLf DEF c, is_token, is_ctl
  <2> QED BY <2>2, <2>4, <2>5, Zenon DEF Outcome, Shape, r, c
<1> QED BY <1>4, <1>5, <1>6, <1>7 DEF r, c

\* The name of a header
LEMMA NameStep ==
  ASSUME input \in Seq(Char), NEW n \in 0..Len(input), n + 1 <= Len(input),
         NEW q \in Parser, q.result = "indeterminate", Shape(q, n), q.state = "header_name"
  PROVE  Outcome(consume(q, input[n + 1]), n + 1)
<1> DEFINE c == input[n + 1]
           r == consume(q, c)
<1>1. r = header_name(q, c)
  BY DEF consume
<1>2. PICK a \in 2..n : Good(a - 1) /\ FirstDone(q) /\ q.headers # <<>> /\ InName(a, n)
  BY DEF Shape, ShapeName, InLine
<1>3. /\ n + 1 \in 1..Len(input) /\ n \in 1..Len(input) /\ a \in 2..Len(input)
      /\ n \in (a - 1)..Len(input) /\ a \in 2..(n + 1) /\ a < n + 1 /\ (n + 1) - 1 = n
  OBVIOUS
<1> HIDE DEF c, r
<1>4. CASE c = ":"
  <2>1. r = goto(q, "space_before_header_value")
    BY <1>1, <1>4 DEF header_name
  <2>2. /\ r.state = "space_before_header_value" /\ r.result = "indeterminate"
        /\ FirstDone(r) /\ r.headers # <<>>
    BY <1>2, <2>1, GotoIs, FirstDoneSame DEF State
  <2>3. ShapeColon(r, n + 1)
    BY <1>2, <1>3, <1>4, <2>2 DEF ShapeColon, InLine, c
  <2>4. ~ IsRequest(n + 1)
    BY <1>3, <1>4, NotLf DEF c
  <2> QED BY <2>2, <2>3, <2>4, Zenon DEF Outcome, Shape, r, c
<1>5. CASE c # ":" /\ ~ is_token(c)
  <2>1. r.result = "bad"
    BY <1>1, <1>5, BadIs DEF header_name
  <2>2. NoLineEnd(a, n)
    BY <1>2, <1>3, <1>5, NameBlocked DEF c
  <2>3. NoLf(a, n)
    BY <1>2, <1>3, LaterNoLf
  <2> QED BY <1>2, <1>3, <2>1, <2>2, <2>3, LaterBlocked DEF Outcome, r, c
<1>6. CASE c # ":" /\ is_token(c)
  <2>1. r = push_name(q)
    BY <1>1, <1>6 DEF header_name
  <2>2. r.state = "header_name" /\ r.result = "indeterminate" /\ FirstDone(r) /\ r.headers # <<>>
    BY <1>2, <2>1, PushIs, FirstDoneSame
  <2>3. InName(a, n + 1)
    BY <1>2, <1>3, <1>6 DEF InName, c
  <2>4. ShapeName(r, n + 1)
    BY <1>2, <1>3, <2>2, <2>3 DEF ShapeName, InLine
  <2>5. ~ IsRequest(n + 1)
    BY <1>3, <1>6, NotLf DEF c, is_token, is_ctl
  <2> QED BY <2>2, <2>4, <2>5, Zenon DEF Outcome, Shape, r, c
<1> QED BY <1>4, <1>5, <1>6 DEF r, c

\* The space after the colon
LEMMA ColonStep ==
  ASSUME input \in Seq(Char), NEW n \in 0..Len(input), n + 1 <= Len(input),
         NEW q \in Parser, q.result = "indeterminate", Shape(q, n),
         q.state = "space_before_header_value"
  PROVE  Outcome(consume(q, input[n + 1]), n + 1)
<1> DEFINE c == input[n + 1]
           r == consume(q, c)
<1>1. r = expect(q, c, "sp", "header_value")
  BY DEF consume
<1>2. PICK a \in 2..n : /\ Good(a - 1) /\ FirstDone(q) /\ q.headers # <<>>
                         /\ a < n /\ InName(a, n - 1) /\ input[n] = ":"
  BY DEF Shape, ShapeColon, InLine
<1>3. /\ n + 1 \in 1..Len(input) /\ n \in 1..Len(input) /\ a \in 2..Len(input)
      /\ n \in (a - 1)..Len(input) /\ a \in 2..(n + 1) /\ n \in 1..(n + 1)
      /\ n - 1 \in 1..Len(input) /\ a \in 2..(n - 1)
  <2>1. Len(input) \in Nat /\ n \in Nat /\ a \in Nat /\ n + 1 <= Len(input)
    OBVIOUS
  <2>2. 2 <= a /\ a < n
    BY <1>2
  <2> QED BY <2>1, <2>2
<1> HIDE DEF c, r
<1>4. CASE c = "sp"
  <2>1. r = goto(q, "header_value")
    BY <1>1, <1>4 DEF expect
  <2>2. /\ r.state = "header_value" /\ r.result = "indeterminate"
        /\ FirstDone(r) /\ r.headers # <<>>
    <3>1. "header_value" \in State
      BY DEF State
    <3> QED BY <1>2, <2>1, <3>1, GotoKeeps
  <2>3. InValue(a, n, n + 1)
    BY <1>2, <1>3, <1>4 DEF InValue, InName, c
  <2>4. ShapeValue(r, n + 1)
    BY <1>2, <1>3, <2>2, <2>3 DEF ShapeValue, InLine
  <2>5. ~ IsRequest(n + 1)
    BY <1>3, <1>4, NotLf DEF c
  <2> QED BY <2>2, <2>4, <2>5, Zenon DEF Outcome, Shape, r, c
<1>5. CASE c # "sp"
  <2>1. r.result = "bad"
    BY <1>1, <1>5, BadIs DEF expect
  <2>2. NoLineEnd(a, n)
    BY <1>2, <1>3, <1>5, ColonBlocked DEF c
  <2>3. NoLf(a, n)
    <3>1. NoLf(a, n - 1)
      BY <1>2, <1>3, LaterNoLf
    <3> QED BY <1>2, <3>1 DEF NoLf
  <2> QED BY <1>2, <1>3, <2>1, <2>2, <2>3, LaterBlocked DEF Outcome, r, c
<1> QED BY <1>4, <1>5 DEF r, c

\* The value of a header, in its own line or in a folded one
LEMMA ValueStep ==
  ASSUME input \in Seq(Char), NEW n \in 0..Len(input), n + 1 <= Len(input),
         NEW q \in Parser, q.result = "indeterminate", Shape(q, n), q.state = "header_value"
  PROVE  Outcome(consume(q, input[n + 1]), n + 1)
<1> DEFINE c == input[n + 1]
           r == consume(q, c)
<1>1. r = header_value(q, c)
  BY DEF consume
<1>2. PICK a \in 2..n : /\ Good(a - 1) /\ FirstDone(q) /\ q.headers # <<>>
                         /\ \E x \in 1..n : InValue(a, x, n) \/ InFolded(a, x, n)
  BY DEF Shape, ShapeValue, InLine
<1>b. PICK x \in 1..n : InValue(a, x, n) \/ InFolded(a, x, n)
  BY <1>2
<1>3. /\ n + 1 \in 1..Len(input) /\ n \in 1..Len(input) /\ a \in 2..Len(input)
      /\ n \in (a - 1)..Len(input) /\ a \in 2..(n + 1) /\ a \in 2..((n + 1) - 1)
      /\ x \in 1..(n + 1) /\ x \in 1..((n + 1) - 1) /\ (n + 1) - 1 = n /\ n + 1 >= 1
  OBVIOUS
<1> HIDE DEF c, r
<1>4. CASE c = "cr"
  <2>1. r = goto(q, "expecting_newline_2")
    BY <1>1, <1>4 DEF header_value
  <2>2. /\ r.state = "expecting_newline_2" /\ r.result = "indeterminate"
        /\ FirstDone(r) /\ r.headers # <<>>
    <3>1. "expecting_newline_2" \in State
      BY DEF State
    <3> QED BY <1>2, <2>1, <3>1, GotoKeeps
  <2>3. ShapeLineCr(r, n + 1)
    BY <1>2, <1>b, <1>3, <1>4, <2>2 DEF ShapeLineCr, InLine, c
  <2>4. ~ IsRequest(n + 1)
    BY <1>3, <1>4, NotLf DEF c
  <2> QED BY <2>2, <2>3, <2>4, Zenon DEF Outcome, Shape, r, c
<1>5. CASE c # "cr" /\ is_ctl(c)
  <2>1. r.result = "bad"
    BY <1>1, <1>5, BadIs DEF header_value
  <2>2. NoLineEnd(a, n)
    BY <1>b, <1>3, <1>5, ValueBlocked, FoldedBlocked DEF c
  <2>3. NoLf(a, n)
    BY <1>b, <1>3, LaterNoLf
  <2> QED BY <1>2, <1>3, <2>1, <2>2, <2>3, LaterBlocked DEF Outcome, r, c
<1>6. CASE c # "cr" /\ ~ is_ctl(c)
  <2>1. r = push_value(q)
    BY <1>1, <1>6 DEF header_value
  <2>2. r.state = "header_value" /\ r.result = "indeterminate" /\ FirstDone(r) /\ r.headers # <<>>
    BY <1>2, <2>1, PushIs, FirstDoneSame
  <2>3. InValue(a, x, n) => InValue(a, x, n + 1)
    BY <1>3, <1>6 DEF InValue, Text, c
  <2>4. InFolded(a, x, n) => InFolded(a, x, n + 1)
    BY <1>3, <1>6 DEF InFolded, Text, c
  <2>5. ShapeValue(r, n + 1)
    BY <1>2, <1>b, <1>3, <2>2, <2>3, <2>4 DEF ShapeValue, InLine
  <2>6. ~ IsRequest(n + 1)
    BY <1>3, <1>6, NotLf DEF c, is_ctl
  <2> QED BY <2>2, <2>5, <2>6, Zenon DEF Outcome, Shape, r, c
<1> QED BY <1>4, <1>5, <1>6 DEF r, c

\* The blanks of a folded line
LEMMA BlanksStep ==
  ASSUME input \in Seq(Char), NEW n \in 0..Len(input), n + 1 <= Len(input),
         NEW q \in Parser, q.result = "indeterminate", Shape(q, n), q.state = "header_lws"
  PROVE  Outcome(consume(q, input[n + 1]), n + 1)
<1> DEFINE c == input[n + 1]
           r == consume(q, c)
<1>1. r = header_lws(q, c)
  BY DEF consume
<1>2. PICK a \in 2..n : Good(a - 1) /\ FirstDone(q) /\ q.headers # <<>> /\ InBlanks(a, n)
  BY Zenon DEF Shape, ShapeBlanks, InLine
<1>3. /\ n + 1 \in 1..Len(input) /\ n \in 1..Len(input) /\ a \in 2..Len(input)
      /\ n \in (a - 1)..Len(input) /\ a \in 2..(n + 1) /\ a \in 2..((n + 1) - 1)
      /\ a < n + 1 /\ (n + 1) - 1 = n /\ n + 1 >= 1 /\ n + 1 \in 1..(n + 1)
  OBVIOUS
<1> HIDE DEF c, r
<1>4. CASE c = "cr"
  <2>1. r = goto(q, "expecting_newline_2")
    BY <1>1, <1>4 DEF header_lws
  <2>2. /\ r.state = "expecting_newline_2" /\ r.result = "indeterminate"
        /\ FirstDone(r) /\ r.headers # <<>>
    BY <1>2, <2>1, GotoIs, FirstDoneSame DEF State
  <2>3. ShapeLineCr(r, n + 1)
    BY <1>2, <1>3, <1>4, <2>2 DEF ShapeLineCr, InLine, c
  <2>4. ~ IsRequest(n + 1)
    BY <1>3, <1>4, NotLf DEF c
  <2> QED BY <2>2, <2>3, <2>4, Zenon DEF Outcome, Shape, r, c
<1>5. CASE c # "cr" /\ Blank(c)
  <2>1. r = q
    BY <1>1, <1>5 DEF header_lws, Blank
  <2>2. InBlanks(a, n + 1)
    BY <1>2, <1>3, <1>5 DEF InBlanks, c
  <2>3. ShapeBlanks(r, n + 1)
    BY <1>2, <1>3, <2>1, <2>2 DEF ShapeBlanks, InLine
  <2>4. ~ IsRequest(n + 1)
    BY <1>3, <1>5, NotLf DEF c, Blank
  <2> QED BY <2>1, <2>3, <2>4 DEF Outcome, Shape, r, c
<1>6. CASE c # "cr" /\ ~ Blank(c) /\ is_ctl(c)
  <2>1. r.result = "bad"
    BY <1>1, <1>6, BadIs DEF header_lws, Blank
  <2>2. NoLineEnd(a, n)
    BY <1>2, <1>3, <1>6, BlanksBlocked DEF c
  <2>3. NoLf(a, n)
    BY <1>2, <1>3, LaterNoLf
  <2> QED BY <1>2, <1>3, <2>1, <2>2, <2>3, LaterBlocked DEF Outcome, r, c
<1>7. CASE c # "cr" /\ ~ Blank(c) /\ ~ is_ctl(c)
  <2>1. r = push_value(goto(q, "header_value"))
    BY <1>1, <1>7 DEF header_lws, Blank
  <2>2. r.state = "header_value" /\ r.result = "indeterminate" /\ FirstDone(r) /\ r.headers # <<>>
    <3>1. PICK g \in Parser : /\ g = goto(q, "header_value") /\ g.state = "header_value"
                              /\ g.result = "indeterminate" /\ FirstDone(g) /\ g.headers # <<>>
      <4>1. "header_value" \in State
        BY DEF State
      <4> QED BY <1>2, <4>1, GotoKeeps
    <3> QED BY <2>1, <3>1, PushIs, FirstDoneSame
  <2>3. InFolded(a, n + 1, n + 1)
    BY <1>2, <1>3, <1>7 DEF InFolded, InBlanks, Text, c
  <2>4. ShapeValue(r, n + 1)
    BY <1>2, <1>3, <2>2, <2>3 DEF ShapeValue, InLine
  <2>5. ~ IsRequest(n + 1)
    BY <1>3, <1>7, NotLf DEF c, is_ctl
  <2> QED BY <2>2, <2>4, <2>5, Zenon DEF Outcome, Shape, r, c
<1> QED BY <1>4, <1>5, <1>6, <1>7 DEF r, c

\* The line feed of a header line or of a folded one
LEMMA LineCrStep ==
  ASSUME input \in Seq(Char), NEW n \in 0..Len(input), n + 1 <= Len(input),
         NEW q \in Parser, q.result = "indeterminate", Shape(q, n),
         q.state = "expecting_newline_2"
  PROVE  Outcome(consume(q, input[n + 1]), n + 1)
<1> DEFINE c == input[n + 1]
           r == consume(q, c)
<1>1. r = expect(q, c, "lf", "header_line_start")
  BY DEF consume
<1>2. n >= 1 /\ input[n] = "cr"
  BY DEF Shape, ShapeLineCr
<1>b. PICK a \in 2..(n - 1) :
        /\ Good(a - 1) /\ FirstDone(q) /\ q.headers # <<>>
        /\ \/ \E x \in 1..(n - 1) : InValue(a, x, n - 1) \/ InFolded(a, x, n - 1)
           \/ InBlanks(a, n - 1)
  BY Zenon DEF Shape, ShapeLineCr, InLine
<1>3. /\ n + 1 \in 1..Len(input) /\ n \in 1..Len(input) /\ n - 1 \in 1..Len(input)
      /\ a \in 2..Len(input) /\ n \in (a - 1)..Len(input) /\ a \in 2..(n + 1) /\ a \in 1..(n + 1)
      /\ (n + 1) - 1 = n /\ (n + 1) - 2 = n - 1 /\ a + 2 <= n + 1 /\ a \in 2..n /\ a < n
  BY <1>2
<1>4. NoLf(a, n)
  <2>1. NoLf(a, n - 1)
    BY <1>b, <1>3, LaterNoLf
  <2> QED BY <1>2, <2>1 DEF NoLf
<1> HIDE DEF c, r
<1>5. CASE c = "lf"
  <2>1. r = goto(q, "header_line_start")
    BY <1>1, <1>5 DEF expect
  <2>2. /\ r.state = "header_line_start" /\ r.result = "indeterminate"
        /\ FirstDone(r) /\ r.headers # <<>>
    <3>1. "header_line_start" \in State
      BY DEF State
    <3> QED BY <1>b, <2>1, <3>1, GotoKeeps
  <2>3. ASSUME NEW x \in 1..(n - 1), InValue(a, x, n - 1)
        PROVE  x \in a..n /\ HeaderParts(a, n + 1, x)
    <3>1. a < x /\ x + 1 <= n - 1
      BY <2>3 DEF InValue
    <3>2. x \in a..n /\ x + 2 < n + 1
      BY <3>1
    <3> QED BY <1>3, <2>3, <3>1, <3>2 DEF InValue, HeaderParts
  <2>4. ASSUME NEW x \in 1..(n - 1), InFolded(a, x, n - 1)
        PROVE  x \in a..n /\ FoldedParts(a, n + 1, x) /\ ~ NoLf(1, a - 2)
    <3>1. a < x /\ x <= n - 1
      BY <2>4 DEF InFolded
    <3>2. x \in a..n /\ x < n + 1
      BY <3>1
    <3> QED BY <1>3, <2>4, <3>1, <3>2 DEF InFolded, FoldedParts
  <2>5. ASSUME InBlanks(a, n - 1)
        PROVE  n \in a..n /\ FoldedParts(a, n + 1, n) /\ ~ NoLf(1, a - 2)
    BY <1>3, <2>5 DEF InBlanks, FoldedParts
  <2>6. LaterEnd(a, n + 1)
    <3>1. \/ \E x \in a..((n + 1) - 1) : HeaderParts(a, n + 1, x)
          \/ ~ NoLf(1, a - 2) /\ \E x \in a..((n + 1) - 1) : FoldedParts(a, n + 1, x)
      BY <1>b, <1>3, <2>3, <2>4, <2>5
    <3> QED BY <1>2, <1>3, <1>5, <3>1, LaterEndParts DEF c
  <2>7. Good(n + 1)
    BY <1>b, <1>3, <1>4, <2>6, GoodNext
  <2>8. ~ NoLf(1, (n + 1) - 1)
    <3>1. input[a - 1] = "lf" /\ a - 1 \in 1..n
      BY <1>b, <1>3 DEF Good
    <3> QED BY <1>3, <3>1 DEF NoLf
  <2>9. ShapeStart(r, n + 1)
    BY <2>2, <2>7, <2>8 DEF ShapeStart
  <2>10. ~ IsRequest(n + 1)
    BY <1>3, <2>7, GoodNotYet
  <2> QED BY <2>2, <2>9, <2>10, Zenon DEF Outcome, Shape, r, c
<1>6. CASE c # "lf"
  <2>1. r.result = "bad"
    BY <1>1, <1>6, BadIs DEF expect
  <2>2. input[a] # "cr"
    <3>1. ASSUME NEW x \in 1..(n - 1), InValue(a, x, n - 1) PROVE input[a] # "cr"
      <4>1. is_token(input[a])
        BY <3>1 DEF InValue
      <4> QED BY <4>1 DEF is_token, is_ctl
    <3>2. ASSUME NEW x \in 1..(n - 1), InFolded(a, x, n - 1) PROVE input[a] # "cr"
      <4>1. Blank(input[a])
        BY <3>2 DEF InFolded
      <4> QED BY <4>1 DEF Blank
    <3>3. ASSUME InBlanks(a, n - 1) PROVE input[a] # "cr"
      <4>1. Blank(input[a])
        BY <3>3 DEF InBlanks
      <4> QED BY <4>1 DEF Blank
    <3> QED BY <1>b, <3>1, <3>2, <3>3
  <2>3. NoLineEnd(a, n)
    BY <1>2, <1>3, <1>6, <2>2, LineCrBlocked DEF c
  <2> QED BY <1>b, <1>3, <1>4, <2>1, <2>3, LaterBlocked DEF Outcome, r, c
<1> QED BY <1>5, <1>6 DEF r, c

\* The line feed of the empty line: here the request is complete.
LEMMA EmptyCrStep ==
  ASSUME input \in Seq(Char), NEW n \in 0..Len(input), n + 1 <= Len(input),
         NEW q \in Parser, q.result = "indeterminate", Shape(q, n),
         q.state = "expecting_newline_3"
  PROVE  Outcome(consume(q, input[n + 1]), n + 1)
<1> DEFINE c == input[n + 1]
           r == consume(q, c)
<1>1. r = [q EXCEPT !.result = IF c = "lf" THEN "good" ELSE "bad"]
  BY DEF consume
<1>2. n >= 2 /\ input[n] = "cr" /\ Good(n - 1) /\ FirstDone(q)
  BY DEF Shape, ShapeEmptyCr
<1>3. /\ n + 1 \in 1..Len(input) /\ n \in 2..Len(input) /\ n \in (n - 1)..Len(input)
      /\ (n + 1) - 1 = n /\ (n + 1) - 2 = n - 1
  BY <1>2
<1> HIDE DEF c, r
<1>4. r.method = q.method /\ r.uri = q.uri /\ r.result = IF c = "lf" THEN "good" ELSE "bad"
  BY <1>1 DEF Parser
<1>5. CASE c = "lf"
  <2>1. n + 1 \in 4..Len(input)
    <3>1. PICK e \in 1..(n - 1) : e >= 2
      BY <1>2 DEF Good, ReqEnd
    <3> QED BY <1>3, <3>1
  <2>2. IsRequest(n + 1)
    BY <1>2, <1>3, <1>5, <2>1, GoodIsRequest DEF c
  <2>3. FirstDone(r)
    BY <1>2, <1>4, FirstDoneSame
  <2> QED BY <1>4, <1>5, <2>2, <2>3 DEF Outcome, r, c
<1>6. CASE c # "lf"
  <2>1. NoLineEnd(n, n)
    BY <1>2, <1>3, <1>6, EmptyCrBlocked DEF c
  <2>2. NoLf(n, n)
    BY <1>2 DEF NoLf
  <2>3. \A k \in (n + 1)..Len(input) : ~ IsRequest(k)
    BY <1>2, <1>3, <2>1, <2>2, LaterBlocked
  <2> QED BY <1>4, <1>6, <2>3 DEF Outcome, r, c
<1> QED BY <1>5, <1>6 DEF r, c

\* One character, in every state
LEMMA ConsumeOutcome ==
  ASSUME input \in Seq(Char), NEW n \in 0..Len(input), n + 1 <= Len(input),
         NEW q \in Parser, q.result = "indeterminate", Shape(q, n)
  PROVE  Outcome(consume(q, input[n + 1]), n + 1)
<1>1. q.state \in State
  BY DEF Parser
<1>2. CASE q.state \in {"method_start", "method"}
  BY <1>2, MethodStep
<1>3. CASE q.state = "uri"
  BY <1>3, UriStep
<1>4. CASE q.state \in {"http_version_h", "http_version_t_1", "http_version_t_2",
                        "http_version_p", "http_version_slash"}
  BY <1>4, HttpStep
<1>5. CASE q.state \in {"http_version_major_start", "http_version_major"}
  BY <1>5, MajorStep
<1>6. CASE q.state \in {"http_version_minor_start", "http_version_minor"}
  BY <1>6, MinorStep
<1>7. CASE q.state = "expecting_newline_1"
  BY <1>7, ReqCrStep
<1>8. CASE q.state = "header_line_start"
  BY <1>8, StartStep
<1>9. CASE q.state = "header_name"
  BY <1>9, NameStep
<1>10. CASE q.state = "space_before_header_value"
  BY <1>10, ColonStep
<1>11. CASE q.state = "header_value"
  BY <1>11, ValueStep
<1>12. CASE q.state = "header_lws"
  BY <1>12, BlanksStep
<1>13. CASE q.state = "expecting_newline_2"
  BY <1>13, LineCrStep
<1>14. CASE q.state = "expecting_newline_3"
  BY <1>14, EmptyCrStep
<1> QED BY <1>1, <1>2, <1>3, <1>4, <1>5, <1>6, <1>7, <1>8, <1>9, <1>10, <1>11, <1>12, <1>13, <1>14 DEF State

\* One turn of the loop of parse keeps what is known of the text so far.
LEMMA StepKnown ==
  ASSUME input \in Seq(Char), NEW n \in 0..Len(input), n + 1 <= Len(input),
         NEW q \in Parser, Known(q, n)
  PROVE  Known(Step(q, input[n + 1]), n + 1)
<1> DEFINE r == Step(q, input[n + 1])
<1>1. CASE q.result = "indeterminate" /\ Shape(q, n) /\ \A k \in 1..n : ~ IsRequest(k)
  <2>1. Outcome(r, n + 1)
    BY <1>1, ConsumeOutcome DEF Step
  <2>2. n + 1 \in 1..(n + 1) /\ \A k \in 1..(n + 1) : k \in 1..n \/ k = n + 1
    OBVIOUS
  <2>3. \A k \in 1..Len(input) : k \in 1..n \/ k \in (n + 1)..Len(input)
    OBVIOUS
  <2> HIDE DEF r
  <2> QED BY <1>1, <2>1, <2>2, <2>3 DEF Known, Outcome, r
<1>2. CASE q.result = "good" /\ FirstDone(q) /\ \E k \in 1..n : IsRequest(k)
  <2>1. r = q
    BY <1>2 DEF Step
  <2>2. \A k \in 1..n : k \in 1..(n + 1)
    OBVIOUS
  <2> HIDE DEF r
  <2> QED BY <1>2, <2>1, <2>2 DEF Known, r
<1>3. CASE q.result = "bad" /\ \A k \in 1..Len(input) : ~ IsRequest(k)
  <2>1. r = q
    BY <1>3 DEF Step
  <2> HIDE DEF r
  <2> QED BY <1>3, <2>1 DEF Known, r
<1> HIDE DEF r
<1> QED BY <1>1, <1>2, <1>3 DEF Known, r

\* A piece of n bytes after the first m
LEMMA ParseKnown ==
  ASSUME input \in Seq(Char), NEW m \in Nat, NEW n \in Nat, m + n <= Len(input),
         NEW p, Safe(p), Known(p, m)
  PROVE  Known(parse(p, SubSeq(input, m + 1, m + n)), m + n)
<1> DEFINE s == SubSeq(input, m + 1, m + n)
<1>1. s \in Seq(Char) /\ Len(s) = n /\ \A i \in 1..n : s[i] = input[m + i]
  BY Piece
<1> HIDE DEF s
<1>2. PICK g : Steps(g, p, s, Len(s)) /\ parse(p, s) = g[Len(s)]
  <2>1. s \in Seq(Char)
    BY <1>1
  <2> QED BY <2>1, ParseSteps
<1> DEFINE T == {k \in 0..n : ~ (Safe(g[k]) /\ Known(g[k], m + k))}
<1>3. SUFFICES ASSUME T # {} PROVE FALSE
  <2>1. ASSUME T = {} PROVE Known(parse(p, s), m + n)
    <3>1. n \in 0..n
      OBVIOUS
    <3>2. Known(g[n], m + n)
      BY <2>1, <3>1
    <3> QED BY <1>1, <1>2, <3>2
  <2> HIDE DEF T
  <2> QED BY <2>1 DEF s
<1>4. PICK k \in T : \A j \in T : k <= j
  <2>1. T \subseteq Nat
    OBVIOUS
  <2> HIDE DEF T
  <2> QED BY <1>3, <2>1, Least
<1>5. k # 0
  BY <1>1, <1>2 DEF Steps
<1>6. k - 1 \in 0..n /\ k \in 1..n /\ ~ (k <= k - 1)
  BY <1>5
<1>7. Safe(g[k - 1]) /\ Known(g[k - 1], m + (k - 1))
  BY <1>4, <1>6
<1>8. g[k] = Step(g[k - 1], s[k]) /\ s[k] \in Char /\ s[k] = input[m + k]
  BY <1>1, <1>2, <1>6 DEF Steps
<1>9. Safe(g[k])
  BY <1>7, <1>8, StepSafe
<1>10. Known(g[k], m + k)
  <2>1. /\ m + (k - 1) \in 0..Len(input) /\ (m + (k - 1)) + 1 <= Len(input)
        /\ (m + (k - 1)) + 1 = m + k
    BY <1>6
  <2>2. g[k - 1] \in Parser
    BY <1>7 DEF Safe
  <2> QED BY <1>7, <1>8, <2>1, <2>2, StepKnown
<1> QED BY <1>4, <1>9, <1>10

-----------------------------------------------------------------------------
(* All the pieces *)

\* The text does not change, and neither does what is said about it.
LEMMA TextFixed ==
  ASSUME UNCHANGED input
  PROVE  /\ \A n : IsRequest(n)' <=> IsRequest(n)
         /\ \A q, n : Shape(q, n)' <=> Shape(q, n)
         /\ \A q : FirstDone(q)' <=> FirstDone(q)
         /\ \A q, n : Known(q, n)' <=> Known(q, n)
<1>a. /\ \A n : Ends(n)' = Ends(n)
      /\ \A e : LineOf(e)' = LineOf(e)
      /\ \A n : Paired(n)' <=> Paired(n)
  BY DEF Ends, LineOf, Paired
<1>b. /\ \A n : Lines(n)' = Lines(n)
      /\ \A n : FirstLine(n)' = FirstLine(n)
  BY <1>a DEF Lines, FirstLine
<1>c. /\ \A l, x : HeaderLine(l, x)' <=> HeaderLine(l, x)
      /\ \A l, x : FoldedLine(l, x)' <=> FoldedLine(l, x)
  BY DEF HeaderLine, FoldedLine, All
<1>3. \A l, x, y : RequestLine(l, x, y)' <=> RequestLine(l, x, y)
  BY DEF RequestLine, All, Version, Number
<1>1. \A n : IsRequest(n)' <=> IsRequest(n)
  BY <1>a, <1>b, <1>c, <1>3 DEF IsRequest, In
<1>2. \A a, b : NoLf(a, b)' <=> NoLf(a, b)
  BY DEF NoLf
<1>4. \A e : ReqEnd(e)' <=> ReqEnd(e)
  BY <1>3 DEF ReqEnd, Line
<1>5. \A a, e : LaterEnd(a, e)' <=> LaterEnd(a, e)
  BY <1>2, <1>c DEF LaterEnd, Line
<1>6. \A n : Good(n)' <=> Good(n)
  BY <1>2, <1>4, <1>5 DEF Good
<1>7. \A q : FirstDone(q)' <=> FirstDone(q)
  BY <1>2, <1>3, <1>4 DEF FirstDone, Line, Fields
<1>8. \A q, n : ShapeMethod(q, n)' <=> ShapeMethod(q, n)
  BY DEF ShapeMethod, InMethod, NoHeader
<1>9. \A q, n : ShapeUri(q, n)' <=> ShapeUri(q, n)
  BY DEF ShapeUri, InUri, NoHeader
<1>10. \A q, n, j : ShapeHttp(q, n, j)' <=> ShapeHttp(q, n, j)
  <2>1. \A x, y, j : InHttp(x, y, j)' <=> InHttp(x, y, j)
    BY DEF InHttp, InUri
  <2> QED BY <2>1 DEF ShapeHttp, Fields, NoHeader
<1>11. \A x, y, n : InMajor(x, y, n)' <=> InMajor(x, y, n)
  BY DEF InMajor, InHttp, InUri
<1>12. \A x, y, d, n : InMinor(x, y, d, n)' <=> InMinor(x, y, d, n)
  BY <1>11 DEF InMinor
<1>13. /\ \A q, n : ShapeMajor(q, n)' <=> ShapeMajor(q, n)
       /\ \A q, n : ShapeDot(q, n)' <=> ShapeDot(q, n)
       /\ \A q, n : ShapeMinor(q, n)' <=> ShapeMinor(q, n)
       /\ \A q, n : ShapeReqCr(q, n)' <=> ShapeReqCr(q, n)
  <2>1. \A q, n : ShapeMajor(q, n)' <=> ShapeMajor(q, n)
    BY <1>11 DEF ShapeMajor, Fields, NoHeader
  <2>2. \A q, n : ShapeDot(q, n)' <=> ShapeDot(q, n)
    BY <1>12 DEF ShapeDot, Fields, NoHeader
  <2>3. \A q, n : ShapeMinor(q, n)' <=> ShapeMinor(q, n)
    BY <1>12 DEF ShapeMinor, Fields, NoHeader
  <2>4. \A q, n : ShapeReqCr(q, n)' <=> ShapeReqCr(q, n)
    BY <1>12 DEF ShapeReqCr, Fields, NoHeader
  <2> QED BY <2>1, <2>2, <2>3, <2>4
<1>14. \A q, n : ShapeStart(q, n)' <=> ShapeStart(q, n)
  BY <1>2, <1>6, <1>7 DEF ShapeStart
<1>15. \A q, a : InLine(q, a)' <=> InLine(q, a)
  BY <1>6, <1>7 DEF InLine
<1>16. /\ \A a, n : InName(a, n)' <=> InName(a, n)
       /\ \A a, x, n : InValue(a, x, n)' <=> InValue(a, x, n)
       /\ \A a, n : InBlanks(a, n)' <=> InBlanks(a, n)
       /\ \A a, z, n : InFolded(a, z, n)' <=> InFolded(a, z, n)
  BY <1>2 DEF InName, InValue, InBlanks, InFolded
<1>17. /\ \A q, n : ShapeName(q, n)' <=> ShapeName(q, n)
       /\ \A q, n : ShapeColon(q, n)' <=> ShapeColon(q, n)
       /\ \A q, n : ShapeValue(q, n)' <=> ShapeValue(q, n)
       /\ \A q, n : ShapeBlanks(q, n)' <=> ShapeBlanks(q, n)
       /\ \A q, n : ShapeLineCr(q, n)' <=> ShapeLineCr(q, n)
       /\ \A q, n : ShapeEmptyCr(q, n)' <=> ShapeEmptyCr(q, n)
  <2>1. /\ \A q, n : ShapeName(q, n)' <=> ShapeName(q, n)
        /\ \A q, n : ShapeColon(q, n)' <=> ShapeColon(q, n)
    BY <1>15, <1>16 DEF ShapeName, ShapeColon
  <2>2. \A q, n : ShapeValue(q, n)' <=> ShapeValue(q, n)
    BY <1>15, <1>16 DEF ShapeValue
  <2>3. \A q, n : ShapeBlanks(q, n)' <=> ShapeBlanks(q, n)
    BY <1>15, <1>16 DEF ShapeBlanks
  <2>4. \A q, n : ShapeLineCr(q, n)' <=> ShapeLineCr(q, n)
    BY <1>15, <1>16 DEF ShapeLineCr
  <2>5. \A q, n : ShapeEmptyCr(q, n)' <=> ShapeEmptyCr(q, n)
    BY <1>6, <1>7 DEF ShapeEmptyCr
  <2> QED BY <2>1, <2>2, <2>3, <2>4, <2>5
<1>18. ASSUME NEW q, NEW n PROVE Shape(q, n)' <=> Shape(q, n)
  <2>1. /\ ShapeMethod(q, n)' <=> ShapeMethod(q, n)
        /\ ShapeUri(q, n)' <=> ShapeUri(q, n)
        /\ \A j : ShapeHttp(q, n, j)' <=> ShapeHttp(q, n, j)
    BY <1>8, <1>9, <1>10
  <2>2. /\ ShapeMajor(q, n)' <=> ShapeMajor(q, n)
        /\ ShapeDot(q, n)' <=> ShapeDot(q, n)
        /\ ShapeMinor(q, n)' <=> ShapeMinor(q, n)
        /\ ShapeReqCr(q, n)' <=> ShapeReqCr(q, n)
    BY <1>13
  <2>3. /\ ShapeStart(q, n)' <=> ShapeStart(q, n)
        /\ ShapeName(q, n)' <=> ShapeName(q, n)
        /\ ShapeColon(q, n)' <=> ShapeColon(q, n)
        /\ ShapeValue(q, n)' <=> ShapeValue(q, n)
    BY <1>14, <1>17
  <2>4. /\ ShapeBlanks(q, n)' <=> ShapeBlanks(q, n)
        /\ ShapeLineCr(q, n)' <=> ShapeLineCr(q, n)
        /\ ShapeEmptyCr(q, n)' <=> ShapeEmptyCr(q, n)
    BY <1>17
  <2> QED BY <2>1, <2>2, <2>3, <2>4 DEF Shape
<1>19. \A q, n : Known(q, n)' <=> Known(q, n)
  BY <1>1, <1>7, <1>18 DEF Known
<1> QED BY <1>1, <1>7, <1>18, <1>19

\* What is known of the bytes read so far, and that the connection answers as
\* soon as the result is known and not before.
ReadKnown ==
  /\ \E q, n : q = parser /\ n = read /\ Known(q, n)
  /\ reply = "none" <=> parser.result = "indeterminate"
  /\ reply = "handle_request" <=> parser.result = "good"

\* It is an invariant, for every text and every way to cut it into reads.
THEOREM ReadAlways == ParserSpec => []ReadKnown
<1>1. ParserInit => ReadKnown
  <2> SUFFICES ASSUME ParserInit PROVE ReadKnown
    OBVIOUS
  <2>1. Known(request_parser, 0)
    <3>1. /\ request_parser.state = "method_start" /\ request_parser.result = "indeterminate"
          /\ request_parser.method = 0 /\ request_parser.uri = 0 /\ request_parser.headers = <<>>
      BY DEF request_parser
    <3>2. ShapeMethod(request_parser, 0)
      BY <3>1 DEF ShapeMethod, InMethod, NoHeader
    <3>3. Shape(request_parser, 0)
      BY <3>1, <3>2, Zenon DEF Shape
    <3>4. \A k \in 1..0 : ~ IsRequest(k)
      OBVIOUS
    <3> QED BY <3>1, <3>3, <3>4 DEF Known
  <2> QED BY <2>1 DEF ParserInit, ReadKnown, request_parser
<1>2. ParserTypeOK /\ BackDefined /\ ReadKnown /\ [ParserNext]_parserVars => ReadKnown'
  <2> SUFFICES ASSUME ParserTypeOK, BackDefined, ReadKnown, [ParserNext]_parserVars
               PROVE  ReadKnown'
    OBVIOUS
  <2>1. CASE UNCHANGED parserVars
    BY <2>1, TextFixed DEF parserVars, ReadKnown
  <2>2. ASSUME NEW n \in 1..(Len(input) - read), do_read(n)
        PROVE  ReadKnown'
    <3>1. /\ input \in Seq(Char) /\ read \in Nat /\ n \in Nat /\ read + n <= Len(input)
          /\ Safe(parser) /\ Known(parser, read)
      BY DEF ParserTypeOK, BackDefined, Safe, ReadKnown
    <3>2. /\ UNCHANGED input /\ read' = read + n
          /\ parser' = parse(parser, SubSeq(input, read + 1, read + n))
          /\ reply' = CASE parser'.result = "good" -> "handle_request"
                        [] parser'.result = "bad"  -> "bad_request"
                        [] OTHER                   -> "none"
      BY <2>2 DEF do_read
    <3>3. Known(parse(parser, SubSeq(input, read + 1, read + n)), read + n)
      BY <3>1, ParseKnown
    <3>4. SubSeq(input, read + 1, read + n) \in Seq(Char)
      BY <3>1
    <3>5. parse(parser, SubSeq(input, read + 1, read + n)) \in Parser
      BY <3>1, <3>4, ParseSafe DEF Safe
    <3>6. \E q, k : q = parser' /\ k = read' /\ Known(q, k)
      BY <3>2, <3>3
    <3>7. \E q, k : q = parser' /\ k = read' /\ Known(q, k)'
      BY <3>2, <3>6, TextFixed
    <3>8. parser'.result \in {"good", "bad", "indeterminate"}
      BY <3>2, <3>5 DEF Parser
    <3>9. /\ reply' = "none" <=> parser'.result = "indeterminate"
          /\ reply' = "handle_request" <=> parser'.result = "good"
      BY <3>2, <3>8
    <3> QED BY <3>7, <3>9 DEF ReadKnown
  <2> QED BY <2>1, <2>2 DEF ParserNext
<1> QED BY <1>1, <1>2, ParserSound, PTL DEF ParserSpec

\* For every text and every way to cut it into reads: request_parser accepts
\* exactly the requests, and do_read calls handle_request when it has read the
\* last byte of one.
THEOREM ParserAccepts == ParserSpec => []AcceptsRequests
<1>1. ParserTypeOK /\ ReadKnown => AcceptsRequests
  <2> SUFFICES ASSUME ParserTypeOK, ReadKnown PROVE AcceptsRequests
    OBVIOUS
  <2>1. Known(parser, read) /\ read \in 0..Len(input)
    BY DEF ReadKnown, ParserTypeOK
  <2>2. \A k \in 1..read : k \in 1..Len(input)
    BY <2>1
  <2> QED BY <2>1, <2>2 DEF ReadKnown, Known, AcceptsRequests
<1> QED BY <1>1, ParserSound, ReadAlways, PTL

=============================================================================
