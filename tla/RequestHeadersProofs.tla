------------------------ MODULE RequestHeadersProofs ------------------------
(* The headers that the parser collects are those of the text, for every      *)
(* input: first what the text says of them, then what the parser does.        *)
EXTENDS RequestParserProofs, FiniteSetTheorems

-----------------------------------------------------------------------------
(* The headers of the text, by the bytes they are made of *)

\* A header line begins at a.
Start(a) == a >= 2 /\ input[a - 1] = "lf" /\ is_token(input[a])

Starts(n) == {a \in 2..n : Start(a)}

\* The byte at i is one of the value of the header that begins at a: it is in
\* its own line or in a folded one that no other header comes before.
ValueAt(a, i) ==
  \/ \E x \in 1..i : x + 2 <= i /\ InValue(a, x, i)
  \/ \E b \in (a + 1)..i : /\ input[b - 1] = "lf" /\ \A s \in (a + 1)..b : ~ Start(s)
                           /\ \E z \in 1..i : InFolded(b, z, i)

Names(a, n) == {i \in 1..n : InName(a, i)}
Values(a, n) == {i \in 1..n : ValueAt(a, i)}

\* The header h is what n bytes say of the one that begins at a.
Counted(h, a, n) ==
  h.name = Cardinality(Names(a, n)) /\ h.value = Cardinality(Values(a, n))

\* w lists where headers begin within n bytes.
Listed(w, n) ==
  /\ \A j \in 1..Len(w) : w[j] \in Starts(n)
  /\ \A a \in Starts(n) : \E j \in 1..Len(w) : w[j] = a
  /\ \A i, j \in 1..Len(w) : i < j => w[i] < w[j]

\* The headers hs are those of the first n bytes.
HeadersOf(hs, n) ==
  \E w \in Seq(Nat) :
    /\ Len(w) = Len(hs) /\ Listed(w, n)
    /\ \A j \in 1..Len(hs) : Counted(hs[j], w[j], n)

\* The list holds starts of headers, in their order.
LEMMA ListedAt ==
  ASSUME NEW w, NEW n, Listed(w, n), NEW j \in 1..Len(w)
  PROVE  w[j] \in Starts(n)
BY DEF Listed

LEMMA ListedUp ==
  ASSUME NEW w, NEW n, Listed(w, n), NEW i \in 1..Len(w), NEW j \in 1..Len(w), i < j
  PROVE  w[i] < w[j]
BY DEF Listed

\* One byte more is one more in the name or the value, or none.
LEMMA CountUp ==
  ASSUME NEW n \in Nat, NEW a
  PROVE  /\ Cardinality(Names(a, n)) \in Nat /\ Cardinality(Values(a, n)) \in Nat
         /\ ~ InName(a, n + 1) => Names(a, n + 1) = Names(a, n)
         /\ ~ ValueAt(a, n + 1) => Values(a, n + 1) = Values(a, n)
         /\ InName(a, n + 1) => Cardinality(Names(a, n + 1)) = Cardinality(Names(a, n)) + 1
         /\ ValueAt(a, n + 1) => Cardinality(Values(a, n + 1)) = Cardinality(Values(a, n)) + 1
<1>1. IsFiniteSet(1..n)
  BY FS_Interval
<1>2. Names(a, n) \in SUBSET (1..n) /\ Values(a, n) \in SUBSET (1..n)
  BY DEF Names, Values
<1>3. IsFiniteSet(Names(a, n)) /\ IsFiniteSet(Values(a, n))
  BY <1>1, <1>2, FS_Subset
<1>4. \A i : i \in 1..(n + 1) <=> i \in 1..n \/ i = n + 1
  OBVIOUS
<1>5. n + 1 \notin Names(a, n) /\ n + 1 \notin Values(a, n)
  BY <1>2
<1>6. /\ InName(a, n + 1) => Names(a, n + 1) = Names(a, n) \cup {n + 1}
      /\ ~ InName(a, n + 1) => Names(a, n + 1) = Names(a, n)
  BY <1>4, Zenon DEF Names
<1>7. /\ ValueAt(a, n + 1) => Values(a, n + 1) = Values(a, n) \cup {n + 1}
      /\ ~ ValueAt(a, n + 1) => Values(a, n + 1) = Values(a, n)
  BY <1>4, Zenon DEF Values
<1>8. Cardinality(Names(a, n)) \in Nat /\ Cardinality(Values(a, n)) \in Nat
  BY <1>3, FS_CardinalityType
<1>9. /\ Cardinality(Names(a, n) \cup {n + 1}) = Cardinality(Names(a, n)) + 1
      /\ Cardinality(Values(a, n) \cup {n + 1}) = Cardinality(Values(a, n)) + 1
  BY <1>3, <1>5, FS_AddElement
<1> QED BY <1>6, <1>7, <1>8, <1>9

\* Where no header begins, the list stays.
LEMMA ListedSame ==
  ASSUME NEW n \in Nat, ~ Start(n + 1)
  PROVE  Starts(n + 1) = Starts(n) /\ \A w : Listed(w, n) => Listed(w, n + 1)
<1>1. \A i : i \in 2..(n + 1) => i \in 2..n \/ i = n + 1
  OBVIOUS
<1>2. \A i : i \in 2..n => i \in 2..(n + 1)
  OBVIOUS
<1>3. Starts(n + 1) = Starts(n)
  BY <1>1, <1>2, Zenon DEF Starts
<1> QED BY <1>3 DEF Listed

\* A byte that is in no name and in no value leaves the headers as they are.
LEMMA HeadersKept ==
  ASSUME NEW n \in Nat, NEW hs, HeadersOf(hs, n), ~ Start(n + 1),
         \A a \in Starts(n) : ~ InName(a, n + 1) /\ ~ ValueAt(a, n + 1)
  PROVE  HeadersOf(hs, n + 1)
<1>1. PICK w \in Seq(Nat) : /\ Len(w) = Len(hs) /\ Listed(w, n)
                            /\ \A j \in 1..Len(hs) : Counted(hs[j], w[j], n)
  BY DEF HeadersOf
<1>2. Listed(w, n + 1)
  BY <1>1, ListedSame
<1>3. ASSUME NEW j \in 1..Len(hs) PROVE Counted(hs[j], w[j], n + 1)
  <2>1. w[j] \in Starts(n)
    BY <1>1 DEF Listed
  <2>2. /\ Names(w[j], n + 1) = Names(w[j], n)
        /\ Values(w[j], n + 1) = Values(w[j], n)
    BY <2>1, CountUp
  <2>3. Counted(hs[j], w[j], n)
    BY <1>1
  <2> QED BY <2>2, <2>3 DEF Counted
<1> QED BY <1>1, <1>2, <1>3 DEF HeadersOf

\* The last header of the list is the one that begins last.
LEMMA LastListed ==
  ASSUME NEW n \in Nat, NEW w \in Seq(Nat), Listed(w, n),
         NEW a \in Starts(n), \A b \in Starts(n) : b <= a
  PROVE  /\ Len(w) \in 1..Len(w) /\ w[Len(w)] = a
         /\ \A j \in 1..Len(w) : j # Len(w) => w[j] # a
<1>1. PICK k \in 1..Len(w) : w[k] = a
  BY DEF Listed
<1>2. Len(w) \in 1..Len(w) /\ Len(w) \in Nat
  BY <1>1
<1>3. w[Len(w)] \in Starts(n)
  BY <1>2 DEF Listed
<1>4. w[Len(w)] <= a
  BY <1>3
<1>5. \A j \in 1..Len(w) : j # Len(w) => w[j] < w[Len(w)]
  <2> SUFFICES ASSUME NEW j \in 1..Len(w), j # Len(w) PROVE w[j] < w[Len(w)]
    OBVIOUS
  <2>1. j < Len(w)
    BY <1>2
  <2> QED BY <1>2, <2>1 DEF Listed
<1>6. a \in Nat /\ \A j \in 1..Len(w) : w[j] \in Nat
  BY <1>1
<1>7. k = Len(w)
  BY <1>1, <1>2, <1>4, <1>5, <1>6
<1> QED BY <1>1, <1>2, <1>5, <1>6, <1>7

\* A new header: its name has one byte.
LEMMA HeadersNew ==
  ASSUME NEW n \in Nat, NEW hs \in Seq(Header), HeadersOf(hs, n), Start(n + 1),
         \A a \in Starts(n) : ~ InName(a, n + 1) /\ ~ ValueAt(a, n + 1)
  PROVE  HeadersOf(Append(hs, [name |-> 1, value |-> 0]), n + 1)
<1>1. PICK w \in Seq(Nat) : /\ Len(w) = Len(hs) /\ Listed(w, n)
                            /\ \A j \in 1..Len(hs) : Counted(hs[j], w[j], n)
  BY DEF HeadersOf
<1> DEFINE v == Append(w, n + 1)
           gs == Append(hs, [name |-> 1, value |-> 0])
<1>2. /\ v \in Seq(Nat) /\ Len(v) = Len(w) + 1 /\ v[Len(w) + 1] = n + 1
      /\ \A j \in 1..Len(w) : v[j] = w[j]
  BY <1>1
<1>3. /\ Len(gs) = Len(hs) + 1 /\ gs[Len(hs) + 1] = [name |-> 1, value |-> 0]
      /\ \A j \in 1..Len(hs) : gs[j] = hs[j]
  OBVIOUS
<1>4. n + 1 >= 2 /\ n + 1 \in Starts(n + 1)
  BY DEF Start, Starts
<1>5. \A a : a \in Starts(n + 1) <=> a \in Starts(n) \/ a = n + 1
  <2>1. \A i : i \in 2..(n + 1) <=> i \in 2..n \/ i = n + 1
    BY <1>4
  <2> QED BY <1>4, <2>1, Zenon DEF Starts
<1>6. \A a \in Starts(n) : a \in Nat /\ a < n + 1
  BY DEF Starts
<1>b. Len(w) \in Nat /\ \A j : j \in 1..(Len(w) + 1) <=> j \in 1..Len(w) \/ j = Len(w) + 1
  BY <1>1
<1> HIDE DEF v, gs
<1>c. \A j \in 1..Len(w) : v[j] = w[j]
  BY <1>2
<1>7. Listed(v, n + 1)
  <2>1. \A j \in 1..Len(v) : v[j] \in Starts(n + 1)
    BY <1>1, <1>2, <1>4, <1>5, <1>b DEF Listed
  <2>2. ASSUME NEW a \in Starts(n + 1) PROVE \E j \in 1..Len(v) : v[j] = a
    <3>1. CASE a = n + 1
      BY <3>1, <1>2, <1>b
    <3>2. CASE a # n + 1
      <4>1. PICK j \in 1..Len(w) : w[j] = a
        BY <1>1, <1>5, <3>2 DEF Listed
      <4> QED BY <1>2, <1>b, <1>c, <4>1
    <3> QED BY <3>1, <3>2
  <2>3. ASSUME NEW i \in 1..Len(v), NEW j \in 1..Len(v), i < j PROVE v[i] < v[j]
    <3>1. i \in 1..Len(w) /\ v[i] = w[i]
      <4>1. i \in 1..Len(w)
        BY <1>2, <1>b, <2>3
      <4> QED BY <1>c, <4>1
    <3>2. CASE j = Len(w) + 1
      <4>1. w[i] \in Starts(n)
        BY <1>1, <3>1 DEF Listed
      <4> QED BY <1>2, <1>6, <3>1, <3>2, <4>1
    <3>3. CASE j \in 1..Len(w)
      <4>1. w[i] < w[j]
        BY <1>1, <2>3, <3>1, <3>3, ListedUp
      <4> QED BY <1>c, <3>1, <3>3, <4>1
    <3> QED BY <1>2, <1>b, <3>2, <3>3
  <2> QED BY <2>1, <2>2, <2>3 DEF Listed
<1>8. Counted([name |-> 1, value |-> 0], n + 1, n + 1)
  <2>1. Names(n + 1, n + 1) = {n + 1}
    <3>1. InName(n + 1, n + 1)
      BY DEF InName, Start
    <3>2. \A i \in 1..(n + 1) : InName(n + 1, i) => i = n + 1
      BY DEF InName
    <3> QED BY <3>1, <3>2 DEF Names
  <2>2. Values(n + 1, n + 1) = {}
    <3>1. ASSUME NEW i \in 1..(n + 1), ValueAt(n + 1, i) PROVE FALSE
      <4>1. ~ \E x \in 1..i : x + 2 <= i /\ InValue(n + 1, x, i)
        BY DEF InValue
      <4>2. ~ \E b \in ((n + 1) + 1)..i : TRUE
        OBVIOUS
      <4> QED BY <3>1, <4>1, <4>2 DEF ValueAt
    <3> QED BY <3>1 DEF Values
  <2> QED BY <2>1, <2>2, FS_Singleton, FS_EmptySet DEF Counted
<1>9. ASSUME NEW j \in 1..Len(gs) PROVE Counted(gs[j], v[j], n + 1)
  <2>1. CASE j = Len(w) + 1
    BY <1>1, <1>2, <1>3, <1>8, <2>1
  <2>2. CASE j \in 1..Len(w)
    <3>1. w[j] \in Starts(n)
      BY <1>1, <2>2 DEF Listed
    <3>2. /\ Names(w[j], n + 1) = Names(w[j], n)
          /\ Values(w[j], n + 1) = Values(w[j], n)
      BY <3>1, CountUp
    <3>3. Counted(hs[j], w[j], n)
      BY <1>1, <2>2
    <3>4. Counted(hs[j], w[j], n + 1)
      BY <3>2, <3>3 DEF Counted
    <3> QED BY <1>1, <1>2, <1>3, <2>2, <3>4
  <2> QED BY <1>1, <1>3, <1>b, <2>1, <2>2
<1> QED BY <1>1, <1>2, <1>3, <1>7, <1>9 DEF HeadersOf, gs

\* A byte of the last header's name or value
LEMMA HeadersMore ==
  ASSUME NEW n \in Nat, NEW hs \in Seq(Header), HeadersOf(hs, n), ~ Start(n + 1),
         NEW a \in Starts(n), \A b \in Starts(n) : b <= a,
         \A b \in Starts(n) : b # a => ~ InName(b, n + 1) /\ ~ ValueAt(b, n + 1)
  PROVE  /\ InName(a, n + 1) /\ ~ ValueAt(a, n + 1) =>
              HeadersOf([hs EXCEPT ![Len(hs)].name = @ + 1], n + 1)
         /\ ~ InName(a, n + 1) /\ ValueAt(a, n + 1) =>
              HeadersOf([hs EXCEPT ![Len(hs)].value = @ + 1], n + 1)
<1>1. PICK w \in Seq(Nat) : /\ Len(w) = Len(hs) /\ Listed(w, n)
                            /\ \A j \in 1..Len(hs) : Counted(hs[j], w[j], n)
  BY DEF HeadersOf
<1> DEFINE m == Len(hs)
<1>2. /\ m \in 1..m /\ w[m] = a /\ \A j \in 1..m : j # m => w[j] # a
  BY <1>1, LastListed
<1>3. Listed(w, n + 1)
  BY <1>1, ListedSame
<1>4. hs[m] \in Header /\ Counted(hs[m], a, n)
  BY <1>1, <1>2
<1>5. ASSUME NEW j \in 1..m, j # m PROVE Counted(hs[j], w[j], n + 1)
  <2>1. w[j] \in Starts(n) /\ w[j] # a
    BY <1>1, <1>2, <1>5 DEF Listed
  <2>2. /\ Names(w[j], n + 1) = Names(w[j], n)
        /\ Values(w[j], n + 1) = Values(w[j], n)
    BY <2>1, CountUp
  <2>3. Counted(hs[j], w[j], n)
    BY <1>1
  <2> QED BY <2>2, <2>3 DEF Counted
<1>6. ASSUME NEW h, Counted(h, a, n + 1)
      PROVE  HeadersOf([hs EXCEPT ![m] = h], n + 1)
  <2> DEFINE gs == [hs EXCEPT ![m] = h]
  <2>1. Len(gs) = m /\ gs[m] = h /\ \A j \in 1..m : j # m => gs[j] = hs[j]
    BY <1>2
  <2> HIDE DEF gs
  <2>2. \A j \in 1..Len(gs) : Counted(gs[j], w[j], n + 1)
    BY <1>2, <1>5, <1>6, <2>1
  <2>3. HeadersOf(gs, n + 1)
    BY <1>1, <1>3, <2>1, <2>2 DEF HeadersOf
  <2> QED BY <2>3 DEF gs
<1>7. ASSUME InName(a, n + 1), ~ ValueAt(a, n + 1)
      PROVE  HeadersOf([hs EXCEPT ![m].name = @ + 1], n + 1)
  <2> DEFINE h == [hs[m] EXCEPT !.name = @ + 1]
  <2>1. h.name = hs[m].name + 1 /\ h.value = hs[m].value
    BY <1>4 DEF Header
  <2>2. Counted(h, a, n + 1)
    <3>1. /\ Cardinality(Names(a, n + 1)) = Cardinality(Names(a, n)) + 1
          /\ Values(a, n + 1) = Values(a, n)
      BY <1>7, CountUp
    <3> HIDE DEF h
    <3> QED BY <1>4, <2>1, <3>1 DEF Counted
  <2> HIDE DEF h, m
  <2>3. HeadersOf([hs EXCEPT ![m] = h], n + 1)
    BY <1>6, <2>2
  <2> QED BY <2>3 DEF h
<1>8. ASSUME ~ InName(a, n + 1), ValueAt(a, n + 1)
      PROVE  HeadersOf([hs EXCEPT ![m].value = @ + 1], n + 1)
  <2> DEFINE h == [hs[m] EXCEPT !.value = @ + 1]
  <2>1. h.value = hs[m].value + 1 /\ h.name = hs[m].name
    BY <1>4 DEF Header
  <2>2. Counted(h, a, n + 1)
    <3>1. /\ Cardinality(Values(a, n + 1)) = Cardinality(Values(a, n)) + 1
          /\ Names(a, n + 1) = Names(a, n)
      BY <1>8, CountUp
    <3> HIDE DEF h
    <3> QED BY <1>4, <2>1, <3>1 DEF Counted
  <2> HIDE DEF h, m
  <2>3. HeadersOf([hs EXCEPT ![m] = h], n + 1)
    BY <1>6, <2>2
  <2> QED BY <2>3 DEF h
<1> QED BY <1>7, <1>8

\* A control character is in no name and no value, and begins no header.
LEMMA ControlKept ==
  ASSUME NEW n \in Nat, is_ctl(input[n + 1])
  PROVE  ~ Start(n + 1) /\ \A a \in Starts(n) : ~ InName(a, n + 1) /\ ~ ValueAt(a, n + 1)
<1>1. ~ is_token(input[n + 1]) /\ ~ Text(input[n + 1])
  BY DEF is_token, Text
<1>2. ~ Start(n + 1)
  BY <1>1 DEF Start
<1>3. ASSUME NEW a \in Starts(n), InName(a, n + 1) PROVE FALSE
  <2>1. a \in Nat /\ n + 1 \in a..(n + 1)
    BY DEF Starts
  <2> QED BY <1>1, <1>3, <2>1 DEF InName
<1>4. ASSUME NEW a \in Starts(n), ValueAt(a, n + 1) PROVE FALSE
  <2>1. ASSUME NEW x \in 1..(n + 1), x + 2 <= n + 1, InValue(a, x, n + 1) PROVE FALSE
    <3>1. n + 1 \in (x + 2)..(n + 1)
      BY <2>1
    <3> QED BY <1>1, <2>1, <3>1 DEF InValue
  <2>2. ASSUME NEW b \in (a + 1)..(n + 1), NEW z \in 1..(n + 1), InFolded(b, z, n + 1) PROVE FALSE
    <3>1. n + 1 \in z..(n + 1)
      OBVIOUS
    <3> QED BY <1>1, <2>2, <3>1 DEF InFolded
  <2> QED BY <1>4, <2>1, <2>2 DEF ValueAt
<1> QED BY <1>2, <1>3, <1>4

\* A byte of the line from a is of a header's name or value only through that line.
LEMMA InLineOnly ==
  ASSUME input \in Seq(Char), NEW n \in Nat, n + 1 <= Len(input), NEW a \in 2..(n + 1),
         input[a - 1] = "lf", NoLf(a, n), NEW s \in Starts(n)
  PROVE  /\ InName(s, n + 1) => s = a
         /\ ValueAt(s, n + 1) =>
              \/ s = a /\ \E x \in 1..(n + 1) : x + 2 <= n + 1 /\ InValue(a, x, n + 1)
              \/ /\ s < a /\ \A t \in (s + 1)..a : ~ Start(t)
                 /\ \E z \in 1..(n + 1) : InFolded(a, z, n + 1)
<1>1. s \in 2..n /\ s \in 2..(n + 1) /\ input[s - 1] = "lf" /\ n + 1 \in 1..Len(input)
  BY DEF Starts, Start
<1>2. ASSUME NEW b \in 2..(n + 1), input[b - 1] = "lf", NoLf(b, n + 1) PROVE b = a
  <2>1. ~ b < a
    <3> SUFFICES ASSUME b < a PROVE FALSE
      OBVIOUS
    <3>1. a - 1 \in b..(n + 1)
      OBVIOUS
    <3> QED BY <1>2, <3>1 DEF NoLf
  <2>2. ~ a < b
    <3> SUFFICES ASSUME a < b PROVE FALSE
      OBVIOUS
    <3>1. b - 1 \in a..n
      OBVIOUS
    <3> QED BY <1>2, <3>1 DEF NoLf
  <2> QED BY <2>1, <2>2
<1>3. ASSUME InName(s, n + 1) PROVE s = a
  BY <1>1, <1>2, <1>3, LaterNoLf
<1>4. ASSUME NEW x \in 1..(n + 1), InValue(s, x, n + 1) PROVE s = a
  BY <1>1, <1>2, <1>4, LaterNoLf
<1>5. ASSUME NEW b \in (s + 1)..(n + 1), input[b - 1] = "lf", NEW z \in 1..(n + 1), InFolded(b, z, n + 1)
      PROVE  b = a
  <2>1. b \in 2..(n + 1)
    BY <1>1
  <2> QED BY <1>1, <1>2, <1>5, <2>1, LaterNoLf
<1>6. ASSUME ValueAt(s, n + 1)
      PROVE  \/ s = a /\ \E x \in 1..(n + 1) : x + 2 <= n + 1 /\ InValue(a, x, n + 1)
             \/ /\ s < a /\ \A t \in (s + 1)..a : ~ Start(t)
                /\ \E z \in 1..(n + 1) : InFolded(a, z, n + 1)
  <2>1. CASE \E x \in 1..(n + 1) : x + 2 <= n + 1 /\ InValue(s, x, n + 1)
    <3>1. s = a
      BY <1>4, <2>1
    <3> QED BY <2>1, <3>1
  <2>2. CASE \E b \in (s + 1)..(n + 1) : /\ input[b - 1] = "lf" /\ \A t \in (s + 1)..b : ~ Start(t)
                                        /\ \E z \in 1..(n + 1) : InFolded(b, z, n + 1)
    <3>1. PICK b \in (s + 1)..(n + 1) : /\ input[b - 1] = "lf" /\ \A t \in (s + 1)..b : ~ Start(t)
                                        /\ \E z \in 1..(n + 1) : InFolded(b, z, n + 1)
      BY <2>2
    <3>2. b = a
      BY <1>5, <3>1
    <3>3. s < b
      BY <1>1
    <3> QED BY <3>1, <3>2, <3>3
  <2> QED BY <1>6, <2>1, <2>2 DEF ValueAt
<1> QED BY <1>3, <1>6

\* No header begins inside a line, and one that begins it is the last so far.
LEMMA LastStart ==
  ASSUME input \in Seq(Char), NEW n \in Nat, n + 1 <= Len(input), NEW a \in 2..n,
         input[a - 1] = "lf", NoLf(a, n)
  PROVE  /\ ~ Start(n + 1)
         /\ \A s \in Starts(n) : s <= a
         /\ is_token(input[a]) => a \in Starts(n)
         /\ ~ is_token(input[a]) => \A s \in Starts(n) : s < a
<1>1. n \in a..n
  OBVIOUS
<1>2. ~ Start(n + 1)
  <2>1. (n + 1) - 1 = n
    OBVIOUS
  <2> QED BY <1>1, <2>1 DEF Start, NoLf
<1>3. ASSUME NEW s \in Starts(n) PROVE s \in Nat /\ s <= a /\ is_token(input[s])
  <2>1. s \in 2..n /\ input[s - 1] = "lf" /\ is_token(input[s])
    BY DEF Starts, Start
  <2>2. ~ (s - 1 \in a..n)
    BY <2>1 DEF NoLf
  <2> QED BY <2>1, <2>2
<1>4. is_token(input[a]) => a \in Starts(n)
  BY DEF Starts, Start
<1>5. ~ is_token(input[a]) => \A s \in Starts(n) : s < a
  <2> SUFFICES ASSUME ~ is_token(input[a]), NEW s \in Starts(n) PROVE s < a
    OBVIOUS
  <2>1. s # a /\ s <= a /\ s \in Nat
    BY <1>3
  <2> QED BY <2>1
<1> QED BY <1>2, <1>3, <1>4, <1>5

\* The last start of all
LEMMA GreatestStart ==
  ASSUME NEW n \in Nat, Starts(n) # {}
  PROVE  \E a \in Starts(n) : \A s \in Starts(n) : s <= a
<1>1. Starts(n) \in SUBSET (1..n)
  BY DEF Starts
<1> QED BY <1>1, Greatest

\* In the request line there is no header.
LEMMA FirstHeaders ==
  ASSUME input \in Seq(Char), NEW n \in Nat, n + 1 <= Len(input), NoLf(1, n),
         NEW hs, HeadersOf(hs, n)
  PROVE  HeadersOf(hs, n + 1)
<1>1. Starts(n) = {}
  <2> SUFFICES ASSUME NEW s \in Starts(n) PROVE FALSE
    OBVIOUS
  <2>1. s - 1 \in 1..n /\ input[s - 1] = "lf"
    BY DEF Starts, Start
  <2> QED BY <2>1 DEF NoLf
<1>2. ~ Start(n + 1)
  <2> SUFFICES ASSUME Start(n + 1) PROVE FALSE
    OBVIOUS
  <2>1. n \in 1..n /\ (n + 1) - 1 = n
    BY DEF Start
  <2> QED BY <2>1 DEF Start, NoLf
<1> QED BY <1>1, <1>2, HeadersKept

-----------------------------------------------------------------------------
(* The headers of a request: the reference's lines and the bytes *)

\* Only one length makes the text a request.
LEMMA RequestOnce ==
  ASSUME input \in Seq(Char), NEW j \in 1..Len(input), NEW k \in 1..Len(input),
         IsRequest(j), IsRequest(k)
  PROVE  j = k
<1>1. ASSUME NEW m \in 1..Len(input), NEW n \in 1..Len(input), IsRequest(m), IsRequest(n), m < n
      PROVE  FALSE
  <2>1. m >= 4 /\ input[m - 1] = "cr" /\ input[m] = "lf" /\ Good(m - 2)
    BY <1>1, RequestIsGood
  <2>2. n >= 4 /\ input[n - 1] = "cr" /\ Good(n - 2)
    BY <1>1, RequestIsGood
  <2>3. m # n - 1
    BY <2>1, <2>2
  <2>4. m - 1 \in 2..(n - 2) /\ m \in 2..(n - 2) /\ m - 1 <= m /\ (m - 1) - 1 = m - 2
    BY <1>1, <2>1, <2>3
  <2>5. input[(m - 1) - 1] = "lf" /\ NoLf(m - 1, m - 1)
    BY <2>1, <2>4 DEF Good, NoLf
  <2>6. LaterEnd(m - 1, m)
    BY <2>1, <2>2, <2>4, <2>5, GoodEnd
  <2> QED BY <2>6 DEF LaterEnd
<1> QED BY <1>1

\* A line has one end.
LEMMA OneEnd ==
  ASSUME NEW a \in Nat, NEW d \in Nat, NEW e \in Nat, a <= d, a <= e,
         input[d] = "lf", input[e] = "lf", NoLf(a, d - 1), NoLf(a, e - 1)
  PROVE  d = e
<1>1. ~ (d < e)
  <2>1. d < e => d \in a..(e - 1)
    OBVIOUS
  <2> QED BY <2>1 DEF NoLf
<1>2. ~ (e < d)
  <2>1. e < d => e \in a..(d - 1)
    OBVIOUS
  <2> QED BY <2>1 DEF NoLf
<1> QED BY <1>1, <1>2

\* Every line of a request but the first and the last is a later line of good text.
LEMMA LaterLine ==
  ASSUME input \in Seq(Char), NEW n \in 1..Len(input), IsRequest(n),
         NEW a \in 2..n, input[a - 1] = "lf", input[a] # "cr"
  PROVE  \E e \in a..n : /\ e <= n - 2 /\ input[e] = "lf" /\ NoLf(a, e - 1) /\ LaterEnd(a, e)
                         /\ LineOf(e) = Line(a, e) /\ Line(a, e) \in Lines(n)
<1>1. n >= 4 /\ input[n - 1] = "cr" /\ input[n] = "lf" /\ Good(n - 2)
  BY RequestIsGood
<1>2. a # n - 1 /\ a # n
  <2>1. a = n => input[a - 1] = "cr"
    BY <1>1
  <2> QED BY <1>1, <2>1
<1>3. a \in 2..(n - 2)
  BY <1>2
<1>4. input[n - 2] = "lf"
  BY <1>1 DEF Good
<1> DEFINE T == {i \in a..(n - 2) : input[i] = "lf"}
<1>5. T \subseteq Nat /\ T # {}
  <2>1. n - 2 \in T
    BY <1>3, <1>4
  <2>2. T \subseteq Nat
    BY <1>3
  <2> QED BY <2>1, <2>2
<1>6. PICK e \in T : \A k \in T : e <= k
  <2> HIDE DEF T
  <2> QED BY <1>5, Least
<1>7. e \in a..(n - 2) /\ input[e] = "lf"
  BY <1>6
<1>8. NoLf(a, e - 1)
  <2> SUFFICES ASSUME NEW i \in a..(e - 1), input[i] = "lf" PROVE FALSE
    BY DEF NoLf
  <2>1. i \in T /\ ~ (e <= i)
    BY <1>7
  <2> QED BY <1>6, <2>1
<1> HIDE DEF T
<1>9. e \in 2..(n - 2) /\ a <= e /\ e \in a..n /\ e \in 1..Len(input) /\ a \in 1..e /\ e \in 1..n /\ e <= n - 2
  BY <1>1, <1>7
<1>10. LaterEnd(a, e)
  BY <1>1, <1>3, <1>7, <1>8, <1>9, GoodEnd
<1>11. LineOf(e) = Line(a, e)
  BY <1>8, <1>9, LineOfIs DEF Begins
<1>12. Line(a, e) \in Lines(n)
  BY <1>7, <1>9, <1>11 DEF Lines, Ends
<1> QED BY <1>7, <1>8, <1>9, <1>10, <1>11, <1>12

\* The first line of a request begins at 1 and the last one ends at n.
LEMMA Outer ==
  ASSUME input \in Seq(Char), NEW n \in 1..Len(input), IsRequest(n)
  PROVE  /\ \E f \in 1..n : NoLf(1, f - 1) /\ ReqEnd(f) /\ FirstLine(n) = Line(1, f)
         /\ LineOf(n) = Line(n - 1, n)
<1>1. n >= 4 /\ input[n - 1] = "cr" /\ input[n] = "lf" /\ Good(n - 2)
  BY RequestIsGood
<1>2. PICK f \in 1..(n - 2) : NoLf(1, f - 1) /\ ReqEnd(f)
  BY <1>1 DEF Good
<1>3. f \in 1..n /\ input[f] = "lf"
  BY <1>1, <1>2 DEF ReqEnd
<1>4. FirstLine(n) = Line(1, f)
  BY <1>2, <1>3, FirstLineIs
<1>5. Begins(n - 1) /\ NoLf(n - 1, n - 1) /\ n - 1 \in 1..n
  <2>1. input[n - 2] = "lf" /\ (n - 1) - 1 = n - 2
    BY <1>1 DEF Good
  <2> QED BY <1>1, <2>1 DEF Begins, NoLf
<1>6. LineOf(n) = Line(n - 1, n)
  BY <1>5, LineOfIs
<1> QED BY <1>2, <1>3, <1>4, <1>6

\* Where a header begins there is a header line of the reference.
LEMMA StartIsHead ==
  ASSUME input \in Seq(Char), NEW n \in 1..Len(input), IsRequest(n), NEW a \in Starts(n)
  PROVE  \E e \in a..n : /\ e <= n - 2 /\ input[e] = "lf" /\ input[e - 1] = "cr" /\ NoLf(a, e - 1)
                         /\ Line(a, e) \in Heads(n) /\ \E x \in a..(e - 1) : HeaderParts(a, e, x)
<1>1. a \in 2..n /\ input[a - 1] = "lf" /\ is_token(input[a])
  BY DEF Starts, Start
<1>2. input[a] # "cr" /\ ~ Blank(input[a])
  BY <1>1 DEF is_token, is_ctl, is_tspecial, Blank
<1>3. PICK e \in a..n : /\ e <= n - 2 /\ input[e] = "lf" /\ NoLf(a, e - 1) /\ LaterEnd(a, e)
                        /\ LineOf(e) = Line(a, e) /\ Line(a, e) \in Lines(n)
  BY <1>1, <1>2, LaterLine
<1>4. e \in 1..Len(input) /\ a \in 1..e
  BY <1>1, <1>3
<1>5. /\ input[e - 1] = "cr"
      /\ \/ \E x \in a..(e - 1) : HeaderParts(a, e, x)
         \/ \E x \in a..(e - 1) : FoldedParts(a, e, x)
  BY <1>3, <1>4, LaterEndParts
<1>6. ASSUME NEW x \in a..(e - 1), FoldedParts(a, e, x) PROVE FALSE
  <2>1. a \in a..(x - 1)
    BY <1>1, <1>4, <1>6 DEF FoldedParts
  <2> QED BY <1>2, <1>6, <2>1 DEF FoldedParts
<1>7. PICK x \in a..(e - 1) : HeaderParts(a, e, x)
  BY <1>5, <1>6
<1>8. Line(a, e) # FirstLine(n)
  <2>1. PICK f : FirstLine(n) = Line(1, f)
    BY Outer
  <2> QED BY <1>1, <2>1 DEF Line
<1>9. HeaderLine(Line(a, e), x) /\ x \in In(Line(a, e))
  <2>1. a \in Nat /\ e \in Nat /\ x \in Nat /\ (e - 2) + 1 = e - 1
    BY <1>1
  <2>2. HeaderLine(Line(a, e), x)
    BY <1>7, <2>1, LineParts
  <2> QED BY <2>1, <2>2 DEF In, Line
<1>10. Line(a, e) \in Heads(n)
  BY <1>3, <1>8, <1>9 DEF Heads
<1> QED BY <1>3, <1>5, <1>7, <1>10

\* A line of the reference is from a line's beginning to its end.
LEMMA LineFrom ==
  ASSUME input \in Seq(Char), NEW n \in 1..Len(input), NEW l \in Lines(n)
  PROVE  \E e \in 1..n : \E a \in 1..e :
           Begins(a) /\ NoLf(a, e - 1) /\ input[e] = "lf" /\ l = Line(a, e)
<1>1. PICK e \in 1..n : input[e] = "lf" /\ l = LineOf(e)
  BY DEF Lines, Ends
<1>2. e \in 1..Len(input)
  OBVIOUS
<1>3. PICK a \in 1..e : Begins(a) /\ NoLf(a, e - 1)
  BY <1>2, LineBegins
<1>4. LineOf(e) = Line(a, e)
  BY <1>2, <1>3, LineOfIs
<1> QED BY <1>1, <1>3, <1>4

\* The line that begins at 1 is the first one.
LEMMA FirstFromOne ==
  ASSUME input \in Seq(Char), NEW n \in 1..Len(input), NEW e \in 1..n,
         NoLf(1, e - 1), input[e] = "lf"
  PROVE  Line(1, e) = FirstLine(n)
BY FirstLineIs

\* And a header line of the reference begins where a header does.
LEMMA HeadIsStart ==
  ASSUME input \in Seq(Char), NEW n \in 1..Len(input), NEW l \in Heads(n)
  PROVE  \E a \in Starts(n) : \E e \in a..n : input[e] = "lf" /\ NoLf(a, e - 1) /\ l = Line(a, e)
<1>1. l \in Lines(n) /\ l # FirstLine(n) /\ \E x \in In(l) : HeaderLine(l, x)
  BY DEF Heads
<1>2. PICK e \in 1..n : \E a \in 1..e :
        Begins(a) /\ NoLf(a, e - 1) /\ input[e] = "lf" /\ l = Line(a, e)
  BY <1>1, LineFrom
<1>3. PICK a \in 1..e : Begins(a) /\ NoLf(a, e - 1) /\ input[e] = "lf" /\ l = Line(a, e)
  BY <1>2
<1>4. a # 1
  BY <1>1, <1>3, FirstFromOne
<1>5. a \in 2..n /\ input[a - 1] = "lf" /\ e \in a..n
  BY <1>3, <1>4 DEF Begins
<1>6. PICK x \in a..(e - 1) : HeaderLine(Line(a, e), x)
  <2>1. In(Line(a, e)) = a..(e - 1)
    <3>1. Line(a, e).from = a /\ Line(a, e).to = e - 2 /\ (e - 2) + 1 = e - 1
      BY DEF Line
    <3> QED BY <3>1 DEF In
  <2> QED BY <1>1, <1>3, <2>1
<1>7. a \in Nat /\ e \in Nat /\ x \in Nat
  BY <1>5
<1>8. HeaderParts(a, e, x)
  BY <1>6, <1>7, LineParts
<1>9. a \in a..(x - 1)
  BY <1>7, <1>8 DEF HeaderParts
<1>10. is_token(input[a])
  BY <1>8, <1>9 DEF HeaderParts
<1> QED BY <1>3, <1>5, <1>10 DEF Starts, Start

\* The list counts the header lines of the reference and numbers them.
LEMMA HeadsCounted ==
  ASSUME input \in Seq(Char), NEW n \in 1..Len(input), IsRequest(n),
         NEW w \in Seq(Nat), Listed(w, n)
  PROVE  /\ Cardinality(Heads(n)) = Len(w)
         /\ \A k \in 1..Len(w) : NthHead(n, k) \in Heads(n) /\ NthHead(n, k).from = w[k]
<1> DEFINE H(j) == {m \in Heads(n) : \E i \in 1..j : m.from = w[i]}
           hd(a) == CHOOSE m \in Heads(n) : m.from = a
<1>1. \A l \in Heads(n) : \E i \in 1..Len(w) : l.from = w[i]
  <2> SUFFICES ASSUME NEW l \in Heads(n) PROVE \E i \in 1..Len(w) : l.from = w[i]
    OBVIOUS
  <2>1. PICK a \in Starts(n) : \E e \in a..n : l = Line(a, e)
    BY HeadIsStart
  <2>2. l.from = a
    BY <2>1 DEF Line
  <2> QED BY <2>1, <2>2 DEF Listed
<1>2. ASSUME NEW l \in Heads(n), NEW m \in Heads(n), l.from = m.from PROVE l = m
  <2>1. PICK a \in Starts(n) : \E e \in a..n : input[e] = "lf" /\ NoLf(a, e - 1) /\ l = Line(a, e)
    BY HeadIsStart
  <2>2. PICK e \in a..n : input[e] = "lf" /\ NoLf(a, e - 1) /\ l = Line(a, e)
    BY <2>1
  <2>3. PICK b \in Starts(n) : \E d \in b..n : input[d] = "lf" /\ NoLf(b, d - 1) /\ m = Line(b, d)
    BY HeadIsStart
  <2>4. PICK d \in b..n : input[d] = "lf" /\ NoLf(b, d - 1) /\ m = Line(b, d)
    BY <2>3
  <2>5. a = b
    BY <1>2, <2>2, <2>4 DEF Line
  <2>6. a \in Nat /\ d \in Nat /\ e \in Nat /\ a <= d /\ a <= e
    BY <2>5 DEF Starts
  <2>7. d = e
    BY <2>2, <2>4, <2>5, <2>6, OneEnd
  <2> QED BY <2>2, <2>4, <2>5, <2>7
<1>3. ASSUME NEW i \in 1..Len(w) PROVE hd(w[i]) \in Heads(n) /\ hd(w[i]).from = w[i]
  <2>1. w[i] \in Starts(n)
    BY DEF Listed
  <2>2. PICK e : Line(w[i], e) \in Heads(n)
    BY <2>1, StartIsHead
  <2>3. Line(w[i], e).from = w[i]
    BY DEF Line
  <2> QED BY <2>2, <2>3
<1> HIDE DEF hd
<1>4. ASSUME NEW j \in 0..Len(w) PROVE Cardinality(H(j)) = j
  <2> DEFINE F == [i \in 1..j |-> hd(w[i])]
  <2>1. \A i \in 1..j : i \in 1..Len(w)
    OBVIOUS
  <2>2. \A i \in 1..j : hd(w[i]) \in H(j) /\ hd(w[i]).from = w[i]
    BY <1>3, <2>1
  <2>3. F \in [1..j -> H(j)]
    <3> HIDE DEF H
    <3> QED BY <2>2
  <2>4. ASSUME NEW i \in 1..j, NEW k \in 1..j, F[i] = F[k] PROVE i = k
    <3>1. w[i] = w[k]
      BY <2>2, <2>4
    <3>2. i \in 1..Len(w) /\ k \in 1..Len(w) /\ w[i] \in Nat /\ w[k] \in Nat
      <4>1. i \in 1..Len(w) /\ k \in 1..Len(w)
        BY <2>1
      <4> QED BY <4>1
    <3>3. ~ (i < k) /\ ~ (k < i)
      <4>1. CASE i < k
        BY <3>1, <3>2, <4>1, ListedUp
      <4>2. CASE k < i
        BY <3>1, <3>2, <4>2, ListedUp
      <4> QED BY <4>1, <4>2
    <3> QED BY <3>2, <3>3
  <2>5. ASSUME NEW m \in H(j) PROVE \E i \in 1..j : F[i] = m
    <3>1. PICK i \in 1..j : m.from = w[i]
      OBVIOUS
    <3>2. m \in Heads(n) /\ hd(w[i]) \in Heads(n) /\ hd(w[i]).from = w[i]
      BY <2>2
    <3>3. hd(w[i]) = m
      BY <1>2, <3>1, <3>2
    <3> QED BY <3>3
  <2> HIDE DEF F, H
  <2>6. F \in Bijection(1..j, H(j))
    BY <2>3, <2>4, <2>5, Zenon DEF Bijection, Injection, Surjection, IsInjective
  <2>7. ExistsBijection(1..j, H(j)) /\ j \in Nat
    BY <2>6 DEF ExistsBijection
  <2> QED BY <2>7, FS_CountingElements
<1>5. H(Len(w)) = Heads(n)
  BY <1>1
<1>6. Len(w) \in 0..Len(w)
  OBVIOUS
<1>7. Cardinality(Heads(n)) = Len(w)
  BY <1>4, <1>5, <1>6, Zenon
<1>8. ASSUME NEW l \in Heads(n), NEW k \in 1..Len(w), l.from = w[k]
      PROVE  Cardinality({m \in Heads(n) : m.from <= l.from}) = k
  <2>1. {m \in Heads(n) : m.from <= w[k]} = H(k)
    <3>1. ASSUME NEW m \in Heads(n), m.from <= w[k] PROVE \E i \in 1..k : m.from = w[i]
      <4>1. PICK i \in 1..Len(w) : m.from = w[i]
        BY <1>1
      <4>2. w[i] \in Nat /\ w[k] \in Nat /\ i \in Nat /\ k \in Nat /\ i >= 1
        OBVIOUS
      <4>3. ~ (k < i)
        BY <3>1, <4>1, <4>2 DEF Listed
      <4> QED BY <4>1, <4>2, <4>3
    <3>2. ASSUME NEW m \in Heads(n), NEW i \in 1..k, m.from = w[i] PROVE m.from <= w[k]
      <4>1. i \in 1..Len(w) /\ w[i] \in Nat /\ w[k] \in Nat /\ (i < k \/ i = k)
        OBVIOUS
      <4>2. w[i] < w[k] \/ w[i] = w[k]
        BY <4>1 DEF Listed
      <4> QED BY <3>2, <4>1, <4>2
    <3> QED BY <3>1, <3>2
  <2>2. k \in 0..Len(w)
    OBVIOUS
  <2> HIDE DEF H
  <2> QED BY <1>4, <1>8, <2>1, <2>2
<1>9. ASSUME NEW k \in 1..Len(w)
      PROVE  NthHead(n, k) \in Heads(n) /\ NthHead(n, k).from = w[k]
  <2> DEFINE P(l) == Cardinality({m \in Heads(n) : m.from <= l.from}) = k
  <2>1. \E l \in Heads(n) : P(l)
    <3>1. hd(w[k]) \in Heads(n) /\ hd(w[k]).from = w[k]
      BY <1>3
    <3> QED BY <1>8, <3>1
  <2>2. \A l \in Heads(n) : P(l) => l.from = w[k]
    <3> SUFFICES ASSUME NEW l \in Heads(n), P(l) PROVE l.from = w[k]
      OBVIOUS
    <3>1. PICK i \in 1..Len(w) : l.from = w[i]
      BY <1>1
    <3>2. i = k
      BY <1>8, <3>1
    <3> QED BY <3>1, <3>2
  <2>3. NthHead(n, k) = CHOOSE l \in Heads(n) : P(l)
    BY DEF NthHead
  <2> HIDE DEF P
  <2> QED BY <2>1, <2>2, <2>3
<1> QED BY <1>7, <1>9

\* The name of a header is what its line has before the colon.
LEMMA NameCounted ==
  ASSUME input \in Seq(Char), NEW n \in 1..Len(input), NEW a \in 2..n, NEW e \in a..n,
         NEW x \in a..(e - 1), HeaderParts(a, e, x)
  PROVE  Cardinality(Names(a, n)) = x - a
<1>1. /\ a < x /\ x + 2 < e /\ input[x] = ":"
      /\ \A i \in a..(x - 1) : is_token(input[i])
  BY DEF HeaderParts
<1>2. Names(a, n) = a..(x - 1)
  <2>1. ASSUME NEW i \in a..(x - 1) PROVE i \in 1..n /\ InName(a, i)
    <3>1. i \in 1..n /\ a <= i /\ \A k \in a..i : k \in a..(x - 1)
      BY <1>1
    <3> QED BY <1>1, <3>1 DEF InName
  <2>2. ASSUME NEW i \in 1..n, InName(a, i) PROVE i \in a..(x - 1)
    <3>1. a <= i /\ \A k \in a..i : is_token(input[k])
      BY <2>2 DEF InName
    <3>2. ~ is_token(input[x])
      BY <1>1 DEF is_token, is_tspecial
    <3>3. ~ (x \in a..i)
      BY <3>1, <3>2
    <3> QED BY <3>1, <3>3
  <2> QED BY <2>1, <2>2 DEF Names
<1>3. Cardinality(a..(x - 1)) = x - a
  <2>1. a \in Int /\ x - 1 \in Int /\ ~ (a > x - 1) /\ (x - 1) - a + 1 = x - a
    BY <1>1
  <2> QED BY <2>1, FS_Interval
<1> QED BY <1>2, <1>3

\* The value begins in the header's own line: that part of it.
LEMMA OwnValue ==
  ASSUME input \in Seq(Char), NEW n \in 1..Len(input), NEW a \in 2..n, NEW e \in a..n,
         input[e - 1] = "cr", NEW x \in a..(e - 1), HeaderParts(a, e, x), NEW i \in 1..n
  PROVE  (\E y \in 1..i : y + 2 <= i /\ InValue(a, y, i)) <=> i \in (x + 2)..(e - 2)
<1>1. /\ a < x /\ x + 2 < e /\ input[x] = ":" /\ input[x + 1] = "sp"
      /\ \A k \in a..(x - 1) : is_token(input[k])
      /\ \A k \in (x + 2)..(e - 2) : Text(input[k])
  BY DEF HeaderParts
<1>2. ~ is_token(":") /\ ~ Text("cr")
  BY DEF is_token, is_tspecial, Text, is_ctl
<1>3. ASSUME NEW y \in 1..i, y + 2 <= i, InValue(a, y, i) PROVE i \in (x + 2)..(e - 2)
  <2>1. /\ a < y /\ input[y] = ":" /\ \A k \in a..(y - 1) : is_token(input[k])
        /\ \A k \in (y + 2)..i : Text(input[k])
    BY <1>3 DEF InValue
  <2>2. ~ (x \in a..(y - 1)) /\ ~ (y \in a..(x - 1))
    BY <1>1, <1>2, <2>1
  <2>3. x = y
    BY <1>1, <2>1, <2>2
  <2>4. ~ (e - 1 \in (y + 2)..i)
    BY <1>2, <2>1
  <2> QED BY <1>1, <1>3, <2>3, <2>4
<1>4. ASSUME i \in (x + 2)..(e - 2) PROVE x \in 1..i /\ x + 2 <= i /\ InValue(a, x, i)
  <2>1. x \in 1..i /\ x + 2 <= i /\ x + 1 <= i /\ \A k \in (x + 2)..i : k \in (x + 2)..(e - 2)
    BY <1>4
  <2> QED BY <1>1, <2>1 DEF InValue
<1> QED BY <1>3, <1>4

\* It goes on in the folded lines that follow: every byte of it there is one
\* of the reference's.
LEMMA FoldedValue ==
  ASSUME input \in Seq(Char), NEW n \in 1..Len(input), IsRequest(n), NEW a \in Starts(n),
         NEW i \in 1..n, NEW b \in (a + 1)..i, input[b - 1] = "lf",
         \A s \in (a + 1)..b : ~ Start(s), NEW z \in 1..i, InFolded(b, z, i),
         NEW h, h.from = a
  PROVE  i \in FoldedText(n, h)
<1>1. a \in 2..n /\ b \in 2..n
  BY DEF Starts
<1>2. /\ b < z /\ z <= i /\ \A k \in b..(z - 1) : Blank(input[k])
      /\ ~ Blank(input[z]) /\ \A k \in z..i : Text(input[k])
  BY DEF InFolded
<1>3. Blank(input[b])
  <2>1. b \in b..(z - 1)
    BY <1>1, <1>2
  <2> QED BY <1>2, <2>1
<1>4. input[b] # "cr" /\ ~ is_token(input[b]) /\ ~ Blank("cr") /\ ~ Text("cr")
  BY <1>3 DEF is_token, is_ctl, is_tspecial, Blank, Text
<1>5. PICK d \in b..n : /\ d <= n - 2 /\ input[d] = "lf" /\ NoLf(b, d - 1) /\ LaterEnd(b, d)
                        /\ LineOf(d) = Line(b, d) /\ Line(b, d) \in Lines(n)
  BY <1>1, <1>4, LaterLine
<1>6. d \in 1..Len(input) /\ b \in 1..d
  BY <1>1, <1>5
<1>7. /\ input[d - 1] = "cr"
      /\ \/ \E x \in b..(d - 1) : HeaderParts(b, d, x)
         \/ \E x \in b..(d - 1) : FoldedParts(b, d, x)
  BY <1>5, <1>6, LaterEndParts
<1>8. ASSUME NEW x \in b..(d - 1), HeaderParts(b, d, x) PROVE FALSE
  <2>1. b \in b..(x - 1)
    BY <1>6, <1>8 DEF HeaderParts
  <2> QED BY <1>4, <1>8, <2>1 DEF HeaderParts
<1>9. PICK y \in b..(d - 1) : FoldedParts(b, d, y)
  BY <1>7, <1>8
<1>10. /\ b < y /\ y < d /\ \A k \in b..(y - 1) : Blank(input[k])
       /\ y <= d - 2 => ~ Blank(input[y])
  BY <1>9 DEF FoldedParts
<1>11. y = z
  <2>1. ~ (y \in b..(z - 1))
    <3>1. y <= d - 2 \/ y = d - 1
      BY <1>6, <1>10
    <3> QED BY <1>2, <1>4, <1>7, <1>10, <3>1
  <2>2. ~ (z \in b..(y - 1))
    BY <1>2, <1>10
  <2> QED BY <1>2, <1>10, <2>1, <2>2
<1>12. i \in z..(d - 2)
  <2>1. ~ (d - 1 \in z..i)
    BY <1>2, <1>4, <1>7
  <2> QED BY <1>2, <1>6, <1>10, <1>11, <2>1
<1> DEFINE l == Line(b, d)
<1>13. l.from = b /\ l.to = d - 2
  BY DEF Line
<1>14. l \notin Heads(n)
  <2> SUFFICES ASSUME l \in Heads(n) PROVE FALSE
    OBVIOUS
  <2>1. PICK s \in Starts(n) : \E t : l = Line(s, t)
    BY HeadIsStart
  <2>2. s = b /\ Start(s)
    BY <1>13, <2>1 DEF Line, Starts
  <2>3. b \in (a + 1)..b
    BY <1>1
  <2> QED BY <2>2, <2>3
<1>15. l # FirstLine(n) /\ l # LineOf(n)
  <2>1. PICK f : FirstLine(n) = Line(1, f)
    BY Outer
  <2>2. FirstLine(n).from = 1
    BY <2>1 DEF Line
  <2>3. LineOf(n).to = n - 2
    BY Outer DEF Line
  <2>4. b # 1 /\ d - 2 # n - 2
    BY <1>1, <1>5, <1>6
  <2> QED BY <1>13, <2>2, <2>3, <2>4
<1>16. l \in Folds(n)
  BY <1>5, <1>14, <1>15 DEF Folds
<1>17. ASSUME NEW m \in Heads(n), m.from > h.from PROVE m.from > l.from
  <2>1. PICK s \in Starts(n) : \E t : m = Line(s, t)
    BY HeadIsStart
  <2>2. m.from = s /\ Start(s) /\ s \in Nat /\ s > a
    BY <1>17, <2>1 DEF Line, Starts
  <2>3. ~ (s \in (a + 1)..b)
    BY <2>2
  <2> QED BY <1>1, <1>13, <2>2, <2>3
<1>18. FoldedLine(l, z)
  <2>1. b \in Nat /\ d \in Nat /\ z \in Nat
    BY <1>6
  <2> QED BY <1>9, <1>11, <2>1, LineParts
<1>19. l.from > h.from /\ z \in 1..n /\ i \in z..l.to
  BY <1>1, <1>12, <1>13
<1> HIDE DEF l
<1> QED BY <1>16, <1>17, <1>18, <1>19 DEF FoldedText

\* And the reference's bytes are of the value, in a later line than the header's.
LEMMA FoldedTextValue ==
  ASSUME input \in Seq(Char), NEW n \in 1..Len(input), IsRequest(n), NEW a \in Starts(n),
         NEW h, h.from = a, NEW i \in FoldedText(n, h)
  PROVE  \E b \in (a + 1)..i : /\ input[b - 1] = "lf" /\ \A s \in (a + 1)..b : ~ Start(s)
                               /\ \E z \in 1..i : InFolded(b, z, i)
<1>1. a \in 2..n /\ input[a - 1] = "lf"
  BY DEF Starts, Start
<1>2. i \in 1..n
  BY DEF FoldedText
<1>3. PICK l \in Folds(n), z \in 1..n :
        /\ l.from > h.from /\ \A m \in Heads(n) : m.from > h.from => m.from > l.from
        /\ FoldedLine(l, z) /\ i \in z..l.to
  BY DEF FoldedText
<1>4. l \in Lines(n)
  BY DEF Folds
<1>5. PICK d \in 1..n : \E b \in 1..d :
        Begins(b) /\ NoLf(b, d - 1) /\ input[d] = "lf" /\ l = Line(b, d)
  BY <1>4, LineFrom
<1>6. PICK b \in 1..d : Begins(b) /\ NoLf(b, d - 1) /\ input[d] = "lf" /\ l = Line(b, d)
  BY <1>5
<1>7. l.from = b /\ l.to = d - 2
  BY <1>6 DEF Line
<1>8. b \in Nat /\ b > a /\ i \in z..(d - 2)
  BY <1>3, <1>7
<1>9. input[b - 1] = "lf"
  BY <1>1, <1>6, <1>8 DEF Begins
<1>10. FoldedParts(b, d, z)
  <2>1. b \in Nat /\ d \in Nat /\ z \in Nat
    OBVIOUS
  <2> QED BY <1>3, <1>6, <2>1, LineParts
<1>11. b < z /\ z <= d - 2 /\ z <= i /\ \A k \in z..i : k \in z..(d - 2)
  BY <1>2, <1>8, <1>10 DEF FoldedParts
<1>12. ~ NoLf(1, b - 2)
  <2>1. a - 1 \in 1..(b - 2)
    BY <1>1, <1>8
  <2> QED BY <1>1, <2>1 DEF NoLf
<1>13. InFolded(b, z, i)
  BY <1>10, <1>11, <1>12 DEF InFolded, FoldedParts
<1>14. ASSUME NEW s \in (a + 1)..b, Start(s) PROVE FALSE
  <2>1. s \in Starts(n) /\ s > a /\ s <= b
    BY <1>1, <1>14 DEF Starts
  <2>2. PICK t : Line(s, t) \in Heads(n)
    BY <2>1, StartIsHead
  <2>3. Line(s, t).from = s
    BY DEF Line
  <2>4. s > b
    BY <1>3, <1>7, <2>1, <2>2, <2>3
  <2> QED BY <1>1, <1>8, <2>1, <2>4
<1>15. b \in (a + 1)..i /\ z \in 1..i
  BY <1>1, <1>2, <1>8, <1>11
<1> QED BY <1>9, <1>13, <1>14, <1>15

\* The value of a header is as long as the reference says.
LEMMA ValueCounted ==
  ASSUME input \in Seq(Char), NEW n \in 1..Len(input), IsRequest(n), NEW a \in Starts(n),
         NEW e \in a..n, input[e - 1] = "cr", NoLf(a, e - 1),
         NEW x \in a..(e - 1), HeaderParts(a, e, x)
  PROVE  Cardinality(Values(a, n)) = ((e - 2) - x - 1) + Cardinality(FoldedText(n, Line(a, e)))
<1> DEFINE own == (x + 2)..(e - 2)
           folded == FoldedText(n, Line(a, e))
<1>1. a \in 2..n /\ Line(a, e).from = a /\ x + 2 < e
  BY DEF Starts, Line, HeaderParts
<1>2. ASSUME NEW i \in 1..n PROVE i \in Values(a, n) <=> i \in own \/ i \in folded
  <2>1. (\E y \in 1..i : y + 2 <= i /\ InValue(a, y, i)) <=> i \in own
    BY <1>1, OwnValue
  <2>2. (\E b \in (a + 1)..i : /\ input[b - 1] = "lf" /\ \A s \in (a + 1)..b : ~ Start(s)
                               /\ \E z \in 1..i : InFolded(b, z, i)) <=> i \in folded
    BY <1>1, FoldedValue, FoldedTextValue, Zenon
  <2> HIDE DEF own, folded
  <2> QED BY <2>1, <2>2 DEF Values, ValueAt
<1>3. own \subseteq 1..n /\ folded \subseteq 1..n /\ Values(a, n) \subseteq 1..n
  BY <1>1 DEF FoldedText, Values
<1>4. Values(a, n) = own \cup folded
  <2> HIDE DEF own, folded
  <2> QED BY <1>2, <1>3
<1>5. own \cap folded = {}
  <2> SUFFICES ASSUME NEW i \in folded, i \in own PROVE FALSE
    OBVIOUS
  <2>1. PICK b \in (a + 1)..i : input[b - 1] = "lf"
    BY <1>1, FoldedTextValue
  <2>2. i \in Nat /\ i <= e - 2
    BY <1>1
  <2>3. b - 1 \in a..(e - 1)
    BY <1>1, <2>2
  <2> QED BY <2>1, <2>3 DEF NoLf
<1>6. IsFiniteSet(1..n)
  BY FS_Interval
<1>7. IsFiniteSet(own) /\ IsFiniteSet(folded)
  BY <1>3, <1>6, FS_Subset
<1>8. Cardinality(own) = (e - 2) - x - 1
  <2>1. x + 2 \in Int /\ e - 2 \in Int /\ (e - 2) - (x + 2) + 1 = (e - 2) - x - 1
    BY <1>1
  <2>2. Cardinality(own) = IF x + 2 > e - 2 THEN 0 ELSE (e - 2) - (x + 2) + 1
    BY <2>1, FS_Interval
  <2>3. x + 2 > e - 2 => (e - 2) - x - 1 = 0
    BY <1>1
  <2> QED BY <2>1, <2>2, <2>3
<1> HIDE DEF own, folded
<1>9. Cardinality(own \cup folded) = Cardinality(own) + Cardinality(folded) - Cardinality({})
  BY <1>5, <1>7, FS_Union
<1>10. Cardinality({}) = 0 /\ Cardinality(folded) \in Nat /\ Cardinality(own) \in Nat
  BY <1>7, FS_EmptySet, FS_CardinalityType
<1> QED BY <1>4, <1>8, <1>9, <1>10 DEF folded

\* The headers that the parser counted are those of the reference.
LEMMA HeadersAreText ==
  ASSUME input \in Seq(Char), NEW n \in 1..Len(input), IsRequest(n),
         NEW hs \in Seq(Header), HeadersOf(hs, n)
  PROVE  /\ Len(hs) = Cardinality(Heads(n))
         /\ \A k \in 1..Len(hs) : \E x \in In(NthHead(n, k)) :
              /\ HeaderLine(NthHead(n, k), x)
              /\ hs[k].name = x - NthHead(n, k).from
              /\ hs[k].value = (NthHead(n, k).to - x - 1) + Cardinality(FoldedText(n, NthHead(n, k)))
<1>1. PICK w \in Seq(Nat) : /\ Len(w) = Len(hs) /\ Listed(w, n)
                            /\ \A j \in 1..Len(hs) : Counted(hs[j], w[j], n)
  BY DEF HeadersOf
<1>2. Cardinality(Heads(n)) = Len(hs)
  BY <1>1, HeadsCounted
<1>3. ASSUME NEW k \in 1..Len(hs)
      PROVE  \E x \in In(NthHead(n, k)) :
              /\ HeaderLine(NthHead(n, k), x)
              /\ hs[k].name = x - NthHead(n, k).from
              /\ hs[k].value = (NthHead(n, k).to - x - 1) + Cardinality(FoldedText(n, NthHead(n, k)))
  <2> DEFINE h == NthHead(n, k)
             a == w[k]
  <2>1. h \in Heads(n) /\ h.from = a
    BY <1>1, HeadsCounted
  <2>2. a \in Starts(n) /\ Counted(hs[k], a, n)
    BY <1>1 DEF Listed
  <2> HIDE DEF a, h
  <2>3. PICK e \in a..n : /\ e <= n - 2 /\ input[e] = "lf" /\ input[e - 1] = "cr" /\ NoLf(a, e - 1)
                          /\ Line(a, e) \in Heads(n) /\ \E x \in a..(e - 1) : HeaderParts(a, e, x)
    BY <2>2, StartIsHead
  <2>4. PICK x \in a..(e - 1) : HeaderParts(a, e, x)
    BY <2>3
  <2>5. h = Line(a, e)
    <3>1. PICK b \in Starts(n) : \E d \in b..n : input[d] = "lf" /\ NoLf(b, d - 1) /\ h = Line(b, d)
      BY <2>1, HeadIsStart
    <3>2. PICK d \in b..n : input[d] = "lf" /\ NoLf(b, d - 1) /\ h = Line(b, d)
      BY <3>1
    <3>3. b = a
      BY <2>1, <3>2 DEF Line
    <3>4. a \in Nat /\ d \in Nat /\ e \in Nat /\ a <= d /\ a <= e
      BY <2>2, <3>3 DEF Starts
    <3>5. d = e
      BY <2>3, <3>2, <3>3, <3>4, OneEnd
    <3> QED BY <3>2, <3>3, <3>5
  <2>6. a \in 2..n /\ a \in Nat /\ e \in Nat /\ x \in Nat /\ h.from = a /\ h.to = e - 2 /\ (e - 2) + 1 = e - 1
    BY <2>2, <2>5 DEF Starts, Line
  <2>7. HeaderLine(h, x) /\ x \in In(h)
    <3>1. HeaderLine(h, x)
      BY <2>4, <2>5, <2>6, LineParts
    <3> QED BY <2>6, <3>1 DEF In
  <2>8. hs[k].name = x - a
    BY <2>2, <2>4, <2>6, NameCounted DEF Counted
  <2>9. hs[k].value = ((e - 2) - x - 1) + Cardinality(FoldedText(n, h))
    BY <2>2, <2>3, <2>4, <2>5, ValueCounted DEF Counted
  <2> QED BY <2>6, <2>7, <2>8, <2>9 DEF h
<1> QED BY <1>2, <1>3

-----------------------------------------------------------------------------
(* The headers, character by character *)

\* What push_name and push_value do to the headers.
LEMMA PushHeaders ==
  ASSUME NEW p \in Parser
  PROVE  /\ push_name(p).headers = [p.headers EXCEPT ![Len(p.headers)].name = @ + 1]
         /\ push_value(p).headers = [p.headers EXCEPT ![Len(p.headers)].value = @ + 1]
         /\ \A s : goto(p, s).headers = p.headers
         /\ p.headers \in Seq(Header)
BY DEF push_name, push_value, goto, Parser

\* The request line leaves the headers alone.
LEMMA FirstStates ==
  ASSUME input \in Seq(Char), NEW n \in 0..Len(input), n + 1 <= Len(input),
         NEW q \in Parser, Shape(q, n),
         q.state \notin {"header_line_start", "header_lws", "header_name",
                         "space_before_header_value", "header_value", "expecting_newline_2",
                         "expecting_newline_3"}
  PROVE  NoLf(1, n) /\ \A c : consume(q, c).headers = q.headers
<1>1. NoLf(1, n)
  <2>1. CASE ShapeMethod(q, n)
    BY <2>1, FirstNoLf DEF ShapeMethod
  <2>2. CASE ShapeUri(q, n)
    BY <2>2, FirstNoLf DEF ShapeUri
  <2>3. CASE \E j \in 0..5 : ShapeHttp(q, n, j)
    BY <2>3, FirstNoLf DEF ShapeHttp
  <2>4. CASE ShapeMajor(q, n)
    BY <2>4, FirstNoLf DEF ShapeMajor
  <2>5. CASE ShapeDot(q, n)
    <3>1. PICK x, y \in 1..n : InMinor(x, y, n, n)
      BY <2>5 DEF ShapeDot
    <3>2. n \in 1..n
      BY <3>1
    <3> QED BY <3>1, <3>2, FirstNoLf
  <2>6. CASE ShapeMinor(q, n)
    BY <2>6, FirstNoLf DEF ShapeMinor
  <2>7. CASE ShapeReqCr(q, n)
    <3>1. n >= 1 /\ input[n] = "cr" /\ \E x, y, d \in 1..(n - 1) : InMinor(x, y, d, n - 1)
      BY <2>7 DEF ShapeReqCr
    <3>2. n - 1 \in 0..Len(input)
      BY <3>1
    <3>3. NoLf(1, n - 1)
      BY <3>1, <3>2, FirstNoLf
    <3> QED BY <3>1, <3>3 DEF NoLf
  <2>8. 0 \in 0..5 /\ 1 \in 0..5 /\ 2 \in 0..5 /\ 3 \in 0..5 /\ 4 \in 0..5 /\ 5 \in 0..5
    OBVIOUS
  <2> QED BY <2>1, <2>2, <2>3, <2>4, <2>5, <2>6, <2>7, <2>8, ZenonT(30) DEF Shape
<1>2. ASSUME NEW c PROVE consume(q, c).headers = q.headers
  <2>1. /\ bad(q).headers = q.headers /\ \A s : goto(q, s).headers = q.headers
        /\ [q EXCEPT !.uri = @ + 1].headers = q.headers
    BY DEF bad, goto, Parser
  <2>2. [goto(q, "method") EXCEPT !.method = @ + 1].headers = q.headers
    BY DEF goto, Parser
  <2>3. method(q, c).headers = q.headers /\ uri(q, c).headers = q.headers
    BY <2>1, <2>2, Zenon DEF method, uri
  <2>4. \A x, s : expect(q, c, x, s).headers = q.headers
    BY <2>1, Zenon DEF expect
  <2>5. \A here, x, s : version(q, c, here, x, s).headers = q.headers
    BY <2>1, Zenon DEF version
  <2>6. q.state \in {"method_start", "method", "uri", "http_version_h", "http_version_t_1",
          "http_version_t_2", "http_version_p", "http_version_slash",
          "http_version_major_start", "http_version_major",
          "http_version_minor_start", "http_version_minor", "expecting_newline_1"}
    BY DEF Parser, State
  <2>7. CASE q.state \in {"method_start", "method"}
    BY <2>3, <2>7 DEF consume
  <2>8. CASE q.state = "uri"
    BY <2>3, <2>8 DEF consume
  <2>9. CASE q.state = "http_version_h"
    BY <2>4, <2>9 DEF consume
  <2>10. CASE q.state = "http_version_t_1"
    BY <2>4, <2>10 DEF consume
  <2>11. CASE q.state = "http_version_t_2"
    BY <2>4, <2>11 DEF consume
  <2>12. CASE q.state = "http_version_p"
    BY <2>4, <2>12 DEF consume
  <2>13. CASE q.state = "http_version_slash"
    BY <2>4, <2>13 DEF consume
  <2>14. CASE q.state \in {"http_version_major_start", "http_version_major"}
    BY <2>5, <2>14 DEF consume
  <2>15. CASE q.state \in {"http_version_minor_start", "http_version_minor"}
    BY <2>5, <2>15 DEF consume
  <2>16. CASE q.state = "expecting_newline_1"
    BY <2>4, <2>16 DEF consume
  <2> QED BY <2>6, <2>7, <2>8, <2>9, <2>10, <2>11, <2>12, <2>13, <2>14, <2>15, <2>16
<1> QED BY <1>1, <1>2

\* The first byte of a line begins a header if it is a token's.
LEMMA StartHeaders ==
  ASSUME input \in Seq(Char), NEW n \in 1..Len(input), n + 1 <= Len(input),
         NEW q \in Parser, Good(n), q.state = "header_line_start", HeadersOf(q.headers, n),
         consume(q, input[n + 1]).result # "bad"
  PROVE  HeadersOf(consume(q, input[n + 1]).headers, n + 1)
<1> DEFINE c == input[n + 1]
           r == consume(q, c)
<1>1. r = header_line_start(q, c)
  BY DEF consume
<1>2. input[n] = "lf" /\ (n + 1) - 1 = n /\ n + 1 \in 2..(n + 1) /\ NoLf(n + 1, n)
  BY DEF Good, NoLf
<1>3. \A s \in Starts(n) : s \in 2..n /\ s # n + 1
  BY DEF Starts
<1>4. \A z \in 1..(n + 1) : ~ InFolded(n + 1, z, n + 1)
  BY DEF InFolded
<1>5. \A s \in Starts(n) : ~ InName(s, n + 1) /\ ~ ValueAt(s, n + 1)
  BY <1>2, <1>3, <1>4, InLineOnly
<1>6. q.headers \in Seq(Header) /\ \A s : goto(q, s).headers = q.headers
  BY PushHeaders
<1> HIDE DEF c, r
<1>7. CASE is_token(c)
  <2>1. c # "cr" /\ c \notin {"sp", "tab"}
    BY <1>7 DEF is_token, is_ctl, is_tspecial
  <2>2. r = [goto(q, "header_name") EXCEPT !.headers = Append(@, [name |-> 1, value |-> 0])]
    BY <1>1, <1>7, <2>1 DEF header_line_start
  <2>3. r.headers = Append(q.headers, [name |-> 1, value |-> 0])
    BY <2>2 DEF goto, Parser
  <2>4. Start(n + 1)
    BY <1>2, <1>7 DEF Start, c
  <2>5. HeadersOf(Append(q.headers, [name |-> 1, value |-> 0]), n + 1)
    BY <1>5, <1>6, <2>4, HeadersNew
  <2> QED BY <2>3, <2>5 DEF r, c
<1>8. CASE ~ is_token(c)
  <2>1. ~ Start(n + 1)
    BY <1>8 DEF Start, c
  <2>2. bad(q).result = "bad" /\ r.result # "bad"
    BY DEF bad, Parser, r, c
  <2>3. r.headers = q.headers
    BY <1>1, <1>6, <1>8, <2>2 DEF header_line_start
  <2>4. HeadersOf(q.headers, n + 1)
    BY <1>5, <2>1, HeadersKept
  <2> QED BY <2>3, <2>4 DEF r, c
<1> QED BY <1>7, <1>8

\* The name, the colon and the space after it
LEMMA NameHeaders ==
  ASSUME input \in Seq(Char), NEW n \in 1..Len(input), n + 1 <= Len(input),
         NEW q \in Parser, HeadersOf(q.headers, n), NEW a \in 2..n, input[a - 1] = "lf",
         \/ q.state = "header_name" /\ InName(a, n)
         \/ /\ q.state = "space_before_header_value"
            /\ a < n /\ InName(a, n - 1) /\ input[n] = ":",
         consume(q, input[n + 1]).result # "bad"
  PROVE  HeadersOf(consume(q, input[n + 1]).headers, n + 1)
<1> DEFINE c == input[n + 1]
           r == consume(q, c)
<1>1. n \in Nat
  OBVIOUS
<1>2. is_token(input[a])
  <2>1. a \in a..n /\ (a < n => a \in a..(n - 1))
    OBVIOUS
  <2> QED BY <2>1 DEF InName
<1>3. NoLf(a, n)
  <2>1. InName(a, n) => NoLf(a, n)
    BY LaterNoLf
  <2>2. ASSUME a < n, InName(a, n - 1), input[n] = ":" PROVE NoLf(a, n)
    <3>1. n - 1 \in 1..Len(input) /\ a \in 2..(n - 1)
      BY <2>2
    <3>2. NoLf(a, n - 1)
      BY <2>2, <3>1, LaterNoLf
    <3> QED BY <2>2, <3>2 DEF NoLf
  <2> QED BY <2>1, <2>2
<1>4. \A i \in a..(n - 1) : is_token(input[i])
  BY DEF InName
<1>5. ~ \E x \in 1..(n + 1) : x + 2 <= n + 1 /\ InValue(a, x, n + 1)
  <2> SUFFICES ASSUME NEW x \in 1..(n + 1), x + 2 <= n + 1, InValue(a, x, n + 1) PROVE FALSE
    OBVIOUS
  <2>1. a < x /\ input[x] = ":"
    BY DEF InValue
  <2>2. x \in a..(n - 1)
    BY <2>1
  <2> QED BY <1>4, <2>1, <2>2 DEF is_token, is_tspecial
<1>6. ~ \E z \in 1..(n + 1) : InFolded(a, z, n + 1)
  <2> SUFFICES ASSUME NEW z \in 1..(n + 1), InFolded(a, z, n + 1) PROVE FALSE
    OBVIOUS
  <2>1. a \in a..(z - 1)
    BY DEF InFolded
  <2>2. Blank(input[a])
    BY <2>1 DEF InFolded
  <2> QED BY <1>2, <2>2 DEF Blank, is_token, is_ctl, is_tspecial
<1>7. \A s \in Starts(n) : ~ ValueAt(s, n + 1) /\ (s # a => ~ InName(s, n + 1))
  <2>1. a \in 2..(n + 1)
    OBVIOUS
  <2> QED BY <1>3, <1>5, <1>6, <2>1, InLineOnly
<1>8. ~ Start(n + 1) /\ a \in Starts(n) /\ \A s \in Starts(n) : s <= a
  BY <1>2, <1>3, LastStart
<1>9. /\ q.headers \in Seq(Header) /\ \A s : goto(q, s).headers = q.headers
      /\ push_name(q).headers = [q.headers EXCEPT ![Len(q.headers)].name = @ + 1]
      /\ bad(q).result = "bad" /\ r.result # "bad"
  BY PushHeaders DEF bad, Parser
<1> HIDE DEF c, r
<1>10. CASE q.state = "header_name" /\ is_token(c)
  <2>1. r = push_name(q)
    <3>1. r = header_name(q, c)
      BY <1>10 DEF consume, r
    <3>2. c # ":"
      BY <1>10 DEF is_token, is_tspecial
    <3> QED BY <1>10, <3>1, <3>2 DEF header_name
  <2>2. InName(a, n) /\ InName(a, n + 1)
    <3>1. InName(a, n)
      BY <1>10
    <3>2. \A i \in a..(n + 1) : i \in a..n \/ i = n + 1
      OBVIOUS
    <3>3. a <= n + 1
      OBVIOUS
    <3> QED BY <1>10, <3>1, <3>2, <3>3 DEF InName, c
  <2>3. PICK hs \in Seq(Header) : hs = q.headers
    BY <1>9
  <2>4. HeadersOf(hs, n)
    BY <2>3
  <2>5. HeadersOf([hs EXCEPT ![Len(hs)].name = @ + 1], n + 1)
    BY <1>1, <1>7, <1>8, <2>2, <2>4, HeadersMore
  <2> QED BY <1>9, <2>1, <2>3, <2>5 DEF r, c
<1>11. CASE ~ (q.state = "header_name" /\ is_token(c))
  <2>1. ~ InName(a, n + 1)
    <3>1. n \in a..(n + 1) /\ n + 1 \in a..(n + 1)
      OBVIOUS
    <3>2. ~ is_token(":")
      BY DEF is_token, is_tspecial
    <3> QED BY <1>11, <3>1, <3>2 DEF InName, c
  <2>2. r.headers = q.headers
    <3>1. CASE q.state = "header_name"
      <4>1. r = header_name(q, c)
        BY <3>1 DEF consume, r
      <4> QED BY <1>9, <1>11, <3>1, <4>1 DEF header_name
    <3>2. CASE q.state = "space_before_header_value"
      <4>1. r = expect(q, c, "sp", "header_value")
        BY <3>2 DEF consume, r
      <4> QED BY <1>9, <4>1 DEF expect
    <3> QED BY <3>1, <3>2
  <2>3. HeadersOf(q.headers, n + 1)
    <3>1. \A s \in Starts(n) : ~ InName(s, n + 1) /\ ~ ValueAt(s, n + 1)
      BY <1>7, <2>1
    <3> QED BY <1>8, <3>1, HeadersKept
  <2> QED BY <2>2, <2>3 DEF r, c
<1> QED BY <1>10, <1>11

\* A byte of the value, in the header's own line or in a folded one
LEMMA ValueHeaders ==
  ASSUME input \in Seq(Char), NEW n \in 1..Len(input), n + 1 <= Len(input),
         NEW q \in Parser, q.headers # <<>>, HeadersOf(q.headers, n),
         NEW a \in 2..n, input[a - 1] = "lf", NoLf(a, n),
         \/ \E x \in 1..(n + 1) : x + 2 <= n + 1 /\ InValue(a, x, n + 1)
         \/ \E z \in 1..(n + 1) : InFolded(a, z, n + 1)
  PROVE  HeadersOf(push_value(q).headers, n + 1)
<1>1. PICK hs \in Seq(Header) : hs = q.headers
  BY PushHeaders
<1>2. HeadersOf(hs, n) /\ hs # <<>>
  BY <1>1
<1>a. n \in Nat /\ a \in 2..(n + 1)
  OBVIOUS
<1>3. ~ Start(n + 1) /\ \A s \in Starts(n) : s <= a
  BY <1>a, LastStart
<1>4. Starts(n) # {}
  <2>1. PICK w \in Seq(Nat) : Len(w) = Len(hs) /\ Listed(w, n)
    BY <1>2 DEF HeadersOf
  <2>2. 1 \in 1..Len(w)
    BY <1>2, <2>1
  <2>3. w[1] \in Starts(n)
    BY <2>1, <2>2, ListedAt
  <2> QED BY <2>3
<1>5. PICK t \in Starts(n) : \A s \in Starts(n) : s <= t
  BY <1>4, GreatestStart
<1>6. \A s \in Starts(n) : s \in Nat /\ Start(s)
  BY DEF Starts
<1>7. ASSUME NEW x \in 1..(n + 1), x + 2 <= n + 1, InValue(a, x, n + 1)
      PROVE  /\ t = a /\ ValueAt(t, n + 1) /\ ~ InName(a, n + 1)
             /\ \A z \in 1..(n + 1) : ~ InFolded(a, z, n + 1)
  <2>1. a < x /\ input[x] = ":" /\ \A i \in a..(x - 1) : is_token(input[i])
    BY <1>7 DEF InValue
  <2>2. a \in a..(x - 1) /\ x \in a..(n + 1)
    BY <2>1
  <2>3. is_token(input[a])
    BY <2>1, <2>2
  <2>4. a \in Starts(n)
    BY <2>3, LastStart
  <2>5. t = a
    BY <1>3, <1>5, <1>6, <2>4
  <2>6. ~ InName(a, n + 1)
    BY <2>1, <2>2 DEF InName, is_token, is_tspecial
  <2>7. \A z \in 1..(n + 1) : ~ InFolded(a, z, n + 1)
    <3> SUFFICES ASSUME NEW z \in 1..(n + 1), InFolded(a, z, n + 1) PROVE FALSE
      OBVIOUS
    <3>1. a \in a..(z - 1)
      BY DEF InFolded
    <3>2. Blank(input[a])
      BY <3>1 DEF InFolded
    <3> QED BY <2>3, <3>2 DEF Blank, is_token, is_ctl, is_tspecial
  <2> QED BY <1>7, <2>5, <2>6, <2>7 DEF ValueAt
<1>8. ASSUME NEW z \in 1..(n + 1), InFolded(a, z, n + 1)
      PROVE  t < a /\ ValueAt(t, n + 1) /\ ~ InName(a, n + 1)
  <2>1. a \in a..(z - 1) /\ a \in a..(n + 1)
    BY <1>8 DEF InFolded
  <2>2. Blank(input[a])
    BY <1>8, <2>1 DEF InFolded
  <2>3. ~ is_token(input[a])
    BY <2>2 DEF Blank, is_token, is_ctl, is_tspecial
  <2>4. t < a
    <3>1. \A s \in Starts(n) : s < a
      BY <1>a, <2>3, LastStart
    <3> QED BY <3>1
  <2>5. \A s \in (t + 1)..a : ~ Start(s)
    <3> SUFFICES ASSUME NEW s \in (t + 1)..a, Start(s) PROVE FALSE
      OBVIOUS
    <3>1. s \in 2..n /\ ~ (s <= t)
      BY <1>6 DEF Start
    <3>2. s \in Starts(n)
      BY <3>1 DEF Starts
    <3> QED BY <1>5, <3>1, <3>2
  <2>6. a \in (t + 1)..(n + 1)
    BY <1>6, <2>4
  <2> QED BY <1>8, <2>1, <2>3, <2>4, <2>5, <2>6 DEF ValueAt, InName
<1>9. ValueAt(t, n + 1)
  BY <1>7, <1>8
<1>10. \A s \in Starts(n) : ~ InName(s, n + 1)
  BY <1>7, <1>8, <1>a, InLineOnly
<1>11. ASSUME NEW s \in Starts(n), s # t, ValueAt(s, n + 1) PROVE FALSE
  <2>1. CASE s = a
    BY <1>7, <1>8, <1>11, <2>1, <1>3, <1>5, <1>6
  <2>2. CASE s < a /\ \A u \in (s + 1)..a : ~ Start(u)
    <3>1. s < t /\ t <= a
      BY <1>3, <1>5, <1>6, <1>11
    <3>2. t \in (s + 1)..a
      BY <1>6, <3>1
    <3> QED BY <1>6, <2>2, <3>2
  <2>3. s = a \/ (s < a /\ \A u \in (s + 1)..a : ~ Start(u))
    BY <1>a, <1>11, InLineOnly
  <2> QED BY <2>1, <2>2, <2>3
<1>12. HeadersOf([hs EXCEPT ![Len(hs)].value = @ + 1], n + 1)
  BY <1>2, <1>3, <1>5, <1>9, <1>10, <1>11, <1>a, HeadersMore
<1> QED BY <1>1, <1>12, PushHeaders

\* One character keeps the headers those of the text.
LEMMA HeadersStep ==
  ASSUME input \in Seq(Char), NEW n \in 0..Len(input), n + 1 <= Len(input),
         NEW q \in Parser, q.result = "indeterminate", Shape(q, n), HeadersOf(q.headers, n),
         consume(q, input[n + 1]).result # "bad"
  PROVE  HeadersOf(consume(q, input[n + 1]).headers, n + 1)
<1> DEFINE c == input[n + 1]
           r == consume(q, c)
<1>a. n \in Nat
  OBVIOUS
<1>b. /\ bad(q).result = "bad" /\ \A s : goto(q, s).headers = q.headers
      /\ q.headers \in Seq(Header)
  BY PushHeaders DEF bad, Parser
<1>c. ASSUME is_ctl(c), r.headers = q.headers PROVE HeadersOf(r.headers, n + 1)
  BY <1>a, <1>c, ControlKept, HeadersKept
<1> HIDE DEF c, r
<1>d. r.result # "bad"
  BY DEF r, c
<1>1. CASE q.state \notin {"header_line_start", "header_lws", "header_name",
                           "space_before_header_value", "header_value", "expecting_newline_2",
                           "expecting_newline_3"}
  <2>1. NoLf(1, n) /\ r.headers = q.headers
    BY <1>1, FirstStates DEF r
  <2> QED BY <1>a, <2>1, FirstHeaders DEF r, c
<1>2. CASE q.state = "header_line_start"
  <2>1. Good(n)
    BY <1>2 DEF Shape, ShapeStart
  <2>2. n \in 1..Len(input)
    BY <2>1 DEF Good
  <2> QED BY <1>2, <2>1, <2>2, StartHeaders, SMTT(20)
<1>3. CASE q.state \in {"header_name", "space_before_header_value"}
  <2>1. PICK a \in 2..n : /\ Good(a - 1)
                          /\ \/ q.state = "header_name" /\ InName(a, n)
                             \/ /\ q.state = "space_before_header_value"
                                /\ a < n /\ InName(a, n - 1) /\ input[n] = ":"
    BY <1>3 DEF Shape, ShapeName, ShapeColon, InLine
  <2>2. input[a - 1] = "lf" /\ n \in 1..Len(input)
    BY <2>1 DEF Good
  <2> QED BY <2>1, <2>2, NameHeaders, SMTT(20)
<1>4. CASE q.state = "header_value"
  <2>1. PICK a \in 2..n : /\ Good(a - 1) /\ q.headers # <<>>
                          /\ \E x \in 1..n : InValue(a, x, n) \/ InFolded(a, x, n)
    <3>1. ShapeValue(q, n)
      BY <1>4, Zenon DEF Shape
    <3> QED BY <3>1 DEF ShapeValue, InLine
  <2>2. PICK x \in 1..n : InValue(a, x, n) \/ InFolded(a, x, n)
    BY <2>1
  <2>3. input[a - 1] = "lf" /\ n \in 1..Len(input)
    BY <2>1 DEF Good
  <2>4. NoLf(a, n)
    BY <2>2, <2>3, LaterNoLf
  <2>5. r = header_value(q, c)
    BY <1>4 DEF consume, r
  <2>6. CASE is_ctl(c)
    <3>1. r.headers = q.headers
      BY <1>b, <1>d, <2>5, <2>6 DEF header_value
    <3> QED BY <1>c, <2>6, <3>1 DEF r, c
  <2>7. CASE ~ is_ctl(c)
    <3>1. r = push_value(q)
      BY <2>5, <2>7 DEF header_value, is_ctl
    <3>2. x \in 1..(n + 1) /\ (InValue(a, x, n) => x + 2 <= n + 1 /\ InValue(a, x, n + 1))
      <4>1. x \in 1..(n + 1) /\ (x + 1 <= n => x + 2 <= n + 1)
        OBVIOUS
      <4>2. \A i \in (x + 2)..(n + 1) : i \in (x + 2)..n \/ i = n + 1
        BY SMTT(20)
      <4> QED BY <2>7, <4>1, <4>2 DEF InValue, Text, c
    <3>3. InFolded(a, x, n) => InFolded(a, x, n + 1)
      <4>1. \A i \in x..(n + 1) : i \in x..n \/ i = n + 1
        OBVIOUS
      <4> QED BY <2>7, <4>1 DEF InFolded, Text, c
    <3>4. HeadersOf(push_value(q).headers, n + 1)
      BY <2>1, <2>2, <2>3, <2>4, <3>2, <3>3, ValueHeaders
    <3> QED BY <3>1, <3>4 DEF r, c
  <2> QED BY <2>6, <2>7
<1>5. CASE q.state = "header_lws"
  <2>1. PICK a \in 2..n : Good(a - 1) /\ q.headers # <<>> /\ InBlanks(a, n)
    BY <1>5 DEF Shape, ShapeBlanks, InLine
  <2>2. input[a - 1] = "lf" /\ n \in 1..Len(input)
    BY <2>1 DEF Good
  <2>3. NoLf(a, n)
    BY <2>1, <2>2, LaterNoLf
  <2>4. r = header_lws(q, c)
    BY <1>5 DEF consume, r
  <2>5. CASE is_ctl(c)
    <3>1. r.headers = q.headers
      BY <1>b, <1>d, <2>4, <2>5 DEF header_lws
    <3> QED BY <1>c, <2>5, <3>1 DEF r, c
  <2>6. CASE c = "sp"
    <3>1. r = q
      BY <2>4, <2>6 DEF header_lws
    <3>2. is_token(input[a]) = FALSE
      <4>1. Blank(input[a])
        BY <2>1 DEF InBlanks
      <4> QED BY <4>1 DEF Blank, is_token, is_ctl, is_tspecial
    <3>3. ~ \E x \in 1..(n + 1) : x + 2 <= n + 1 /\ InValue(a, x, n + 1)
      <4> SUFFICES ASSUME NEW x \in 1..(n + 1), InValue(a, x, n + 1) PROVE FALSE
        OBVIOUS
      <4>1. a \in a..(x - 1)
        BY DEF InValue
      <4> QED BY <3>2, <4>1 DEF InValue
    <3>4. ~ \E z \in 1..(n + 1) : InFolded(a, z, n + 1)
      <4> SUFFICES ASSUME NEW z \in 1..(n + 1), InFolded(a, z, n + 1) PROVE FALSE
        OBVIOUS
      <4>1. a < z /\ ~ Blank(input[z])
        BY DEF InFolded
      <4>2. z \in a..n \/ z = n + 1
        BY <4>1
      <4> QED BY <2>1, <2>6, <4>1, <4>2 DEF InBlanks, Blank, c
    <3>5. a \in 2..(n + 1)
      OBVIOUS
    <3>6. \A s \in Starts(n) : ~ ValueAt(s, n + 1)
      BY <1>a, <2>2, <2>3, <3>3, <3>4, <3>5, InLineOnly
    <3>7. ASSUME NEW s \in Starts(n), InName(s, n + 1) PROVE FALSE
      <4>1. n + 1 \in s..(n + 1)
        BY DEF Starts
      <4>2. is_token(c)
        BY <3>7, <4>1 DEF InName, c
      <4> QED BY <2>6, <4>2 DEF is_token, is_tspecial
    <3>8. ~ Start(n + 1)
      BY <1>a, <2>2, <2>3, LastStart
    <3>9. HeadersOf(q.headers, n + 1)
      BY <1>a, <3>6, <3>7, <3>8, HeadersKept
    <3> QED BY <3>1, <3>9 DEF r, c
  <2>7. CASE ~ is_ctl(c) /\ c # "sp"
    <3>1. r = push_value(goto(q, "header_value"))
      BY <2>4, <2>7 DEF header_lws, is_ctl
    <3>2. PICK g \in Parser : g = goto(q, "header_value") /\ g.headers = q.headers
      BY GotoIs DEF State
    <3>3. InFolded(a, n + 1, n + 1)
      <4>1. a < n + 1 /\ n + 1 <= n + 1 /\ (n + 1) - 1 = n
        OBVIOUS
      <4>2. \A i \in (n + 1)..(n + 1) : i = n + 1
        OBVIOUS
      <4>3. ~ Blank(input[n + 1]) /\ Text(input[n + 1])
        BY <2>7 DEF Blank, Text, is_ctl, c
      <4> QED BY <2>1, <4>1, <4>2, <4>3 DEF InBlanks, InFolded
    <3>4. n + 1 \in 1..(n + 1)
      OBVIOUS
    <3>5. HeadersOf(g.headers, n) /\ g.headers # <<>>
      BY <2>1, <3>2
    <3>6. HeadersOf(push_value(g).headers, n + 1)
      BY <2>2, <2>3, <3>3, <3>4, <3>5, ValueHeaders
    <3> QED BY <3>1, <3>2, <3>6 DEF r, c
  <2> QED BY <2>5, <2>6, <2>7
<1>6. CASE q.state = "expecting_newline_2"
  <2>1. r = expect(q, c, "lf", "header_line_start")
    BY <1>6 DEF consume, r
  <2>2. c = "lf" /\ r.headers = q.headers
    BY <1>b, <1>d, <2>1 DEF expect
  <2> QED BY <1>c, <2>2 DEF is_ctl, r, c
<1>7. CASE q.state = "expecting_newline_3"
  <2>1. r = [q EXCEPT !.result = IF c = "lf" THEN "good" ELSE "bad"]
    BY <1>7 DEF consume, r
  <2>2. r.headers = q.headers /\ r.result = IF c = "lf" THEN "good" ELSE "bad"
    BY <2>1 DEF Parser
  <2>3. c = "lf"
    BY <1>d, <2>2
  <2> QED BY <1>c, <2>2, <2>3 DEF is_ctl, r, c
<1> QED BY <1>1, <1>2, <1>3, <1>4, <1>5, <1>6, <1>7

-----------------------------------------------------------------------------
(* The headers of all the pieces *)

\* What n bytes have led to: the headers so far, or those of the request.
HeadersKnown(q, n) ==
  \/ q.result = "indeterminate" /\ HeadersOf(q.headers, n)
  \/ q.result = "good" /\ \E k \in 1..n : IsRequest(k) /\ HeadersOf(q.headers, k)
  \/ q.result = "bad"

\* One turn of the loop of parse keeps the headers those of the text.
LEMMA StepHeaders ==
  ASSUME input \in Seq(Char), NEW n \in 0..Len(input), n + 1 <= Len(input),
         NEW q \in Parser, Known(q, n), HeadersKnown(q, n)
  PROVE  HeadersKnown(Step(q, input[n + 1]), n + 1)
<1> DEFINE r == Step(q, input[n + 1])
<1>1. CASE q.result = "indeterminate"
  <2>1. r = consume(q, input[n + 1])
    BY <1>1 DEF Step
  <2>2. Shape(q, n) /\ HeadersOf(q.headers, n)
    BY <1>1 DEF Known, HeadersKnown
  <2>3. Outcome(r, n + 1)
    BY <1>1, <2>1, <2>2, ConsumeOutcome
  <2>4. r.result # "bad" => HeadersOf(r.headers, n + 1)
    BY <1>1, <2>1, <2>2, HeadersStep
  <2>5. n + 1 \in 1..(n + 1)
    OBVIOUS
  <2> HIDE DEF r
  <2> QED BY <2>3, <2>4, <2>5 DEF HeadersKnown, Outcome, r
<1>2. CASE q.result # "indeterminate"
  <2>1. r = q
    BY <1>2 DEF Step
  <2>2. \A k \in 1..n : k \in 1..(n + 1)
    OBVIOUS
  <2> HIDE DEF r
  <2> QED BY <1>2, <2>1, <2>2 DEF HeadersKnown, r
<1> QED BY <1>1, <1>2

\* A piece of n bytes after the first m
LEMMA ParseHeaders ==
  ASSUME input \in Seq(Char), NEW m \in Nat, NEW n \in Nat, m + n <= Len(input),
         NEW p, Safe(p), Known(p, m), HeadersKnown(p, m)
  PROVE  HeadersKnown(parse(p, SubSeq(input, m + 1, m + n)), m + n)
<1> DEFINE s == SubSeq(input, m + 1, m + n)
<1>1. s \in Seq(Char) /\ Len(s) = n /\ \A i \in 1..n : s[i] = input[m + i]
  BY Piece
<1> HIDE DEF s
<1>2. PICK g : Steps(g, p, s, Len(s)) /\ parse(p, s) = g[Len(s)]
  <2>1. s \in Seq(Char)
    BY <1>1
  <2> QED BY <2>1, ParseSteps
<1> DEFINE T == {k \in 0..n : ~ (Safe(g[k]) /\ Known(g[k], m + k) /\ HeadersKnown(g[k], m + k))}
<1>3. SUFFICES ASSUME T # {} PROVE FALSE
  <2>1. ASSUME T = {} PROVE HeadersKnown(parse(p, s), m + n)
    <3>1. n \in 0..n
      OBVIOUS
    <3>2. HeadersKnown(g[n], m + n)
      BY <2>1, <3>1
    <3> QED BY <1>1, <1>2, <3>2
  <2> HIDE DEF T
  <2> QED BY <2>1 DEF s
<1>4. PICK k \in T : \A j \in T : k <= j
  <2>1. T \subseteq Nat
    OBVIOUS
  <2> HIDE DEF T
  <2> QED BY <1>3, <2>1, Least
<1>5. k # 0
  BY <1>1, <1>2 DEF Steps
<1>6. k - 1 \in 0..n /\ k \in 1..n /\ ~ (k <= k - 1)
  BY <1>5
<1>7. Safe(g[k - 1]) /\ Known(g[k - 1], m + (k - 1)) /\ HeadersKnown(g[k - 1], m + (k - 1))
  BY <1>4, <1>6
<1>8. g[k] = Step(g[k - 1], s[k]) /\ s[k] \in Char /\ s[k] = input[m + k]
  BY <1>1, <1>2, <1>6 DEF Steps
<1>9. Safe(g[k])
  BY <1>7, <1>8, StepSafe
<1>10. /\ m + (k - 1) \in 0..Len(input) /\ (m + (k - 1)) + 1 <= Len(input)
       /\ (m + (k - 1)) + 1 = m + k
  BY <1>6
<1>11. g[k - 1] \in Parser
  BY <1>7 DEF Safe
<1>12. Known(g[k], m + k)
  BY <1>7, <1>8, <1>10, <1>11, StepKnown
<1>13. HeadersKnown(g[k], m + k)
  BY <1>7, <1>8, <1>10, <1>11, StepHeaders
<1> QED BY <1>4, <1>9, <1>12, <1>13

\* The text does not change, and neither does what is said about its headers.
LEMMA HeadersFixed ==
  ASSUME UNCHANGED input
  PROVE  \A q, n : HeadersKnown(q, n)' <=> HeadersKnown(q, n)
<1>1. \A a : Start(a)' <=> Start(a)
  BY DEF Start
<1>2. \A n : Starts(n)' = Starts(n)
  BY <1>1 DEF Starts
<1>3. \A a, b : NoLf(a, b)' <=> NoLf(a, b)
  BY DEF NoLf
<1>4. /\ \A a, n : InName(a, n)' <=> InName(a, n)
      /\ \A a, x, n : InValue(a, x, n)' <=> InValue(a, x, n)
      /\ \A a, z, n : InFolded(a, z, n)' <=> InFolded(a, z, n)
  BY <1>3 DEF InName, InValue, InFolded
<1>5. \A a, i : ValueAt(a, i)' <=> ValueAt(a, i)
  BY <1>1, <1>4 DEF ValueAt
<1>6. \A a, n : Names(a, n)' = Names(a, n) /\ Values(a, n)' = Values(a, n)
  BY <1>4, <1>5 DEF Names, Values
<1>7. \A h, a, n : Counted(h, a, n)' <=> Counted(h, a, n)
  BY <1>6 DEF Counted
<1>8. \A w, n : Listed(w, n)' <=> Listed(w, n)
  BY <1>2 DEF Listed
<1>9. \A hs, n : HeadersOf(hs, n)' <=> HeadersOf(hs, n)
  BY <1>7, <1>8 DEF HeadersOf
<1>10. \A n : IsRequest(n)' <=> IsRequest(n)
  BY TextFixed
<1> QED BY <1>9, <1>10 DEF HeadersKnown

\* The headers kept are those of the bytes read so far, or of the request.
ReadHeaders == \E q, n : q = parser /\ n = read /\ HeadersKnown(q, n)

\* For every text and every way to cut it into reads: the request that do_read
\* hands to handle_request has the method, the uri and the headers of the text.
THEOREM ParserFields == ParserSpec => []FieldsOfText
<1>1. ParserInit => ReadHeaders
  <2> SUFFICES ASSUME ParserInit PROVE ReadHeaders
    OBVIOUS
  <2>1. HeadersOf(<<>>, 0)
    <3>1. <<>> \in Seq(Nat) /\ Len(<<>>) = 0 /\ 1..0 = {} /\ Starts(0) = {}
      BY DEF Starts
    <3>2. Listed(<<>>, 0)
      BY <3>1 DEF Listed
    <3> QED BY <3>1, <3>2 DEF HeadersOf
  <2>2. request_parser.result = "indeterminate" /\ request_parser.headers = <<>>
    BY DEF request_parser
  <2>3. HeadersKnown(request_parser, 0)
    BY <2>1, <2>2 DEF HeadersKnown
  <2> QED BY <2>3 DEF ParserInit, ReadHeaders
<1>2. ParserTypeOK /\ BackDefined /\ ReadKnown /\ ReadHeaders /\ [ParserNext]_parserVars => ReadHeaders'
  <2> SUFFICES ASSUME ParserTypeOK, BackDefined, ReadKnown, ReadHeaders, [ParserNext]_parserVars
               PROVE  ReadHeaders'
    OBVIOUS
  <2>1. CASE UNCHANGED parserVars
    BY <2>1, HeadersFixed DEF parserVars, ReadHeaders
  <2>2. ASSUME NEW n \in 1..(Len(input) - read), do_read(n)
        PROVE  ReadHeaders'
    <3>1. /\ input \in Seq(Char) /\ read \in Nat /\ n \in Nat /\ read + n <= Len(input)
          /\ Safe(parser) /\ Known(parser, read) /\ HeadersKnown(parser, read)
      BY DEF ParserTypeOK, BackDefined, Safe, ReadKnown, ReadHeaders
    <3>2. /\ UNCHANGED input /\ read' = read + n
          /\ parser' = parse(parser, SubSeq(input, read + 1, read + n))
      BY <2>2 DEF do_read
    <3>3. HeadersKnown(parse(parser, SubSeq(input, read + 1, read + n)), read + n)
      BY <3>1, ParseHeaders, Zenon
    <3>4. \E q, k : q = parser' /\ k = read' /\ HeadersKnown(q, k)
      BY <3>2, <3>3
    <3>5. \E q, k : q = parser' /\ k = read' /\ HeadersKnown(q, k)'
      BY <3>2, <3>4, HeadersFixed
    <3> QED BY <3>5 DEF ReadHeaders
  <2> QED BY <2>1, <2>2 DEF ParserNext
<1>3. ParserTypeOK /\ ReadKnown /\ ReadHeaders => FieldsOfText
  <2> SUFFICES ASSUME ParserTypeOK, ReadKnown, ReadHeaders, reply = "handle_request"
               PROVE  FieldsOfText
    BY DEF FieldsOfText
  <2>1. /\ Known(parser, read) /\ HeadersKnown(parser, read) /\ parser.result = "good"
        /\ input \in Seq(Char) /\ read \in 0..Len(input) /\ parser.headers \in Seq(Header)
    BY DEF ReadKnown, ReadHeaders, ParserTypeOK, Parser
  <2>2. FirstDone(parser)
    BY <2>1 DEF Known
  <2>3. PICK k \in 1..read : IsRequest(k) /\ HeadersOf(parser.headers, k)
    BY <2>1 DEF HeadersKnown
  <2> DEFINE n == CHOOSE j \in 1..read : IsRequest(j)
  <2>4. n \in 1..read /\ IsRequest(n)
    BY <2>3
  <2> HIDE DEF n
  <2>5. n \in 1..Len(input) /\ k \in 1..Len(input)
    BY <2>1, <2>4
  <2>6. n = k
    BY <2>1, <2>3, <2>4, <2>5, RequestOnce
  <2>7. \E x, y \in In(FirstLine(n)) :
          /\ RequestLine(FirstLine(n), x, y)
          /\ parser.method = x - FirstLine(n).from /\ parser.uri = y - x - 1
    <3>1. PICK e \in 1..Len(input) : \E x, y \in 1..e :
            NoLf(1, e - 1) /\ ReqEnd(e) /\ RequestLine(Line(1, e), x, y) /\ Fields(parser, x, y)
      BY <2>2 DEF FirstDone
    <3>2. PICK x \in 1..e, y \in 1..e :
            NoLf(1, e - 1) /\ ReqEnd(e) /\ RequestLine(Line(1, e), x, y) /\ Fields(parser, x, y)
      BY <3>1
    <3>3. PICK f \in 1..n : NoLf(1, f - 1) /\ ReqEnd(f) /\ FirstLine(n) = Line(1, f)
      BY <2>1, <2>4, <2>5, Outer
    <3>4. f = e
      <4>1. f \in Nat /\ e \in Nat /\ 1 <= f /\ 1 <= e /\ input[e] = "lf" /\ input[f] = "lf"
        BY <2>5, <3>2, <3>3 DEF ReqEnd
      <4> QED BY <3>2, <3>3, <4>1, OneEnd
    <3>5. FirstLine(n).from = 1 /\ FirstLine(n).to = e - 2
      BY <3>3, <3>4 DEF Line
    <3>6. x < y /\ y + 5 <= e - 2
      BY <3>2 DEF RequestLine, Version, Line
    <3>7. x \in In(FirstLine(n)) /\ y \in In(FirstLine(n))
      BY <3>5, <3>6 DEF In
    <3> QED BY <3>2, <3>3, <3>4, <3>5, <3>7 DEF Fields
  <2>8. /\ Len(parser.headers) = Cardinality(Heads(n))
        /\ \A j \in 1..Len(parser.headers) : \E x \in In(NthHead(n, j)) :
             /\ HeaderLine(NthHead(n, j), x)
             /\ parser.headers[j].name = x - NthHead(n, j).from
             /\ parser.headers[j].value
                  = (NthHead(n, j).to - x - 1) + Cardinality(FoldedText(n, NthHead(n, j)))
    <3>1. /\ input \in Seq(Char) /\ n \in 1..Len(input) /\ IsRequest(n)
          /\ parser.headers \in Seq(Header) /\ HeadersOf(parser.headers, n)
      BY <2>1, <2>3, <2>4, <2>5, <2>6
    <3> QED BY <3>1, HeadersAreText
  <2> QED BY <2>7, <2>8, ZenonT(30) DEF FieldsOfText, n
<1> QED BY <1>1, <1>2, <1>3, ParserSound, ReadAlways, PTL DEF ParserSpec

=============================================================================
