--------------------------- MODULE Parser_proofs ---------------------------
(***************************************************************************)
(* What the parser finds in any source, tidy or not.  The parser is taken  *)
(* for a machine that works on what is left of the stream (St, Succ), and  *)
(* a path of that machine is put together (Leads) over a token, a fragment *)
(* of a body, a body, a definition and a source.  The parser's steps are   *)
(* the machine's (ParserLinks), and from every state of the parser the     *)
(* path leads to the end with what the source says, which is the           *)
(* invariant.                                                              *)
(***************************************************************************)
EXTENDS LineScanners_proofs

---------------------------------------------------------------------------
\* The parser as a machine on what is left of the stream.

St(r, m, k, n, ms, e, d, o) ==
    [rest |-> r, mode |-> m, kind |-> k, name |-> n, members |-> ms, expected |-> e,
     depth |-> d, out |-> o]
Out(t, f, b) == [templates |-> t, functions |-> f, buses |-> b]

\* Past n tokens, but not past the last one.
Drop(r, n) == IF Len(r) > n THEN SubSeq(r, n + 1, Len(r)) ELSE <<r[Len(r)]>>

\* The same reading elsewhere or in another mode.
Go(x, r, m) == St(r, m, x.kind, x.name, x.members, x.expected, x.depth, x.out)
GoTo(x, r, m, d) == St(r, m, x.kind, x.name, x.members, x.expected, d, x.out)
Pushes(x) ==
    LET b == [name |-> x.name, members |-> x.members]
    IN  Out(x.out.templates, x.out.functions, Append(x.out.buses, b))
Defines(x) ==
    LET b == [name |-> x.name, members |-> x.members]
    IN  IF x.kind = "template"
        THEN Out(Append(x.out.templates, b), x.out.functions, x.out.buses)
        ELSE Out(x.out.templates, Append(x.out.functions, x.name), x.out.buses)

HeaderTokens == <<"name", "(", ")", "{">>
PartTokens == <<"part", "=", "part", "(", ")", ";">>

Begun(x, k, m, e, d) == St(Drop(x.rest, 1), m, k, "", <<>>, e, d, x.out)
TopNext(x, t) ==
    IF t = "template" THEN Begun(x, "template", "modifiers", <<>>, 0)
    ELSE IF t = "function" THEN Begun(x, "function", "expect", HeaderTokens, 1)
    ELSE IF t = "bus" THEN Begun(x, "bus", "bus name", <<>>, 0)
    ELSE IF t \in {"pragma", "include", "component"} THEN Go(x, x.rest, "eat")
    ELSE Go(x, Drop(x.rest, 1), "top")
EatNext(x, t) ==
    IF t = ";" THEN Go(x, Drop(x.rest, 1), "top")
    ELSE IF t = "eof" THEN Go(x, x.rest, "top") ELSE Go(x, Drop(x.rest, 1), "eat")
ModifierNext(x, t) ==
    IF t \in Modifiers THEN Go(x, Drop(x.rest, 1), "modifiers")
    ELSE St(x.rest, "expect", x.kind, x.name, x.members, HeaderTokens, 1, x.out)
Matches(w, t) == w = t \/ (w \in {"name", "part"} /\ IsName(t))
ExpectNext(x, t) ==
    IF x.expected = <<>> THEN Go(x, x.rest, "body")
    ELSE IF Matches(Head(x.expected), t)
         THEN St(Drop(x.rest, 1), "expect", x.kind,
                 IF Head(x.expected) = "name" THEN t ELSE x.name,
                 x.members, Tail(x.expected), x.depth, x.out)
         ELSE IF Head(x.expected) = ";"
              THEN St(x.rest, "expect", x.kind, x.name, x.members, Tail(x.expected), x.depth, x.out)
              ELSE Go(x, x.rest, "skip")
BodyNext(x, t) ==
    IF t = "}" THEN IF x.depth > 1 THEN GoTo(x, Drop(x.rest, 1), "body", x.depth - 1)
                    ELSE St(Drop(x.rest, 1), "top", x.kind, x.name, x.members, x.expected, x.depth,
                            Defines(x))
    ELSE IF t = "stmt" THEN Go(x, Drop(x.rest, 1), "body")
    ELSE IF t = "for" THEN GoTo(x, Drop(x.rest, 2), "body", x.depth + 1)
    ELSE IF t = "signal input"
         THEN St(Drop(x.rest, 2), "body", x.kind, x.name,
                 IF x.depth = 1 THEN Append(x.members, x.rest[2]) ELSE x.members,
                 x.expected, x.depth, x.out)
    ELSE IF t = "component"
         THEN St(Drop(x.rest, 1), "expect", x.kind, x.name, x.members, PartTokens, x.depth, x.out)
    ELSE Go(x, x.rest, "skip")
SkipNext(x, t) == IF Resumes(t) THEN Go(x, x.rest, "top") ELSE Go(x, Drop(x.rest, 1), "skip")
BusNameNext(x, t) ==
    IF IsName(t) THEN St(Drop(x.rest, 1), "parens", x.kind, t, x.members, x.expected, x.depth, x.out)
    ELSE Go(x, x.rest, "top")
ParensNext(x, t) ==
    IF t = "(" THEN GoTo(x, Drop(x.rest, 1), "parens", x.depth + 1)
    ELSE IF t = ")" /\ x.depth > 0
         THEN GoTo(x, Drop(x.rest, 1), IF x.depth = 1 THEN "bus body" ELSE "parens", x.depth - 1)
    ELSE IF x.depth = 0 \/ t = "eof" THEN Go(x, x.rest, "bus body")
    ELSE Go(x, Drop(x.rest, 1), "parens")
Pushed(x, r) == St(r, "top", x.kind, x.name, x.members, x.expected, x.depth, Pushes(x))
BusBodyNext(x, t) ==
    IF t = "{" THEN GoTo(x, Drop(x.rest, 1), "fields", 1) ELSE Pushed(x, x.rest)
FieldNext(x, t) ==
    IF t = "eof" THEN Pushed(x, x.rest)
    ELSE IF t = "}" /\ x.depth = 1 THEN Pushed(x, Drop(x.rest, 1))
    ELSE IF t = "{" THEN GoTo(x, Drop(x.rest, 1), "fields", x.depth + 1)
    ELSE IF t = "}" THEN GoTo(x, Drop(x.rest, 1), "fields", x.depth - 1)
    ELSE IF t = "signal" /\ x.depth = 1 THEN Go(x, Drop(x.rest, 1), "field name")
    ELSE Go(x, Drop(x.rest, 1), "fields")
FieldNameNext(x, t) ==
    IF IsName(t)
    THEN St(Drop(x.rest, 1), "field rest", x.kind, x.name, Append(x.members, t), x.expected, x.depth,
            x.out)
    ELSE Go(x, x.rest, "fields")
FieldRestNext(x, t) ==
    IF t = ";" THEN Go(x, Drop(x.rest, 1), "fields")
    ELSE IF t = "eof" THEN Go(x, x.rest, "fields") ELSE Go(x, Drop(x.rest, 1), "field rest")

NextIn(m, x, t) ==
    IF m = "top" THEN TopNext(x, t) ELSE IF m = "eat" THEN EatNext(x, t)
    ELSE IF m = "modifiers" THEN ModifierNext(x, t) ELSE IF m = "expect" THEN ExpectNext(x, t)
    ELSE IF m = "body" THEN BodyNext(x, t) ELSE IF m = "skip" THEN SkipNext(x, t)
    ELSE IF m = "bus name" THEN BusNameNext(x, t) ELSE IF m = "parens" THEN ParensNext(x, t)
    ELSE IF m = "bus body" THEN BusBodyNext(x, t) ELSE IF m = "fields" THEN FieldNext(x, t)
    ELSE IF m = "field name" THEN FieldNameNext(x, t) ELSE FieldRestNext(x, t)
Succ(x) == NextIn(x.mode, x, Head(x.rest))

\* At the end of the file the machine is at rest.
AtEnd(x) == x.mode = "top" /\ Head(x.rest) = "eof"

\* The machine comes from x to y.
Leads(x, y) ==
    \E n \in Nat : \E r :
        /\ r[0] = x /\ r[n] = y
        /\ \A i \in 1 .. n : ~AtEnd(r[i - 1]) /\ r[i] = Succ(r[i - 1])

\* It is where it is.
LEMMA LeadsHere == ASSUME NEW x PROVE Leads(x, x)
<1> DEFINE r == [i \in {0} |-> x]
<1>1. r[0] = x /\ 0 \in Nat /\ \A i \in 1 .. 0 : FALSE
  OBVIOUS
<1> QED BY <1>1 DEF Leads

\* One step more in front.
LEMMA LeadsOn ==
    ASSUME NEW x, NEW y, ~AtEnd(x), Leads(Succ(x), y) PROVE Leads(x, y)
<1>0. PICK n \in Nat : \E s : /\ s[0] = Succ(x) /\ s[n] = y
                               /\ \A i \in 1 .. n : ~AtEnd(s[i - 1]) /\ s[i] = Succ(s[i - 1])
  BY Zenon DEF Leads
<1>1. PICK s : /\ s[0] = Succ(x) /\ s[n] = y
               /\ \A i \in 1 .. n : ~AtEnd(s[i - 1]) /\ s[i] = Succ(s[i - 1])
  BY <1>0, Zenon
<1> DEFINE r == [i \in 0 .. n + 1 |-> IF i = 0 THEN x ELSE s[i - 1]]
<1>2. n + 1 \in Nat /\ 0 \in 0 .. n + 1 /\ n + 1 \in 0 .. n + 1 /\ (n + 1) - 1 = n /\ n + 1 # 0
  OBVIOUS
<1>3. r[0] = x /\ r[n + 1] = y
  BY <1>1, <1>2
<1>4. ASSUME NEW i \in 1 .. n + 1 PROVE ~AtEnd(r[i - 1]) /\ r[i] = Succ(r[i - 1])
  <2>1. r[i] = s[i - 1]
    OBVIOUS
  <2>2. CASE i = 1
    <3>1. r[i - 1] = x /\ i - 1 = 0
      BY <2>2
    <3> HIDE DEF r
    <3> QED BY <1>1, <2>1, <3>1, Zenon
  <2>3. CASE i # 1
    <3> DEFINE j == i - 1
    <3>1. j \in 1 .. n /\ r[j] = s[j - 1]
      BY <2>3
    <3> HIDE DEF r, j
    <3>2. ~AtEnd(s[j - 1]) /\ s[j] = Succ(s[j - 1])
      BY <1>1, <3>1, Zenon
    <3>3. ~AtEnd(r[j]) /\ r[i] = Succ(r[j])
      BY <2>1, <3>1, <3>2, Zenon DEF j
    <3> QED BY <3>3 DEF j
  <2> QED BY <2>2, <2>3
<1> HIDE DEF r
<1> QED BY <1>2, <1>3, <1>4, Zenon DEF Leads

\* One way after another.
LEMMA LeadsJoined ==
    ASSUME NEW x, NEW y, NEW z, Leads(x, y), Leads(y, z) PROVE Leads(x, z)
<1>0. PICK n \in Nat : \E r : /\ r[0] = x /\ r[n] = y
                               /\ \A i \in 1 .. n : ~AtEnd(r[i - 1]) /\ r[i] = Succ(r[i - 1])
  BY Zenon DEF Leads
<1>1. PICK r : /\ r[0] = x /\ r[n] = y
               /\ \A i \in 1 .. n : ~AtEnd(r[i - 1]) /\ r[i] = Succ(r[i - 1])
  BY <1>0, Zenon
<1> DEFINE S == {k \in Nat : k <= n => Leads(r[n - k], z)}
<1>2. 0 \in S
  <2>1. n - 0 = n
    OBVIOUS
  <2> QED BY <1>1, <2>1
<1>3. \A k \in Nat : k \in S => k + 1 \in S
  <2> SUFFICES ASSUME NEW k \in Nat, k \in S, k + 1 <= n PROVE Leads(r[n - (k + 1)], z)
    OBVIOUS
  <2> DEFINE i == n - k
             w == r[i - 1]
  <2>1. i \in 1 .. n /\ n - (k + 1) = i - 1 /\ Leads(r[i], z)
    OBVIOUS
  <2> HIDE DEF i
  <2>2. ~AtEnd(w) /\ r[i] = Succ(w)
    BY <1>1, <2>1, Zenon
  <2> HIDE DEF w
  <2>3. Leads(w, z)
    BY <2>1, <2>2, LeadsOn, Zenon
  <2> QED BY <2>1, <2>3 DEF w
<1> HIDE DEF S
<1>4. n \in S
  BY <1>2, <1>3, Induction
<1>5. n - n = 0 /\ Leads(r[n - n], z)
  BY <1>4 DEF S
<1> QED BY <1>1, <1>5

\* A step on the way to the end.
LEMMA LeadsAfter ==
    ASSUME NEW x, NEW y, Leads(x, y), AtEnd(y)
    PROVE  (AtEnd(x) => x = y) /\ (~AtEnd(x) => Leads(Succ(x), y))
<1>0. PICK n \in Nat : \E r : /\ r[0] = x /\ r[n] = y
                               /\ \A i \in 1 .. n : ~AtEnd(r[i - 1]) /\ r[i] = Succ(r[i - 1])
  BY Zenon DEF Leads
<1>1. PICK r : /\ r[0] = x /\ r[n] = y
               /\ \A i \in 1 .. n : ~AtEnd(r[i - 1]) /\ r[i] = Succ(r[i - 1])
  BY <1>0, Zenon
<1>2. CASE n = 0
  BY <1>1, <1>2, Zenon
<1>3. CASE n # 0
  <2>1. 1 \in 1 .. n /\ 1 - 1 = 0
    BY <1>3
  <2>2. ~AtEnd(x) /\ r[1] = Succ(x)
    BY <1>1, <2>1, Zenon
  <2> DEFINE m == n - 1
             s == [i \in 0 .. m |-> r[i + 1]]
  <2>3. m \in Nat /\ 0 \in 0 .. m /\ m \in 0 .. m /\ m + 1 = n /\ 0 + 1 = 1
    BY <1>3
  <2> HIDE DEF m
  <2>4. s[0] = r[1] /\ s[m] = y
    BY <1>1, <2>3
  <2>5. ASSUME NEW i \in 1 .. m PROVE ~AtEnd(s[i - 1]) /\ s[i] = Succ(s[i - 1])
    <3> DEFINE j == i + 1
    <3>1. j \in 1 .. n /\ s[i] = r[j] /\ s[i - 1] = r[j - 1]
      BY <2>3
    <3> HIDE DEF s, j
    <3> QED BY <1>1, <3>1, Zenon
  <2> HIDE DEF s
  <2>6. s[0] = Succ(x) /\ s[m] = y /\ m \in Nat
    BY <2>2, <2>3, <2>4, Zenon
  <2>7. Leads(Succ(x), y)
    BY <2>5, <2>6, Zenon DEF Leads
  <2> QED BY <2>2, <2>7
<1> QED BY <1>2, <1>3

---------------------------------------------------------------------------
\* The parser of the model is this machine.

Pr(p, m, k, n, ms, e, d) ==
    [pos |-> p, mode |-> m, kind |-> k, name |-> n, members |-> ms, expected |-> e, depth |-> d]
Shaped(p) == p = Pr(p.pos, p.mode, p.kind, p.name, p.members, p.expected, p.depth)
Outed(o) == o = Out(o.templates, o.functions, o.buses)

RestAt(p) == SubSeq(Stream, p, Len(Stream))
Abs(p, o) == St(RestAt(p.pos), p.mode, p.kind, p.name, p.members, p.expected, p.depth, o)

\* The fields of the two.
LEMMA PrFields ==
    ASSUME NEW p, NEW m, NEW k, NEW n, NEW ms, NEW e, NEW d, NEW x, x = Pr(p, m, k, n, ms, e, d)
    PROVE  /\ x.pos = p /\ x.mode = m /\ x.kind = k /\ x.name = n /\ x.members = ms
           /\ x.expected = e /\ x.depth = d /\ Shaped(x)
BY DEF Pr, Shaped

\* The fields of a state of the machine.
LEMMA StFields ==
    ASSUME NEW r, NEW m, NEW k, NEW n, NEW ms, NEW e, NEW d, NEW o, NEW x,
           x = St(r, m, k, n, ms, e, d, o)
    PROVE  /\ x.rest = r /\ x.mode = m /\ x.kind = k /\ x.name = n /\ x.members = ms
           /\ x.expected = e /\ x.depth = d /\ x.out = o
BY DEF St

\* The fields of what is found.
LEMMA OutFields ==
    ASSUME NEW t, NEW f, NEW b, NEW o, o = Out(t, f, b)
    PROVE  o.templates = t /\ o.functions = f /\ o.buses = b /\ Outed(o)
BY DEF Out, Outed

\* The parser's state with another value in one field.
WithPos(p, v) == [p EXCEPT !.pos = v]
WithMode(p, v) == [p EXCEPT !.mode = v]
WithKind(p, v) == [p EXCEPT !.kind = v]
WithName(p, v) == [p EXCEPT !.name = v]
WithMembers(p, v) == [p EXCEPT !.members = v]
WithExpected(p, v) == [p EXCEPT !.expected = v]
WithDepth(p, v) == [p EXCEPT !.depth = v]

\* One field of the record is replaced, the others stay.
LEMMA OneUpdate ==
    ASSUME NEW a, NEW b, NEW c, NEW f, NEW g, NEW h, NEW i, NEW v
    PROVE  /\ WithPos(Pr(a, b, c, f, g, h, i), v) = Pr(v, b, c, f, g, h, i)
           /\ WithMode(Pr(a, b, c, f, g, h, i), v) = Pr(a, v, c, f, g, h, i)
           /\ WithKind(Pr(a, b, c, f, g, h, i), v) = Pr(a, b, v, f, g, h, i)
           /\ WithName(Pr(a, b, c, f, g, h, i), v) = Pr(a, b, c, v, g, h, i)
           /\ WithMembers(Pr(a, b, c, f, g, h, i), v) = Pr(a, b, c, f, v, h, i)
           /\ WithExpected(Pr(a, b, c, f, g, h, i), v) = Pr(a, b, c, f, g, v, i)
           /\ WithDepth(Pr(a, b, c, f, g, h, i), v) = Pr(a, b, c, f, g, h, v)
<1>1. WithPos(Pr(a, b, c, f, g, h, i), v) = Pr(v, b, c, f, g, h, i)
  BY DEF Pr, WithPos
<1>2. WithMode(Pr(a, b, c, f, g, h, i), v) = Pr(a, v, c, f, g, h, i)
  BY DEF Pr, WithMode
<1>3. WithKind(Pr(a, b, c, f, g, h, i), v) = Pr(a, b, v, f, g, h, i)
  BY DEF Pr, WithKind
<1>4. WithName(Pr(a, b, c, f, g, h, i), v) = Pr(a, b, c, v, g, h, i)
  BY DEF Pr, WithName
<1>5. WithMembers(Pr(a, b, c, f, g, h, i), v) = Pr(a, b, c, f, v, h, i)
  BY DEF Pr, WithMembers
<1>6. WithExpected(Pr(a, b, c, f, g, h, i), v) = Pr(a, b, c, f, g, v, i)
  BY DEF Pr, WithExpected
<1>7. WithDepth(Pr(a, b, c, f, g, h, i), v) = Pr(a, b, c, f, g, h, v)
  BY DEF Pr, WithDepth
<1> QED BY <1>1, <1>2, <1>3, <1>4, <1>5, <1>6, <1>7, Zenon

\* What the steps do to the parser's state, and what it is then.
Remoded(p, m) == [p EXCEPT !.mode = m]
Moved(p, q) == [p EXCEPT !.pos = q]
Expecting(p, e) == [p EXCEPT !.expected = e]
MovedTo(p, q, m) == [p EXCEPT !.pos = q, !.mode = m]
HeaderRead(p, m, e, d) == [p EXCEPT !.mode = m, !.expected = e, !.depth = d]
Named(p, q, e, n) == [p EXCEPT !.pos = q, !.expected = e, !.name = n]
Deeper(p, q, d) == [p EXCEPT !.pos = q, !.depth = d]
Grown(p, q, ms) == [p EXCEPT !.pos = q, !.members = ms]
PartRead(p, q, m, e) == [p EXCEPT !.pos = q, !.mode = m, !.expected = e]
NamedTo(p, q, n, m) == [p EXCEPT !.pos = q, !.name = n, !.mode = m]
DeeperTo(p, q, d, m) == [p EXCEPT !.pos = q, !.depth = d, !.mode = m]
GrownTo(p, q, ms, m) == [p EXCEPT !.pos = q, !.members = ms, !.mode = m]
Began(p, q, k, m, e, d) == [p EXCEPT !.pos = q, !.kind = k, !.mode = m, !.expected = e, !.depth = d]

\* The record with another mode.
LEMMA RemodedIs ==
    ASSUME NEW p, Shaped(p), NEW m
    PROVE  Remoded(p, m) = Pr(p.pos, m, p.kind, p.name, p.members, p.expected, p.depth)
<1> DEFINE a == p.pos
           b == p.mode
           c == p.kind
           f == p.name
           g == p.members
           h == p.expected
           i == p.depth
<1>0. p = Pr(a, b, c, f, g, h, i)
  BY DEF Shaped
<1> HIDE DEF a, b, c, f, g, h, i
<1>1. Remoded(p, m)
        = WithMode(p, m)
  BY DEF Remoded, WithMode
<1>2. WithMode(p, m)
        = Pr(a, m, c, f, g, h, i)
  BY <1>0, OneUpdate
<1> QED BY <1>1, <1>2, Zenon DEF a, b, c, f, g, h, i

\* The record at another position.
LEMMA MovedIs ==
    ASSUME NEW p, Shaped(p), NEW q
    PROVE  Moved(p, q) = Pr(q, p.mode, p.kind, p.name, p.members, p.expected, p.depth)
<1> DEFINE a == p.pos
           b == p.mode
           c == p.kind
           f == p.name
           g == p.members
           h == p.expected
           i == p.depth
<1>0. p = Pr(a, b, c, f, g, h, i)
  BY DEF Shaped
<1> HIDE DEF a, b, c, f, g, h, i
<1>1. Moved(p, q)
        = WithPos(p, q)
  BY DEF Moved, WithPos
<1>2. WithPos(p, q)
        = Pr(q, b, c, f, g, h, i)
  BY <1>0, OneUpdate
<1> QED BY <1>1, <1>2, Zenon DEF a, b, c, f, g, h, i

\* The record with other tokens expected.
LEMMA ExpectingIs ==
    ASSUME NEW p, Shaped(p), NEW e
    PROVE  Expecting(p, e) = Pr(p.pos, p.mode, p.kind, p.name, p.members, e, p.depth)
<1> DEFINE a == p.pos
           b == p.mode
           c == p.kind
           f == p.name
           g == p.members
           h == p.expected
           i == p.depth
<1>0. p = Pr(a, b, c, f, g, h, i)
  BY DEF Shaped
<1> HIDE DEF a, b, c, f, g, h, i
<1>1. Expecting(p, e)
        = WithExpected(p, e)
  BY DEF Expecting, WithExpected
<1>2. WithExpected(p, e)
        = Pr(a, b, c, f, g, e, i)
  BY <1>0, OneUpdate
<1> QED BY <1>1, <1>2, Zenon DEF a, b, c, f, g, h, i

\* The record at another position in another mode.
LEMMA MovedToIs ==
    ASSUME NEW p, Shaped(p), NEW q, NEW m
    PROVE  MovedTo(p, q, m) = Pr(q, m, p.kind, p.name, p.members, p.expected, p.depth)
<1> DEFINE a == p.pos
           b == p.mode
           c == p.kind
           f == p.name
           g == p.members
           h == p.expected
           i == p.depth
<1>0. p = Pr(a, b, c, f, g, h, i)
  BY DEF Shaped
<1> HIDE DEF a, b, c, f, g, h, i
<1>1. MovedTo(p, q, m)
        = WithMode(WithPos(p, q), m)
  BY DEF MovedTo, WithPos, WithMode
<1>2. WithPos(p, q)
        = Pr(q, b, c, f, g, h, i)
  BY <1>0, OneUpdate
<1>3. WithMode(WithPos(p, q), m)
        = Pr(q, m, c, f, g, h, i)
  BY <1>2, OneUpdate
<1> QED BY <1>1, <1>3, Zenon DEF a, b, c, f, g, h, i

\* The record that waits for a header.
LEMMA HeaderReadIs ==
    ASSUME NEW p, Shaped(p), NEW m, NEW e, NEW d
    PROVE  HeaderRead(p, m, e, d) = Pr(p.pos, m, p.kind, p.name, p.members, e, d)
<1> DEFINE a == p.pos
           b == p.mode
           c == p.kind
           f == p.name
           g == p.members
           h == p.expected
           i == p.depth
<1>0. p = Pr(a, b, c, f, g, h, i)
  BY DEF Shaped
<1> HIDE DEF a, b, c, f, g, h, i
<1>1. HeaderRead(p, m, e, d)
        = WithDepth(WithExpected(WithMode(p, m), e), d)
  BY DEF HeaderRead, WithMode, WithExpected, WithDepth
<1>2. WithMode(p, m)
        = Pr(a, m, c, f, g, h, i)
  BY <1>0, OneUpdate
<1>3. WithExpected(WithMode(p, m), e)
        = Pr(a, m, c, f, g, e, i)
  BY <1>2, OneUpdate
<1>4. WithDepth(WithExpected(WithMode(p, m), e), d)
        = Pr(a, m, c, f, g, e, d)
  BY <1>3, OneUpdate
<1> QED BY <1>1, <1>4, Zenon DEF a, b, c, f, g, h, i

\* The record with a name read.
LEMMA NamedIs ==
    ASSUME NEW p, Shaped(p), NEW q, NEW e, NEW n
    PROVE  Named(p, q, e, n) = Pr(q, p.mode, p.kind, n, p.members, e, p.depth)
<1> DEFINE a == p.pos
           b == p.mode
           c == p.kind
           f == p.name
           g == p.members
           h == p.expected
           i == p.depth
<1>0. p = Pr(a, b, c, f, g, h, i)
  BY DEF Shaped
<1> HIDE DEF a, b, c, f, g, h, i
<1>1. Named(p, q, e, n)
        = WithName(WithExpected(WithPos(p, q), e), n)
  BY DEF Named, WithPos, WithExpected, WithName
<1>2. WithPos(p, q)
        = Pr(q, b, c, f, g, h, i)
  BY <1>0, OneUpdate
<1>3. WithExpected(WithPos(p, q), e)
        = Pr(q, b, c, f, g, e, i)
  BY <1>2, OneUpdate
<1>4. WithName(WithExpected(WithPos(p, q), e), n)
        = Pr(q, b, c, n, g, e, i)
  BY <1>3, OneUpdate
<1> QED BY <1>1, <1>4, Zenon DEF a, b, c, f, g, h, i

\* The record at another depth.
LEMMA DeeperIs ==
    ASSUME NEW p, Shaped(p), NEW q, NEW d
    PROVE  Deeper(p, q, d) = Pr(q, p.mode, p.kind, p.name, p.members, p.expected, d)
<1> DEFINE a == p.pos
           b == p.mode
           c == p.kind
           f == p.name
           g == p.members
           h == p.expected
           i == p.depth
<1>0. p = Pr(a, b, c, f, g, h, i)
  BY DEF Shaped
<1> HIDE DEF a, b, c, f, g, h, i
<1>1. Deeper(p, q, d)
        = WithDepth(WithPos(p, q), d)
  BY DEF Deeper, WithPos, WithDepth
<1>2. WithPos(p, q)
        = Pr(q, b, c, f, g, h, i)
  BY <1>0, OneUpdate
<1>3. WithDepth(WithPos(p, q), d)
        = Pr(q, b, c, f, g, h, d)
  BY <1>2, OneUpdate
<1> QED BY <1>1, <1>3, Zenon DEF a, b, c, f, g, h, i

\* The record with other members.
LEMMA GrownIs ==
    ASSUME NEW p, Shaped(p), NEW q, NEW ms
    PROVE  Grown(p, q, ms) = Pr(q, p.mode, p.kind, p.name, ms, p.expected, p.depth)
<1> DEFINE a == p.pos
           b == p.mode
           c == p.kind
           f == p.name
           g == p.members
           h == p.expected
           i == p.depth
<1>0. p = Pr(a, b, c, f, g, h, i)
  BY DEF Shaped
<1> HIDE DEF a, b, c, f, g, h, i
<1>1. Grown(p, q, ms)
        = WithMembers(WithPos(p, q), ms)
  BY DEF Grown, WithPos, WithMembers
<1>2. WithPos(p, q)
        = Pr(q, b, c, f, g, h, i)
  BY <1>0, OneUpdate
<1>3. WithMembers(WithPos(p, q), ms)
        = Pr(q, b, c, f, ms, h, i)
  BY <1>2, OneUpdate
<1> QED BY <1>1, <1>3, Zenon DEF a, b, c, f, g, h, i

\* The record that waits for the rest of a component.
LEMMA PartReadIs ==
    ASSUME NEW p, Shaped(p), NEW q, NEW m, NEW e
    PROVE  PartRead(p, q, m, e) = Pr(q, m, p.kind, p.name, p.members, e, p.depth)
<1> DEFINE a == p.pos
           b == p.mode
           c == p.kind
           f == p.name
           g == p.members
           h == p.expected
           i == p.depth
<1>0. p = Pr(a, b, c, f, g, h, i)
  BY DEF Shaped
<1> HIDE DEF a, b, c, f, g, h, i
<1>1. PartRead(p, q, m, e)
        = WithExpected(WithMode(WithPos(p, q), m), e)
  BY DEF PartRead, WithPos, WithMode, WithExpected
<1>2. WithPos(p, q)
        = Pr(q, b, c, f, g, h, i)
  BY <1>0, OneUpdate
<1>3. WithMode(WithPos(p, q), m)
        = Pr(q, m, c, f, g, h, i)
  BY <1>2, OneUpdate
<1>4. WithExpected(WithMode(WithPos(p, q), m), e)
        = Pr(q, m, c, f, g, e, i)
  BY <1>3, OneUpdate
<1> QED BY <1>1, <1>4, Zenon DEF a, b, c, f, g, h, i

\* The record with a name read, in another mode.
LEMMA NamedToIs ==
    ASSUME NEW p, Shaped(p), NEW q, NEW n, NEW m
    PROVE  NamedTo(p, q, n, m) = Pr(q, m, p.kind, n, p.members, p.expected, p.depth)
<1> DEFINE a == p.pos
           b == p.mode
           c == p.kind
           f == p.name
           g == p.members
           h == p.expected
           i == p.depth
<1>0. p = Pr(a, b, c, f, g, h, i)
  BY DEF Shaped
<1> HIDE DEF a, b, c, f, g, h, i
<1>1. NamedTo(p, q, n, m)
        = WithMode(WithName(WithPos(p, q), n), m)
  BY DEF NamedTo, WithPos, WithName, WithMode
<1>2. WithPos(p, q)
        = Pr(q, b, c, f, g, h, i)
  BY <1>0, OneUpdate
<1>3. WithName(WithPos(p, q), n)
        = Pr(q, b, c, n, g, h, i)
  BY <1>2, OneUpdate
<1>4. WithMode(WithName(WithPos(p, q), n), m)
        = Pr(q, m, c, n, g, h, i)
  BY <1>3, OneUpdate
<1> QED BY <1>1, <1>4, Zenon DEF a, b, c, f, g, h, i

\* The record at another depth, in another mode.
LEMMA DeeperToIs ==
    ASSUME NEW p, Shaped(p), NEW q, NEW d, NEW m
    PROVE  DeeperTo(p, q, d, m) = Pr(q, m, p.kind, p.name, p.members, p.expected, d)
<1> DEFINE a == p.pos
           b == p.mode
           c == p.kind
           f == p.name
           g == p.members
           h == p.expected
           i == p.depth
<1>0. p = Pr(a, b, c, f, g, h, i)
  BY DEF Shaped
<1> HIDE DEF a, b, c, f, g, h, i
<1>1. DeeperTo(p, q, d, m)
        = WithMode(WithDepth(WithPos(p, q), d), m)
  BY DEF DeeperTo, WithPos, WithDepth, WithMode
<1>2. WithPos(p, q)
        = Pr(q, b, c, f, g, h, i)
  BY <1>0, OneUpdate
<1>3. WithDepth(WithPos(p, q), d)
        = Pr(q, b, c, f, g, h, d)
  BY <1>2, OneUpdate
<1>4. WithMode(WithDepth(WithPos(p, q), d), m)
        = Pr(q, m, c, f, g, h, d)
  BY <1>3, OneUpdate
<1> QED BY <1>1, <1>4, Zenon DEF a, b, c, f, g, h, i

\* The record with other members, in another mode.
LEMMA GrownToIs ==
    ASSUME NEW p, Shaped(p), NEW q, NEW ms, NEW m
    PROVE  GrownTo(p, q, ms, m) = Pr(q, m, p.kind, p.name, ms, p.expected, p.depth)
<1> DEFINE a == p.pos
           b == p.mode
           c == p.kind
           f == p.name
           g == p.members
           h == p.expected
           i == p.depth
<1>0. p = Pr(a, b, c, f, g, h, i)
  BY DEF Shaped
<1> HIDE DEF a, b, c, f, g, h, i
<1>1. GrownTo(p, q, ms, m)
        = WithMode(WithMembers(WithPos(p, q), ms), m)
  BY DEF GrownTo, WithPos, WithMembers, WithMode
<1>2. WithPos(p, q)
        = Pr(q, b, c, f, g, h, i)
  BY <1>0, OneUpdate
<1>3. WithMembers(WithPos(p, q), ms)
        = Pr(q, b, c, f, ms, h, i)
  BY <1>2, OneUpdate
<1>4. WithMode(WithMembers(WithPos(p, q), ms), m)
        = Pr(q, m, c, f, ms, h, i)
  BY <1>3, OneUpdate
<1> QED BY <1>1, <1>4, Zenon DEF a, b, c, f, g, h, i

\* The record that begins a definition.
LEMMA BeganIs ==
    ASSUME NEW p, Shaped(p), NEW q, NEW k, NEW m, NEW e, NEW d
    PROVE  Began(p, q, k, m, e, d) = Pr(q, m, k, p.name, p.members, e, d)
<1> DEFINE a == p.pos
           b == p.mode
           c == p.kind
           f == p.name
           g == p.members
           h == p.expected
           i == p.depth
<1>0. p = Pr(a, b, c, f, g, h, i)
  BY DEF Shaped
<1> HIDE DEF a, b, c, f, g, h, i
<1>1. Began(p, q, k, m, e, d)
        = WithDepth(WithExpected(WithMode(WithKind(WithPos(p, q), k), m), e), d)
  BY DEF Began, WithPos, WithKind, WithMode, WithExpected, WithDepth
<1>2. WithPos(p, q)
        = Pr(q, b, c, f, g, h, i)
  BY <1>0, OneUpdate
<1>3. WithKind(WithPos(p, q), k)
        = Pr(q, b, k, f, g, h, i)
  BY <1>2, OneUpdate
<1>4. WithMode(WithKind(WithPos(p, q), k), m)
        = Pr(q, m, k, f, g, h, i)
  BY <1>3, OneUpdate
<1>5. WithExpected(WithMode(WithKind(WithPos(p, q), k), m), e)
        = Pr(q, m, k, f, g, e, i)
  BY <1>4, OneUpdate
<1>6. WithDepth(WithExpected(WithMode(WithKind(WithPos(p, q), k), m), e), d)
        = Pr(q, m, k, f, g, e, d)
  BY <1>5, OneUpdate
<1> QED BY <1>1, <1>6, Zenon DEF a, b, c, f, g, h, i

\* What the parser has when it begins a definition.
LEMMA BeginsWith ==
    ASSUME NEW q, NEW k, NEW m, NEW e, NEW d
    PROVE  Began(Start, q, k, m, e, d) = Pr(q, m, k, "", <<>>, e, d)
<1>1. Start.name = "" /\ Start.members = <<>> /\ Shaped(Start)
  BY DEF Start, Shaped, Pr
<1>2. Began(Start, q, k, m, e, d) = Pr(q, m, k, Start.name, Start.members, e, d)
  BY <1>1, BeganIs, Zenon
<1> QED BY <1>1, <1>2, Zenon

\* The last element of a sequence.
LEMMA OneLeft ==
    ASSUME NEW T, NEW s \in Seq(T), NEW n \in 1 .. Len(s)
    PROVE  SubSeq(s, n, n) = <<s[n]>>
<1> DEFINE u == SubSeq(s, n, n)
           v == <<s[n]>>
<1>1. u \in Seq(T) /\ v \in Seq(T) /\ Len(u) = 1 /\ Len(v) = 1
  OBVIOUS
<1>2. u[1] = s[n] /\ v[1] = s[n]
  OBVIOUS
<1> HIDE DEF u, v
<1>3. \A i \in 1 .. Len(u) : u[i] = v[i]
  BY <1>1, <1>2
<1> QED BY <1>1, <1>3, SameElements DEF u, v

\* What is left of the stream is what the parser sees of it.
LEMMA RestFacts ==
    ASSUME TextOK, GoodParser(parser)
    PROVE  /\ Head(RestAt(parser.pos)) = Peek
           /\ RestAt(Bumped(1)) = Drop(RestAt(parser.pos), 1)
           /\ RestAt(Bumped(2)) = Drop(RestAt(parser.pos), 2)
           /\ Peek # "eof" => RestAt(parser.pos)[2] = Stream[parser.pos + 1]
<1> DEFINE S == Stream
           N == Len(S)
           p == parser.pos
           R == RestAt(p)
<1>1. S \in Seq(Token) /\ N \in Nat /\ p \in 1 .. N /\ (Peek # "eof" => p # N)
  <2>1. Stream \in Seq(Token)
    BY LinesAreGood, TokensOfLines, Zenon DEF TextOK, Stream
  <2>2. Peek # "eof" => parser.pos # Len(Stream)
    BY TextFacts, Zenon DEF Peek
  <2>3. parser.pos \in 1 .. Len(Stream)
    BY DEF GoodParser
  <2> QED BY <2>1, <2>2, <2>3
<1>2. Peek = S[p] /\ R = SubSeq(S, p, N)
  BY DEF Peek, RestAt
<1>3. /\ Bumped(1) = (IF p + 1 <= N THEN p + 1 ELSE N)
      /\ Bumped(2) = (IF p + 2 <= N THEN p + 2 ELSE N)
  BY DEF Bumped
<1>4. /\ RestAt(Bumped(1)) = SubSeq(S, Bumped(1), N)
      /\ RestAt(Bumped(2)) = SubSeq(S, Bumped(2), N)
  BY DEF RestAt
<1> HIDE DEF S, N, p, R
<1>5. N = Len(S)
  BY DEF N, S
<1>6. R \in Seq(Token) /\ Len(R) = N - p + 1 /\ \A i \in 1 .. N - p + 1 : R[i] = S[p + i - 1]
  BY <1>1, <1>2, <1>5
<1>7. Head(R) = S[p] /\ (p # N => R[2] = S[p + 1])
  BY <1>1, <1>6
<1>8. ASSUME NEW n \in {1, 2}
      PROVE  SubSeq(S, IF p + n <= N THEN p + n ELSE N, N) = Drop(R, n)
  <2>1. CASE p + n <= N
    <3>1. Len(R) > n
      BY <1>1, <1>6, <2>1
    <3>2. SubSeq(R, n + 1, Len(R)) = SubSeq(S, p + n, N)
      BY <1>1, <1>2, <1>5, <1>6, <2>1
    <3> QED BY <2>1, <3>1, <3>2 DEF Drop
  <2>2. CASE ~(p + n <= N)
    <3>1. ~(Len(R) > n) /\ R[Len(R)] = S[N]
      BY <1>1, <1>6, <2>2
    <3>2. SubSeq(S, N, N) = <<S[N]>>
      BY <1>1, <1>5, OneLeft
    <3> QED BY <2>2, <3>1, <3>2 DEF Drop
  <2> QED BY <2>1, <2>2
<1>9. RestAt(Bumped(1)) = Drop(R, 1) /\ RestAt(Bumped(2)) = Drop(R, 2)
  BY <1>3, <1>4, <1>8
<1> QED BY <1>1, <1>2, <1>7, <1>9 DEF S, p, R
---------------------------------------------------------------------------
\* The steps of the parser are those of the machine.

Ready == SInv /\ Shaped(parser) /\ Outed(parsed) /\ stage = "parser"
Now == Abs(parser, parsed)
Linked ==
    /\ stage' = stage /\ UNCHANGED <<source, lines>>
    /\ Shaped(parser') /\ Outed(parsed')
    /\ ~AtEnd(Now) /\ Abs(parser', parsed') = Succ(Now)

\* The machine where the parser is.
LEMMA NowFields ==
    /\ Now.rest = RestAt(parser.pos) /\ Now.mode = parser.mode /\ Now.kind = parser.kind
    /\ Now.name = parser.name /\ Now.members = parser.members
    /\ Now.expected = parser.expected /\ Now.depth = parser.depth /\ Now.out = parsed
BY DEF Now, Abs, St

\* Where the parser goes and where the machine goes is the same.
LEMMA LinkedBy ==
    ASSUME Ready, NEW q, NEW m, NEW k, NEW n, NEW ms, NEW e, NEW d, NEW o, NEW r,
           Parses(parser'), parser' = Pr(q, m, k, n, ms, e, d),
           parsed' = o, Outed(o), r = RestAt(q),
           parser.mode # "top" \/ Peek # "eof",
           NextIn(parser.mode, Now, Peek) = St(r, m, k, n, ms, e, d, o)
    PROVE  Linked
<1>1. /\ parser'.pos = q /\ parser'.mode = m /\ parser'.kind = k /\ parser'.name = n
      /\ parser'.members = ms /\ parser'.expected = e /\ parser'.depth = d /\ Shaped(parser')
  <2> DEFINE p == parser'
  <2>1. p = Pr(q, m, k, n, ms, e, d)
    OBVIOUS
  <2> HIDE DEF p
  <2>2. /\ p.pos = q /\ p.mode = m /\ p.kind = k /\ p.name = n
        /\ p.members = ms /\ p.expected = e /\ p.depth = d /\ Shaped(p)
    BY <2>1, PrFields
  <2> QED BY <2>2 DEF p
<1>2. Abs(parser', parsed') = St(r, m, k, n, ms, e, d, o)
  BY <1>1, Zenon DEF Abs
<1>3. Head(Now.rest) = Peek /\ Now.mode = parser.mode
  BY NowFields, RestFacts, Zenon DEF Ready, SInv
<1>4. Abs(parser', parsed') = Succ(Now) /\ ~AtEnd(Now)
  BY <1>2, <1>3, Zenon DEF Succ, AtEnd
<1>5. stage' = stage /\ UNCHANGED <<source, lines>>
  BY Zenon DEF Parses
<1> QED BY <1>1, <1>4, <1>5, Zenon DEF Linked

\* Between definitions.
LEMMA TopLinks == ASSUME Ready, TopDefinition \/ TopDirective \/ TopOther PROVE Linked
<1> DEFINE x == Now
           p == parser
           t == Peek
<1>0. p.mode = "top" /\ Shaped(p) /\ Outed(parsed) /\ Parses(p')
  BY Zenon DEF Ready, Reading, Begin, Fails, Reads, Parses, TopDefinition, TopDirective, TopOther
<1>1. CASE t = "template" /\ Begin("template", "modifiers", <<>>, 0)
  <2>1. p' = Began(Start, Bumped(1), "template", "modifiers", <<>>, 0) /\ parsed' = parsed
    BY <1>1, Zenon DEF Began, Begin, Reads, Parses
  <2>2. p' = Pr(Bumped(1), "modifiers", "template", "", <<>>, <<>>, 0)
    BY <2>1, BeginsWith, Zenon
  <2>3. NextIn(p.mode, x, t) = Begun(x, "template", "modifiers", <<>>, 0) /\ t # "eof"
    BY <1>0, <1>1, NowFields DEF NextIn, TopNext, TopDefinition, TopDirective, TopOther
  <2> QED BY <1>0, <1>1, <2>1, <2>2, <2>3, NowFields, RestFacts, LinkedBy
      DEF Go, GoTo, Begun, Ready, SInv
<1>2. CASE t = "function" /\ Begin("function", "expect", HeaderTokens, 1)
  <2>1. p' = Began(Start, Bumped(1), "function", "expect", HeaderTokens, 1) /\ parsed' = parsed
    BY <1>2, Zenon DEF Began, Begin, Reads, Parses
  <2>2. p' = Pr(Bumped(1), "expect", "function", "", <<>>, HeaderTokens, 1)
    BY <2>1, BeginsWith, Zenon
  <2>3. NextIn(p.mode, x, t) = Begun(x, "function", "expect", HeaderTokens, 1) /\ t # "eof"
    BY <1>0, <1>2, NowFields DEF NextIn, TopNext, TopDefinition, TopDirective, TopOther
  <2> QED BY <1>0, <1>2, <2>1, <2>2, <2>3, NowFields, RestFacts, LinkedBy
      DEF Go, GoTo, Begun, Ready, SInv
<1>3. CASE t = "bus" /\ Begin("bus", "bus name", <<>>, 0)
  <2>1. p' = Began(Start, Bumped(1), "bus", "bus name", <<>>, 0) /\ parsed' = parsed
    BY <1>3, Zenon DEF Began, Begin, Reads, Parses
  <2>2. p' = Pr(Bumped(1), "bus name", "bus", "", <<>>, <<>>, 0)
    BY <2>1, BeginsWith, Zenon
  <2>3. NextIn(p.mode, x, t) = Begun(x, "bus", "bus name", <<>>, 0) /\ t # "eof"
    BY <1>0, <1>3, NowFields DEF NextIn, TopNext, TopDefinition, TopDirective, TopOther
  <2> QED BY <1>0, <1>3, <2>1, <2>2, <2>3, NowFields, RestFacts, LinkedBy
      DEF Go, GoTo, Begun, Ready, SInv
<1>4. CASE TopDirective
  <2>1. p' = Remoded(p, "eat") /\ parsed' = parsed
    BY <1>4, <1>0 DEF TopDirective, Remoded, Reads, Parses
  <2>2. p' = Pr(p.pos, "eat", p.kind, p.name, p.members, p.expected, p.depth)
    BY <1>0, <2>1, RemodedIs, Zenon
  <2>3. NextIn(p.mode, x, t) = Go(x, x.rest, "eat") /\ t # "eof"
    BY <1>0, <1>4, NowFields DEF NextIn, TopNext, TopDirective
  <2> QED BY <1>0, <1>4, <2>1, <2>2, <2>3, NowFields, RestFacts, LinkedBy
      DEF Go, GoTo, Begun, Ready, SInv
<1>5. CASE TopOther
  <2>1. p' = Moved(p, Bumped(1)) /\ parsed' = parsed
    BY <1>5, <1>0 DEF TopOther, Moved, Reads, Parses
  <2>2. p' = Pr(Bumped(1), p.mode, p.kind, p.name, p.members, p.expected, p.depth)
    BY <1>0, <2>1, MovedIs, Zenon
  <2>3. NextIn(p.mode, x, t) = Go(x, Drop(x.rest, 1), "top") /\ t # "eof"
    BY <1>0, <1>5, NowFields DEF NextIn, TopNext, TopOther
  <2> QED BY <1>0, <1>5, <2>1, <2>2, <2>3, NowFields, RestFacts, LinkedBy
      DEF Go, GoTo, Begun, Ready, SInv
<1> QED BY <1>1, <1>2, <1>3, <1>4, <1>5 DEF TopDefinition, HeaderTokens

\* Within a directive.
LEMMA EatLinks == ASSUME Ready, EatDirective PROVE Linked
<1> DEFINE x == Now
           p == parser
           t == Peek
<1>0. p.mode = "eat" /\ Shaped(p) /\ Outed(parsed) /\ Parses(p')
  BY Zenon DEF Ready, Reading, Begin, Fails, Reads, Parses, EatDirective
<1>1. CASE t = ";"
  <2>1. p' = MovedTo(p, Bumped(1), "top") /\ parsed' = parsed
    BY <1>1, <1>0 DEF EatDirective, MovedTo, Reads, Parses
  <2>2. p' = Pr(Bumped(1), "top", p.kind, p.name, p.members, p.expected, p.depth)
    BY <1>0, <2>1, MovedToIs, Zenon
  <2>3. NextIn(p.mode, x, t) = Go(x, Drop(x.rest, 1), "top")
    BY <1>0, <1>1, NowFields DEF NextIn, EatNext, EatDirective
  <2> QED BY <1>0, <1>1, <2>1, <2>2, <2>3, NowFields, RestFacts, LinkedBy
      DEF Go, GoTo, Begun, Ready, SInv
<1>2. CASE t = "eof"
  <2>1. p' = MovedTo(p, p.pos, "top") /\ parsed' = parsed
    BY <1>2, <1>0 DEF EatDirective, MovedTo, Reads, Parses
  <2>2. p' = Pr(p.pos, "top", p.kind, p.name, p.members, p.expected, p.depth)
    BY <1>0, <2>1, MovedToIs, Zenon
  <2>3. NextIn(p.mode, x, t) = Go(x, x.rest, "top")
    BY <1>0, <1>2, NowFields DEF NextIn, EatNext, EatDirective
  <2> QED BY <1>0, <1>2, <2>1, <2>2, <2>3, NowFields, RestFacts, LinkedBy
      DEF Go, GoTo, Begun, Ready, SInv
<1>3. CASE t \notin {";", "eof"}
  <2>1. p' = Moved(p, Bumped(1)) /\ parsed' = parsed
    BY <1>3, <1>0 DEF EatDirective, Moved, Reads, Parses
  <2>2. p' = Pr(Bumped(1), p.mode, p.kind, p.name, p.members, p.expected, p.depth)
    BY <1>0, <2>1, MovedIs, Zenon
  <2>3. NextIn(p.mode, x, t) = Go(x, Drop(x.rest, 1), "eat")
    BY <1>0, <1>3, NowFields DEF NextIn, EatNext, EatDirective
  <2> QED BY <1>0, <1>3, <2>1, <2>2, <2>3, NowFields, RestFacts, LinkedBy
      DEF Go, GoTo, Begun, Ready, SInv
<1> QED BY <1>1, <1>2, <1>3

\* Behind an error.
LEMMA SkipLinks == ASSUME Ready, Skip PROVE Linked
<1> DEFINE x == Now
           p == parser
           t == Peek
<1>0. p.mode = "skip" /\ Shaped(p) /\ Outed(parsed) /\ Parses(p')
  BY Zenon DEF Ready, Reading, Begin, Fails, Reads, Parses, Skip
<1>1. CASE Resumes(t)
  <2>1. p' = Remoded(p, "top") /\ parsed' = parsed
    BY <1>1, <1>0 DEF Skip, Remoded, Reads, Parses
  <2>2. p' = Pr(p.pos, "top", p.kind, p.name, p.members, p.expected, p.depth)
    BY <1>0, <2>1, RemodedIs, Zenon
  <2>3. NextIn(p.mode, x, t) = Go(x, x.rest, "top")
    BY <1>0, <1>1, NowFields DEF NextIn, SkipNext, Skip
  <2> QED BY <1>0, <1>1, <2>1, <2>2, <2>3, NowFields, RestFacts, LinkedBy
      DEF Go, GoTo, Begun, Ready, SInv
<1>2. CASE ~Resumes(t)
  <2>1. p' = Moved(p, Bumped(1)) /\ parsed' = parsed
    BY <1>2, <1>0 DEF Skip, Moved, Reads, Parses
  <2>2. p' = Pr(Bumped(1), p.mode, p.kind, p.name, p.members, p.expected, p.depth)
    BY <1>0, <2>1, MovedIs, Zenon
  <2>3. NextIn(p.mode, x, t) = Go(x, Drop(x.rest, 1), "skip")
    BY <1>0, <1>2, NowFields DEF NextIn, SkipNext, Skip
  <2> QED BY <1>0, <1>2, <2>1, <2>2, <2>3, NowFields, RestFacts, LinkedBy
      DEF Go, GoTo, Begun, Ready, SInv
<1> QED BY <1>1, <1>2

\* Before the name of a template.
LEMMA ModifierLinks == ASSUME Ready, SkipModifier PROVE Linked
<1> DEFINE x == Now
           p == parser
           t == Peek
<1>0. p.mode = "modifiers" /\ Shaped(p) /\ Outed(parsed) /\ Parses(p')
  BY Zenon DEF Ready, Reading, Begin, Fails, Reads, Parses, SkipModifier
<1>1. CASE t \in Modifiers
  <2>1. p' = Moved(p, Bumped(1)) /\ parsed' = parsed
    BY <1>1, <1>0 DEF SkipModifier, Moved, Reads, Parses
  <2>2. p' = Pr(Bumped(1), p.mode, p.kind, p.name, p.members, p.expected, p.depth)
    BY <1>0, <2>1, MovedIs, Zenon
  <2>3. NextIn(p.mode, x, t) = Go(x, Drop(x.rest, 1), "modifiers")
    BY <1>0, <1>1, NowFields DEF NextIn, ModifierNext, SkipModifier
  <2> QED BY <1>0, <1>1, <2>1, <2>2, <2>3, NowFields, RestFacts, LinkedBy
      DEF Go, GoTo, Begun, Ready, SInv
<1>2. CASE t \notin Modifiers
  <2>1. p' = HeaderRead(p, "expect", HeaderTokens, 1) /\ parsed' = parsed
    BY <1>2, <1>0 DEF SkipModifier, HeaderRead, Reads, Parses, HeaderTokens
  <2>2. p' = Pr(p.pos, "expect", p.kind, p.name, p.members, HeaderTokens, 1)
    BY <1>0, <2>1, HeaderReadIs, Zenon
  <2>3. NextIn(p.mode, x, t) = St(x.rest, "expect", x.kind, x.name, x.members, HeaderTokens, 1, x.out)
    BY <1>0, <1>2, NowFields DEF NextIn, ModifierNext, SkipModifier
  <2> QED BY <1>0, <1>2, <2>1, <2>2, <2>3, NowFields, RestFacts, LinkedBy
      DEF Go, GoTo, Begun, Ready, SInv
<1> QED BY <1>1, <1>2

\* Where certain tokens are expected.
LEMMA ExpectLinks == ASSUME Ready, ExpectToken \/ ExpectedSeen PROVE Linked
<1> DEFINE x == Now
           p == parser
           t == Peek
<1>0. p.mode = "expect" /\ Shaped(p) /\ Outed(parsed) /\ Parses(p')
  BY Zenon DEF Ready, Reading, Begin, Fails, Reads, Parses, ExpectToken, ExpectedSeen
<1>1. CASE ExpectedSeen
  <2>1. p' = Remoded(p, "body") /\ parsed' = parsed
    BY <1>1, <1>0 DEF ExpectedSeen, Remoded, Reads, Parses
  <2>2. p' = Pr(p.pos, "body", p.kind, p.name, p.members, p.expected, p.depth)
    BY <1>0, <2>1, RemodedIs, Zenon
  <2>3. NextIn(p.mode, x, t) = Go(x, x.rest, "body")
    BY <1>0, <1>1, NowFields DEF NextIn, ExpectNext, ExpectedSeen
  <2> QED BY <1>0, <1>1, <2>1, <2>2, <2>3, NowFields, RestFacts, LinkedBy
      DEF Go, GoTo, Begun, Ready, SInv
<1>2. CASE ExpectToken /\ Matches(Head(p.expected), t)
  <2>1. p' = Named(p, Bumped(1), Tail(p.expected), IF Head(p.expected) = "name" THEN t ELSE p.name) /\ parsed' = parsed
    BY <1>2, <1>0 DEF ExpectToken, Named, Reads, Parses, Fails, Matches
  <2>2. p' = Pr(Bumped(1), p.mode, p.kind, IF Head(p.expected) = "name" THEN t ELSE p.name, p.members, Tail(p.expected), p.depth)
    BY <1>0, <2>1, NamedIs, Zenon
  <2>3. NextIn(p.mode, x, t) = St(Drop(x.rest, 1), "expect", x.kind,
            IF Head(x.expected) = "name" THEN t ELSE x.name, x.members,
            Tail(x.expected), x.depth, x.out)
    BY <1>0, <1>2, NowFields DEF NextIn, ExpectNext, ExpectToken
  <2> QED BY <1>0, <1>2, <2>1, <2>2, <2>3, NowFields, RestFacts, LinkedBy
      DEF Go, GoTo, Begun, Ready, SInv
<1>3. CASE ExpectToken /\ ~Matches(Head(p.expected), t) /\ Head(p.expected) = ";"
  <2>1. p' = Expecting(p, Tail(p.expected)) /\ parsed' = parsed
    BY <1>3, <1>0 DEF ExpectToken, Expecting, Reads, Parses, Fails, Matches
  <2>2. p' = Pr(p.pos, p.mode, p.kind, p.name, p.members, Tail(p.expected), p.depth)
    BY <1>0, <2>1, ExpectingIs, Zenon
  <2>3. NextIn(p.mode, x, t) = St(x.rest, "expect", x.kind, x.name, x.members, Tail(x.expected), x.depth, x.out)
    BY <1>0, <1>3, NowFields DEF NextIn, ExpectNext, ExpectToken
  <2> QED BY <1>0, <1>3, <2>1, <2>2, <2>3, NowFields, RestFacts, LinkedBy
      DEF Go, GoTo, Begun, Ready, SInv
<1>4. CASE ExpectToken /\ ~Matches(Head(p.expected), t) /\ Head(p.expected) # ";"
  <2>1. p' = Remoded(p, "skip") /\ parsed' = parsed
    BY <1>4, <1>0 DEF ExpectToken, Remoded, Reads, Parses, Fails, Matches
  <2>2. p' = Pr(p.pos, "skip", p.kind, p.name, p.members, p.expected, p.depth)
    BY <1>0, <2>1, RemodedIs, Zenon
  <2>3. NextIn(p.mode, x, t) = Go(x, x.rest, "skip")
    BY <1>0, <1>4, NowFields DEF NextIn, ExpectNext, ExpectToken
  <2> QED BY <1>0, <1>4, <2>1, <2>2, <2>3, NowFields, RestFacts, LinkedBy
      DEF Go, GoTo, Begun, Ready, SInv
<1> QED BY <1>1, <1>2, <1>3, <1>4

\* In a body.
LEMMA BodyLinks == ASSUME Ready, Statement PROVE Linked
<1> DEFINE x == Now
           p == parser
           t == Peek
<1>0. p.mode = "body" /\ Shaped(p) /\ Outed(parsed) /\ Parses(p')
  BY Zenon DEF Ready, Reading, Begin, Fails, Reads, Parses, Statement
<1>1. CASE t = "stmt"
  <2>1. p' = Moved(p, Bumped(1)) /\ parsed' = parsed
    BY <1>1, <1>0 DEF Statement, Moved, Reads, Parses, Fails
  <2>2. p' = Pr(Bumped(1), p.mode, p.kind, p.name, p.members, p.expected, p.depth)
    BY <1>0, <2>1, MovedIs, Zenon
  <2>3. NextIn(p.mode, x, t) = Go(x, Drop(x.rest, 1), "body")
    BY <1>0, <1>1, NowFields DEF NextIn, BodyNext, Statement
  <2> QED BY <1>0, <1>1, <2>1, <2>2, <2>3, NowFields, RestFacts, LinkedBy
      DEF Go, GoTo, Begun, Ready, SInv
<1>2. CASE t = "for"
  <2>1. p' = Deeper(p, Bumped(2), p.depth + 1) /\ parsed' = parsed
    BY <1>2, <1>0 DEF Statement, Deeper, Reads, Parses, Fails
  <2>2. p' = Pr(Bumped(2), p.mode, p.kind, p.name, p.members, p.expected, p.depth + 1)
    BY <1>0, <2>1, DeeperIs, Zenon
  <2>3. NextIn(p.mode, x, t) = GoTo(x, Drop(x.rest, 2), "body", x.depth + 1)
    BY <1>0, <1>2, NowFields DEF NextIn, BodyNext, Statement
  <2> QED BY <1>0, <1>2, <2>1, <2>2, <2>3, NowFields, RestFacts, LinkedBy
      DEF Go, GoTo, Begun, Ready, SInv
<1>3. CASE t = "signal input"
  <2>1. p' = Grown(p, Bumped(2), IF p.depth = 1 THEN Append(p.members, Stream[p.pos + 1]) ELSE p.members) /\ parsed' = parsed
    BY <1>3, <1>0 DEF Statement, Grown, Reads, Parses, Fails
  <2>2. p' = Pr(Bumped(2), p.mode, p.kind, p.name, IF p.depth = 1 THEN Append(p.members, Stream[p.pos + 1]) ELSE p.members, p.expected, p.depth)
    BY <1>0, <2>1, GrownIs, Zenon
  <2>3. NextIn(p.mode, x, t) = St(Drop(x.rest, 2), "body", x.kind, x.name,
            IF x.depth = 1 THEN Append(x.members, x.rest[2]) ELSE x.members,
            x.expected, x.depth, x.out)
    BY <1>0, <1>3, NowFields DEF NextIn, BodyNext, Statement
  <2> QED BY <1>0, <1>3, <2>1, <2>2, <2>3, NowFields, RestFacts, LinkedBy, ZenonT(60)
      DEF Go, GoTo, Begun, Ready, SInv
<1>4. CASE t = "component"
  <2>1. p' = PartRead(p, Bumped(1), "expect", PartTokens) /\ parsed' = parsed
    BY <1>4, <1>0 DEF Statement, PartRead, Reads, Parses, Fails, PartTokens
  <2>2. p' = Pr(Bumped(1), "expect", p.kind, p.name, p.members, PartTokens, p.depth)
    BY <1>0, <2>1, PartReadIs, Zenon
  <2>3. NextIn(p.mode, x, t) = St(Drop(x.rest, 1), "expect", x.kind, x.name, x.members, PartTokens, x.depth, x.out)
    BY <1>0, <1>4, NowFields DEF NextIn, BodyNext, Statement
  <2> QED BY <1>0, <1>4, <2>1, <2>2, <2>3, NowFields, RestFacts, LinkedBy
      DEF Go, GoTo, Begun, Ready, SInv
<1>5. CASE t \notin {"stmt", "for", "signal input", "component"}
  <2>1. p' = Remoded(p, "skip") /\ parsed' = parsed
    BY <1>5, <1>0 DEF Statement, Remoded, Reads, Parses, Fails
  <2>2. p' = Pr(p.pos, "skip", p.kind, p.name, p.members, p.expected, p.depth)
    BY <1>0, <2>1, RemodedIs, Zenon
  <2>3. NextIn(p.mode, x, t) = Go(x, x.rest, "skip")
    BY <1>0, <1>5, NowFields DEF NextIn, BodyNext, Statement
  <2> QED BY <1>0, <1>5, <2>1, <2>2, <2>3, NowFields, RestFacts, LinkedBy
      DEF Go, GoTo, Begun, Ready, SInv
<1> QED BY <1>1, <1>2, <1>3, <1>4, <1>5

\* What the parser has found, with one more definition.
WithTemplate(o, v) == [o EXCEPT !.templates = Append(@, v)]
WithFunction(o, v) == [o EXCEPT !.functions = Append(@, v)]
WithBus(o, v) == [o EXCEPT !.buses = Append(@, v)]

\* One template more is found.
LEMMA TemplateMore ==
    ASSUME NEW o, Outed(o), NEW v
    PROVE  WithTemplate(o, v) = Out(Append(o.templates, v), o.functions, o.buses)
<1> DEFINE a == o.templates
           b == o.functions
           c == o.buses
<1>1. o = [templates |-> a, functions |-> b, buses |-> c]
  BY DEF Outed, Out
<1> HIDE DEF a, b, c
<1>2. WithTemplate(o, v) = Out(Append(a, v), b, c)
  BY <1>1 DEF WithTemplate, Out
<1> QED BY <1>2 DEF a, b, c

\* One function more is found.
LEMMA FunctionMore ==
    ASSUME NEW o, Outed(o), NEW v
    PROVE  WithFunction(o, v) = Out(o.templates, Append(o.functions, v), o.buses)
<1> DEFINE a == o.templates
           b == o.functions
           c == o.buses
<1>1. o = [templates |-> a, functions |-> b, buses |-> c]
  BY DEF Outed, Out
<1> HIDE DEF a, b, c
<1>2. WithFunction(o, v) = Out(a, Append(b, v), c)
  BY <1>1 DEF WithFunction, Out
<1> QED BY <1>2 DEF a, b, c

\* One bus more is found.
LEMMA BusMore ==
    ASSUME NEW o, Outed(o), NEW v
    PROVE  WithBus(o, v) = Out(o.templates, o.functions, Append(o.buses, v))
<1> DEFINE a == o.templates
           b == o.functions
           c == o.buses
<1>1. o = [templates |-> a, functions |-> b, buses |-> c]
  BY DEF Outed, Out
<1> HIDE DEF a, b, c
<1>2. WithBus(o, v) = Out(a, b, Append(c, v))
  BY <1>1 DEF WithBus, Out
<1> QED BY <1>2 DEF a, b, c

\* A bus that is complete.
LEMMA BusPushed ==
    ASSUME Ready, PushBus
    PROVE  parsed' = Pushes(Now) /\ Outed(parsed')
<1> DEFINE item == Member
           found == parsed
<1>1. Outed(found) /\ parsed' = WithBus(found, item)
  BY DEF PushBus, WithBus, Ready
<1> HIDE DEF item, found
<1>2. parsed' = Out(found.templates, found.functions, Append(found.buses, item))
  BY <1>1, BusMore
<1> USE DEF item, found
<1>3. Pushes(Now) = Out(parsed.templates, parsed.functions, Append(parsed.buses, Member))
  BY NowFields DEF Pushes, Member
<1> QED BY <1>2, <1>3, OutFields

\* A template or a function that is complete.
LEMMA DefinitionPushed ==
    ASSUME Ready,
           parsed' = IF parser.kind = "template"
                     THEN [parsed EXCEPT !.templates = Append(@, Member)]
                     ELSE [parsed EXCEPT !.functions = Append(@, parser.name)]
    PROVE  parsed' = Defines(Now) /\ Outed(parsed')
<1> DEFINE item == Member
           word == parser.name
           found == parsed
           sort == parser.kind
<1>1. Outed(found) /\ parsed' = IF sort = "template" THEN WithTemplate(found, item) ELSE WithFunction(found, word)
  BY DEF WithTemplate, WithFunction, Ready
<1> HIDE DEF item, word, found, sort
<1>2. parsed' = IF sort = "template" THEN Out(Append(found.templates, item), found.functions, found.buses)
                ELSE Out(found.templates, Append(found.functions, word), found.buses)
  BY <1>1, TemplateMore, FunctionMore
<1> USE DEF item, word, found, sort
<1>3. Defines(Now) = IF parser.kind = "template"
                     THEN Out(Append(parsed.templates, Member), parsed.functions, parsed.buses)
                     ELSE Out(parsed.templates, Append(parsed.functions, parser.name), parsed.buses)
  BY NowFields DEF Defines, Member
<1> QED BY <1>1, <1>2, <1>3, OutFields

\* A depth is never negative.
LEMMA DepthIsNat == ASSUME Ready PROVE parser.depth \in Nat
<1>1. TextOK /\ GoodParser(parser)
  BY DEF Ready, SInv
<1>2. parser.pos \in Nat
  BY <1>1, BumpedFacts
<1>3. parser.depth \in 0 .. parser.pos
  BY <1>1, Zenon DEF GoodParser
<1> QED BY <1>2, <1>3

\* At the end of a block.
LEMMA BlockLinks == ASSUME Ready, EndBlock PROVE Linked
<1> DEFINE x == Now
           p == parser
           t == Peek
<1>0. p.mode = "body" /\ Shaped(p) /\ Outed(parsed) /\ Parses(p')
  BY DEF Ready, Reading, Begin, Fails, Reads, Parses, EndBlock
<1>a. p.depth \in Nat
  BY DepthIsNat
<1>b. p.depth = 0 => ~(p.depth > 0)
  BY <1>a
<1>1. CASE p.depth > 1
  <2>1. p' = Deeper(p, Bumped(1), p.depth - 1) /\ parsed' = parsed
    BY <1>1, <1>0, <1>a DEF EndBlock, Deeper, Reads, Parses, Finish
  <2>2. p' = Pr(Bumped(1), p.mode, p.kind, p.name, p.members, p.expected, p.depth - 1)
    BY <1>0, <2>1, DeeperIs, Zenon
  <2>3. NextIn(p.mode, x, t) = GoTo(x, Drop(x.rest, 1), "body", x.depth - 1)
    BY <1>0, <1>a, <1>1, NowFields DEF NextIn, BodyNext, EndBlock
  <2> QED BY <1>0, <1>1, <2>1, <2>2, <2>3, NowFields, RestFacts, LinkedBy
      DEF Go, GoTo, Pushed, Ready, SInv
<1>2. CASE ~(p.depth > 1)
  <2>1. p' = MovedTo(p, Bumped(1), "top")
    BY <1>2, <1>0, <1>a DEF EndBlock, MovedTo, Reads, Parses, Finish
  <2>2. p' = Pr(Bumped(1), "top", p.kind, p.name, p.members, p.expected, p.depth)
    BY <1>0, <2>1, MovedToIs, Zenon
  <2>3. NextIn(p.mode, x, t) = St(Drop(x.rest, 1), "top", x.kind, x.name, x.members, x.expected, x.depth,
            Defines(x))
    BY <1>0, <1>a, <1>2, NowFields DEF NextIn, BodyNext, EndBlock
  <2>4. parsed' = Defines(x) /\ Outed(parsed')
    BY <1>2, DefinitionPushed DEF EndBlock
  <2> QED BY <1>0, <1>2, <2>1, <2>2, <2>3, <2>4, NowFields, RestFacts, LinkedBy
      DEF Go, GoTo, Pushed, Ready, SInv
<1> QED BY <1>1, <1>2

\* At the name of a bus.
LEMMA BusNameLinks == ASSUME Ready, BusName PROVE Linked
<1> DEFINE x == Now
           p == parser
           t == Peek
<1>0. p.mode = "bus name" /\ Shaped(p) /\ Outed(parsed) /\ Parses(p')
  BY DEF Ready, Reading, Begin, Fails, Reads, Parses, BusName
<1>a. p.depth \in Nat
  BY DepthIsNat
<1>b. p.depth = 0 => ~(p.depth > 0)
  BY <1>a
<1>1. CASE IsName(t)
  <2>1. p' = NamedTo(p, Bumped(1), t, "parens") /\ parsed' = parsed
    BY <1>1, <1>0, <1>a DEF BusName, NamedTo, Reads, Parses, Finish
  <2>2. p' = Pr(Bumped(1), "parens", p.kind, t, p.members, p.expected, p.depth)
    BY <1>0, <2>1, NamedToIs, Zenon
  <2>3. NextIn(p.mode, x, t) = St(Drop(x.rest, 1), "parens", x.kind, t, x.members, x.expected, x.depth, x.out)
    BY <1>0, <1>a, <1>1, NowFields DEF NextIn, BusNameNext, BusName
  <2> QED BY <1>0, <1>1, <2>1, <2>2, <2>3, NowFields, RestFacts, LinkedBy
      DEF Go, GoTo, Pushed, Ready, SInv
<1>2. CASE ~IsName(t)
  <2>1. p' = Remoded(p, "top") /\ parsed' = parsed
    BY <1>2, <1>0, <1>a DEF BusName, Remoded, Reads, Parses, Finish
  <2>2. p' = Pr(p.pos, "top", p.kind, p.name, p.members, p.expected, p.depth)
    BY <1>0, <2>1, RemodedIs, Zenon
  <2>3. NextIn(p.mode, x, t) = Go(x, x.rest, "top")
    BY <1>0, <1>a, <1>2, NowFields DEF NextIn, BusNameNext, BusName
  <2> QED BY <1>0, <1>2, <2>1, <2>2, <2>3, NowFields, RestFacts, LinkedBy
      DEF Go, GoTo, Pushed, Ready, SInv
<1> QED BY <1>1, <1>2

\* In the parameters of a bus.
LEMMA ParensLinks == ASSUME Ready, BusParameters PROVE Linked
<1> DEFINE x == Now
           p == parser
           t == Peek
<1>0. p.mode = "parens" /\ Shaped(p) /\ Outed(parsed) /\ Parses(p')
  BY DEF Ready, Reading, Begin, Fails, Reads, Parses, BusParameters
<1>a. p.depth \in Nat
  BY DepthIsNat
<1>b. p.depth = 0 => ~(p.depth > 0)
  BY <1>a
<1>1. CASE t = "("
  <2>1. p' = Deeper(p, Bumped(1), p.depth + 1) /\ parsed' = parsed
    BY <1>1, <1>0, <1>a DEF BusParameters, Deeper, Reads, Parses, Finish
  <2>2. p' = Pr(Bumped(1), p.mode, p.kind, p.name, p.members, p.expected, p.depth + 1)
    BY <1>0, <2>1, DeeperIs, Zenon
  <2>3. NextIn(p.mode, x, t) = GoTo(x, Drop(x.rest, 1), "parens", x.depth + 1)
    BY <1>0, <1>a, <1>1, NowFields DEF NextIn, ParensNext, BusParameters
  <2> QED BY <1>0, <1>1, <2>1, <2>2, <2>3, NowFields, RestFacts, LinkedBy
      DEF Go, GoTo, Pushed, Ready, SInv
<1>2. CASE t = ")" /\ p.depth > 0
  <2>1. p' = DeeperTo(p, Bumped(1), p.depth - 1, IF p.depth = 1 THEN "bus body" ELSE p.mode) /\ parsed' = parsed
    BY <1>2, <1>0, <1>b, Zenon DEF BusParameters, DeeperTo, Reads, Parses, Finish
  <2>2. p' = Pr(Bumped(1), IF p.depth = 1 THEN "bus body" ELSE p.mode, p.kind, p.name, p.members, p.expected, p.depth - 1)
    BY <1>0, <2>1, DeeperToIs, Zenon
  <2>3. NextIn(p.mode, x, t) = GoTo(x, Drop(x.rest, 1), IF x.depth = 1 THEN "bus body" ELSE "parens", x.depth - 1)
    BY <1>0, <1>a, <1>2, NowFields DEF NextIn, ParensNext, BusParameters
  <2> QED BY <1>0, <1>2, <2>1, <2>2, <2>3, NowFields, RestFacts, LinkedBy
      DEF Go, GoTo, Pushed, Ready, SInv
<1>3. CASE t # "(" /\ (p.depth = 0 \/ t = "eof")
  <2>1. p' = Remoded(p, "bus body") /\ parsed' = parsed
    BY <1>3, <1>0, <1>b, Zenon DEF BusParameters, Remoded, Reads, Parses, Finish
  <2>2. p' = Pr(p.pos, "bus body", p.kind, p.name, p.members, p.expected, p.depth)
    BY <1>0, <2>1, RemodedIs, Zenon
  <2>3. NextIn(p.mode, x, t) = Go(x, x.rest, "bus body")
    BY <1>0, <1>b, <1>3, NowFields, Zenon DEF NextIn, ParensNext, BusParameters
  <2> QED BY <1>0, <1>3, <2>1, <2>2, <2>3, NowFields, RestFacts, LinkedBy
      DEF Go, GoTo, Pushed, Ready, SInv
<1>4. CASE t # "(" /\ t # "eof" /\ p.depth # 0 /\ ~(t = ")" /\ p.depth > 0)
  <2>1. p' = Moved(p, Bumped(1)) /\ parsed' = parsed
    BY <1>4, <1>0, <1>a DEF BusParameters, Moved, Reads, Parses, Finish
  <2>2. p' = Pr(Bumped(1), p.mode, p.kind, p.name, p.members, p.expected, p.depth)
    BY <1>0, <2>1, MovedIs, Zenon
  <2>3. NextIn(p.mode, x, t) = Go(x, Drop(x.rest, 1), "parens")
    BY <1>0, <1>a, <1>4, NowFields DEF NextIn, ParensNext, BusParameters
  <2> QED BY <1>0, <1>4, <2>1, <2>2, <2>3, NowFields, RestFacts, LinkedBy
      DEF Go, GoTo, Pushed, Ready, SInv
<1> QED BY <1>1, <1>2, <1>3, <1>4

\* At the body of a bus.
LEMMA BusBodyLinks == ASSUME Ready, BusBody PROVE Linked
<1> DEFINE x == Now
           p == parser
           t == Peek
<1>0. p.mode = "bus body" /\ Shaped(p) /\ Outed(parsed) /\ Parses(p')
  BY DEF Ready, Reading, Begin, Fails, Reads, Parses, BusBody
<1>a. p.depth \in Nat
  BY DepthIsNat
<1>b. p.depth = 0 => ~(p.depth > 0)
  BY <1>a
<1>1. CASE t = "{"
  <2>1. p' = DeeperTo(p, Bumped(1), 1, "fields") /\ parsed' = parsed
    BY <1>1, <1>0, <1>a DEF BusBody, DeeperTo, Reads, Parses, Finish
  <2>2. p' = Pr(Bumped(1), "fields", p.kind, p.name, p.members, p.expected, 1)
    BY <1>0, <2>1, DeeperToIs, Zenon
  <2>3. NextIn(p.mode, x, t) = GoTo(x, Drop(x.rest, 1), "fields", 1)
    BY <1>0, <1>a, <1>1, NowFields DEF NextIn, BusBodyNext, BusBody
  <2> QED BY <1>0, <1>1, <2>1, <2>2, <2>3, NowFields, RestFacts, LinkedBy
      DEF Go, GoTo, Pushed, Ready, SInv
<1>2. CASE t # "{"
  <2>1. p' = Remoded(p, "top")
    BY <1>2, <1>0, <1>a DEF BusBody, Remoded, Reads, Parses, Finish
  <2>2. p' = Pr(p.pos, "top", p.kind, p.name, p.members, p.expected, p.depth)
    BY <1>0, <2>1, RemodedIs, Zenon
  <2>3. NextIn(p.mode, x, t) = Pushed(x, x.rest)
    BY <1>0, <1>a, <1>2, NowFields DEF NextIn, BusBodyNext, BusBody
  <2>4. parsed' = Pushes(x) /\ Outed(parsed')
    BY <1>2, BusPushed DEF BusBody
  <2> QED BY <1>0, <1>2, <2>1, <2>2, <2>3, <2>4, NowFields, RestFacts, LinkedBy
      DEF Go, GoTo, Pushed, Ready, SInv
<1> QED BY <1>1, <1>2

\* Between the fields of a bus.
LEMMA FieldLinks == ASSUME Ready, BusField PROVE Linked
<1> DEFINE x == Now
           p == parser
           t == Peek
<1>0. p.mode = "fields" /\ Shaped(p) /\ Outed(parsed) /\ Parses(p')
  BY DEF Ready, Reading, Begin, Fails, Reads, Parses, BusField
<1>a. p.depth \in Nat
  BY DepthIsNat
<1>b. p.depth = 0 => ~(p.depth > 0)
  BY <1>a
<1>1. CASE t = "eof"
  <2>1. p' = Remoded(p, "top")
    BY <1>1, <1>0, <1>a DEF BusField, Remoded, Reads, Parses, Finish
  <2>2. p' = Pr(p.pos, "top", p.kind, p.name, p.members, p.expected, p.depth)
    BY <1>0, <2>1, RemodedIs, Zenon
  <2>3. NextIn(p.mode, x, t) = Pushed(x, x.rest)
    BY <1>0, <1>a, <1>1, NowFields DEF NextIn, FieldNext, BusField
  <2>4. parsed' = Pushes(x) /\ Outed(parsed')
    BY <1>1, BusPushed DEF BusField
  <2> QED BY <1>0, <1>1, <2>1, <2>2, <2>3, <2>4, NowFields, RestFacts, LinkedBy
      DEF Go, GoTo, Pushed, Ready, SInv
<1>2. CASE t = "}" /\ p.depth = 1
  <2>1. p' = MovedTo(p, Bumped(1), "top")
    BY <1>2, <1>0, <1>a DEF BusField, MovedTo, Reads, Parses, Finish
  <2>2. p' = Pr(Bumped(1), "top", p.kind, p.name, p.members, p.expected, p.depth)
    BY <1>0, <2>1, MovedToIs, Zenon
  <2>3. NextIn(p.mode, x, t) = Pushed(x, Drop(x.rest, 1))
    BY <1>0, <1>a, <1>2, NowFields DEF NextIn, FieldNext, BusField
  <2>4. parsed' = Pushes(x) /\ Outed(parsed')
    BY <1>2, BusPushed DEF BusField
  <2> QED BY <1>0, <1>2, <2>1, <2>2, <2>3, <2>4, NowFields, RestFacts, LinkedBy
      DEF Go, GoTo, Pushed, Ready, SInv
<1>3. CASE t = "{"
  <2>1. p' = Deeper(p, Bumped(1), p.depth + 1) /\ parsed' = parsed
    BY <1>3, <1>0, <1>a DEF BusField, Deeper, Reads, Parses, Finish
  <2>2. p' = Pr(Bumped(1), p.mode, p.kind, p.name, p.members, p.expected, p.depth + 1)
    BY <1>0, <2>1, DeeperIs, Zenon
  <2>3. NextIn(p.mode, x, t) = GoTo(x, Drop(x.rest, 1), "fields", x.depth + 1)
    BY <1>0, <1>a, <1>3, NowFields DEF NextIn, FieldNext, BusField
  <2> QED BY <1>0, <1>3, <2>1, <2>2, <2>3, NowFields, RestFacts, LinkedBy
      DEF Go, GoTo, Pushed, Ready, SInv
<1>4. CASE t = "}" /\ p.depth # 1
  <2>1. p' = Deeper(p, Bumped(1), p.depth - 1) /\ parsed' = parsed
    BY <1>4, <1>0, <1>a DEF BusField, Deeper, Reads, Parses, Finish
  <2>2. p' = Pr(Bumped(1), p.mode, p.kind, p.name, p.members, p.expected, p.depth - 1)
    BY <1>0, <2>1, DeeperIs, Zenon
  <2>3. NextIn(p.mode, x, t) = GoTo(x, Drop(x.rest, 1), "fields", x.depth - 1)
    BY <1>0, <1>a, <1>4, NowFields DEF NextIn, FieldNext, BusField
  <2> QED BY <1>0, <1>4, <2>1, <2>2, <2>3, NowFields, RestFacts, LinkedBy
      DEF Go, GoTo, Pushed, Ready, SInv
<1>5. CASE t = "signal" /\ p.depth = 1
  <2>1. p' = MovedTo(p, Bumped(1), "field name") /\ parsed' = parsed
    BY <1>5, <1>0, <1>a DEF BusField, MovedTo, Reads, Parses, Finish
  <2>2. p' = Pr(Bumped(1), "field name", p.kind, p.name, p.members, p.expected, p.depth)
    BY <1>0, <2>1, MovedToIs, Zenon
  <2>3. NextIn(p.mode, x, t) = Go(x, Drop(x.rest, 1), "field name")
    BY <1>0, <1>a, <1>5, NowFields DEF NextIn, FieldNext, BusField
  <2> QED BY <1>0, <1>5, <2>1, <2>2, <2>3, NowFields, RestFacts, LinkedBy
      DEF Go, GoTo, Pushed, Ready, SInv
<1>6. CASE t \notin {"eof", "{", "}"} /\ ~(t = "signal" /\ p.depth = 1)
  <2>1. p' = Moved(p, Bumped(1)) /\ parsed' = parsed
    BY <1>6, <1>0, <1>a DEF BusField, Moved, Reads, Parses, Finish
  <2>2. p' = Pr(Bumped(1), p.mode, p.kind, p.name, p.members, p.expected, p.depth)
    BY <1>0, <2>1, MovedIs, Zenon
  <2>3. NextIn(p.mode, x, t) = Go(x, Drop(x.rest, 1), "fields")
    BY <1>0, <1>a, <1>6, NowFields DEF NextIn, FieldNext, BusField
  <2> QED BY <1>0, <1>6, <2>1, <2>2, <2>3, NowFields, RestFacts, LinkedBy
      DEF Go, GoTo, Pushed, Ready, SInv
<1> QED BY <1>1, <1>2, <1>3, <1>4, <1>5, <1>6

\* At the name of a field.
LEMMA FieldNameLinks == ASSUME Ready, BusFieldName PROVE Linked
<1> DEFINE x == Now
           p == parser
           t == Peek
<1>0. p.mode = "field name" /\ Shaped(p) /\ Outed(parsed) /\ Parses(p')
  BY DEF Ready, Reading, Begin, Fails, Reads, Parses, BusFieldName
<1>a. p.depth \in Nat
  BY DepthIsNat
<1>b. p.depth = 0 => ~(p.depth > 0)
  BY <1>a
<1>1. CASE IsName(t)
  <2>1. p' = GrownTo(p, Bumped(1), Append(p.members, t), "field rest") /\ parsed' = parsed
    BY <1>1, <1>0, <1>a DEF BusFieldName, GrownTo, Reads, Parses, Finish
  <2>2. p' = Pr(Bumped(1), "field rest", p.kind, p.name, Append(p.members, t), p.expected, p.depth)
    BY <1>0, <2>1, GrownToIs, Zenon
  <2>3. NextIn(p.mode, x, t) = St(Drop(x.rest, 1), "field rest", x.kind, x.name, Append(x.members, t), x.expected,
            x.depth, x.out)
    BY <1>0, <1>a, <1>1, NowFields DEF NextIn, FieldNameNext, BusFieldName
  <2> QED BY <1>0, <1>1, <2>1, <2>2, <2>3, NowFields, RestFacts, LinkedBy
      DEF Go, GoTo, Pushed, Ready, SInv
<1>2. CASE ~IsName(t)
  <2>1. p' = Remoded(p, "fields") /\ parsed' = parsed
    BY <1>2, <1>0, <1>a DEF BusFieldName, Remoded, Reads, Parses, Finish
  <2>2. p' = Pr(p.pos, "fields", p.kind, p.name, p.members, p.expected, p.depth)
    BY <1>0, <2>1, RemodedIs, Zenon
  <2>3. NextIn(p.mode, x, t) = Go(x, x.rest, "fields")
    BY <1>0, <1>a, <1>2, NowFields DEF NextIn, FieldNameNext, BusFieldName
  <2> QED BY <1>0, <1>2, <2>1, <2>2, <2>3, NowFields, RestFacts, LinkedBy
      DEF Go, GoTo, Pushed, Ready, SInv
<1> QED BY <1>1, <1>2

\* Behind the name of a field.
LEMMA FieldRestLinks == ASSUME Ready, BusFieldRest PROVE Linked
<1> DEFINE x == Now
           p == parser
           t == Peek
<1>0. p.mode = "field rest" /\ Shaped(p) /\ Outed(parsed) /\ Parses(p')
  BY DEF Ready, Reading, Begin, Fails, Reads, Parses, BusFieldRest
<1>a. p.depth \in Nat
  BY DepthIsNat
<1>b. p.depth = 0 => ~(p.depth > 0)
  BY <1>a
<1>1. CASE t = ";"
  <2>1. p' = MovedTo(p, Bumped(1), "fields") /\ parsed' = parsed
    BY <1>1, <1>0, <1>a DEF BusFieldRest, MovedTo, Reads, Parses, Finish
  <2>2. p' = Pr(Bumped(1), "fields", p.kind, p.name, p.members, p.expected, p.depth)
    BY <1>0, <2>1, MovedToIs, Zenon
  <2>3. NextIn(p.mode, x, t) = Go(x, Drop(x.rest, 1), "fields")
    BY <1>0, <1>a, <1>1, NowFields DEF NextIn, FieldRestNext, BusFieldRest
  <2> QED BY <1>0, <1>1, <2>1, <2>2, <2>3, NowFields, RestFacts, LinkedBy
      DEF Go, GoTo, Pushed, Ready, SInv
<1>2. CASE t = "eof"
  <2>1. p' = MovedTo(p, p.pos, "fields") /\ parsed' = parsed
    BY <1>2, <1>0, <1>a DEF BusFieldRest, MovedTo, Reads, Parses, Finish
  <2>2. p' = Pr(p.pos, "fields", p.kind, p.name, p.members, p.expected, p.depth)
    BY <1>0, <2>1, MovedToIs, Zenon
  <2>3. NextIn(p.mode, x, t) = Go(x, x.rest, "fields")
    BY <1>0, <1>a, <1>2, NowFields DEF NextIn, FieldRestNext, BusFieldRest
  <2> QED BY <1>0, <1>2, <2>1, <2>2, <2>3, NowFields, RestFacts, LinkedBy
      DEF Go, GoTo, Pushed, Ready, SInv
<1>3. CASE t \notin {";", "eof"}
  <2>1. p' = Moved(p, Bumped(1)) /\ parsed' = parsed
    BY <1>3, <1>0, <1>a DEF BusFieldRest, Moved, Reads, Parses, Finish
  <2>2. p' = Pr(Bumped(1), p.mode, p.kind, p.name, p.members, p.expected, p.depth)
    BY <1>0, <2>1, MovedIs, Zenon
  <2>3. NextIn(p.mode, x, t) = Go(x, Drop(x.rest, 1), "field rest")
    BY <1>0, <1>a, <1>3, NowFields DEF NextIn, FieldRestNext, BusFieldRest
  <2> QED BY <1>0, <1>3, <2>1, <2>2, <2>3, NowFields, RestFacts, LinkedBy
      DEF Go, GoTo, Pushed, Ready, SInv
<1> QED BY <1>1, <1>2, <1>3

\* Every step of the parser but the last is one of the machine.
LEMMA ParserLinks ==
    ASSUME Ready, ParseTop \/ ParseBody \/ ParseBus, ~EndParser
    PROVE  Linked
BY TopLinks, EatLinks, SkipLinks, ModifierLinks, ExpectLinks, BodyLinks, BlockLinks, BusNameLinks,
   ParensLinks, BusBodyLinks, FieldLinks, FieldNameLinks, FieldRestLinks, Zenon
   DEF ParseTop, ParseBody, ParseBus

---------------------------------------------------------------------------
\* Ways of the machine over a list of tokens.

\* A list of steps is a way.
LEMMA LeadsAlong ==
    ASSUME NEW N \in Nat, NEW s, \A i \in 1 .. N : Leads(s[i - 1], s[i])
    PROVE  Leads(s[0], s[N])
<1> DEFINE S == {i \in Nat : i <= N => Leads(s[0], s[i])}
<1>1. 0 \in S
  BY LeadsHere
<1>2. \A i \in Nat : i \in S => i + 1 \in S
  <2> SUFFICES ASSUME NEW i \in Nat, i \in S, i + 1 <= N PROVE Leads(s[0], s[i + 1])
    OBVIOUS
  <2>1. i + 1 \in 1 .. N /\ (i + 1) - 1 = i /\ Leads(s[0], s[i])
    OBVIOUS
  <2>2. Leads(s[i], s[i + 1])
    BY <2>1
  <2> QED BY <2>1, <2>2, LeadsJoined, Zenon
<1> HIDE DEF S
<1>3. N \in S
  BY <1>1, <1>2, Induction
<1> QED BY <1>3 DEF S

\* What may be left of a stream, and what may follow a fragment.
More == {z \in Seq(Token) : z # <<>>}
Tails == {z \in More : Head(z) # "("}

\* A list of tokens with one more in front, or two.
LEMMA OneInFront ==
    ASSUME NEW t \in Token, NEW z \in More
    PROVE  /\ <<t>> \o z \in More /\ Head(<<t>> \o z) = t /\ Drop(<<t>> \o z, 1) = z
<1>1. z \in Seq(Token) /\ z # <<>>
  BY DEF More
<1>2. /\ <<t>> \o z \in Seq(Token) /\ <<t>> \o z # <<>> /\ Head(<<t>> \o z) = t
      /\ Len(<<t>> \o z) = 1 + Len(z) /\ Len(z) > 0 /\ Len(z) \in Nat
  BY <1>1
<1>3. SubSeq(<<t>> \o z, 2, Len(<<t>> \o z)) = z
  BY <1>1
<1> DEFINE r == <<t>> \o z
<1>4. Len(r) > 1 /\ 1 + 1 = 2
  BY <1>2
<1>5. r \in More
  BY <1>2 DEF More
<1>6. Drop(r, 1) = SubSeq(r, 2, Len(r))
  BY <1>4, Zenon DEF Drop
<1> QED BY <1>2, <1>3, <1>5, <1>6, Zenon

\* The second of two tokens in front, and what is behind them.
LEMMA TwoInFront ==
    ASSUME NEW t \in Token, NEW u \in Token, NEW z \in More
    PROVE  LET r == <<t>> \o (<<u>> \o z)
           IN  r[2] = u /\ Drop(r, 2) = z
<1> DEFINE v == <<u>> \o z
           r == <<t>> \o v
<1>1. z \in Seq(Token) /\ z # <<>>
  BY DEF More
<1>2. v \in Seq(Token) /\ Len(v) = 1 + Len(z) /\ v[1] = u /\ Len(z) > 0 /\ Len(z) \in Nat
  BY <1>1
<1>3. r[2] = u /\ Len(r) = 2 + Len(z) /\ r \in Seq(Token)
  BY <1>2
<1>4. \A i \in 1 .. Len(z) : v[i + 1] = z[i]
  BY <1>1
<1>5. \A i \in 1 .. Len(v) : r[i + 1] = v[i]
  BY <1>2
<1>6. SubSeq(r, 3, Len(r)) \in Seq(Token) /\ Len(SubSeq(r, 3, Len(r))) = Len(z)
      /\ \A i \in 1 .. Len(z) : SubSeq(r, 3, Len(r))[i] = r[(i + 1) + 1]
  <2> HIDE DEF r, v
  <2> QED BY <1>2, <1>3
<1>7. \A i \in 1 .. Len(z) : SubSeq(r, 3, Len(r))[i] = z[i]
  <2> HIDE DEF r, v
  <2> QED BY <1>2, <1>4, <1>5, <1>6
<1>8. SubSeq(r, 3, Len(r)) = z
  <2> HIDE DEF r, v
  <2> QED BY <1>1, <1>6, <1>7, SameElements
<1>9. Len(r) > 2 /\ 2 + 1 = 3
  BY <1>2, <1>3
<1> QED BY <1>3, <1>8, <1>9 DEF Drop

\* What is left behind the first tokens of a list.
LEMMA HeadOff ==
    ASSUME NEW T, NEW a \in Seq(T), NEW j \in 1 .. Len(a)
    PROVE  /\ SubSeq(a, j, Len(a)) = <<a[j]>> \o SubSeq(a, j + 1, Len(a)) /\ a[j] \in T
           /\ SubSeq(a, j + 1, Len(a)) \in Seq(T)
<1> DEFINE s == SubSeq(a, j, Len(a))
           u == SubSeq(a, j + 1, Len(a))
           v == <<a[j]>> \o u
<1>1. Len(a) \in Nat /\ a[j] \in T
  OBVIOUS
<1>2. /\ s \in Seq(T) /\ Len(s) = Len(a) - j + 1
      /\ \A i \in 1 .. Len(s) : s[i] = a[j + i - 1]
  BY <1>1
<1>3. /\ u \in Seq(T) /\ Len(u) = Len(a) - j
      /\ \A i \in 1 .. Len(u) : u[i] = a[j + i]
  BY <1>1
<1>4. /\ v \in Seq(T) /\ Len(v) = 1 + Len(u) /\ v[1] = a[j]
      /\ \A i \in 1 .. Len(u) : v[1 + i] = u[i]
  <2> HIDE DEF u
  <2> QED BY <1>1, <1>3
<1> HIDE DEF s, u, v
<1>5. \A i \in 1 .. Len(s) : s[i] = v[i]
  <2> SUFFICES ASSUME NEW i \in 1 .. Len(s) PROVE s[i] = v[i]
    OBVIOUS
  <2>1. CASE i = 1
    BY <1>1, <1>2, <1>4, <2>1
  <2>2. CASE i # 1
    <3>1. i - 1 \in 1 .. Len(u) /\ 1 + (i - 1) = i /\ j + (i - 1) = j + i - 1
      BY <1>1, <1>2, <1>3, <2>2
    <3> QED BY <1>2, <1>3, <1>4, <3>1
  <2> QED BY <2>1, <2>2
<1>6. Len(s) = Len(v)
  BY <1>1, <1>2, <1>3, <1>4
<1> QED BY <1>1, <1>2, <1>3, <1>4, <1>5, <1>6, SameElements DEF s, u, v

\* The whole of a sequence and what is behind it.
LEMMA AllAndNone ==
    ASSUME NEW T, NEW a \in Seq(T)
    PROVE  SubSeq(a, 1, Len(a)) = a /\ SubSeq(a, Len(a) + 1, Len(a)) = <<>>
OBVIOUS

\* One step that is known.
LEMMA OneStep ==
    ASSUME NEW x, NEW y, NEW t \in Token, NEW z \in More, x.rest = <<t>> \o z,
           x.mode # "top" \/ t # "eof", NextIn(x.mode, x, t) = y
    PROVE  Leads(x, y)
<1>1. Head(x.rest) = t
  BY OneInFront, Zenon
<1>2. Succ(x) = y /\ ~AtEnd(x)
  BY <1>1, Zenon DEF Succ, AtEnd
<1> QED BY <1>2, LeadsHere, LeadsOn, Zenon

\* The fields of a reading that has gone elsewhere.
LEMMA GoFields ==
    ASSUME NEW y, NEW r, NEW m, NEW x, x = Go(y, r, m)
    PROVE  /\ x.rest = r /\ x.mode = m /\ x.kind = y.kind /\ x.name = y.name /\ x.members = y.members
           /\ x.expected = y.expected /\ x.depth = y.depth /\ x.out = y.out
           /\ \A s, q : Go(x, s, q) = Go(y, s, q)
BY DEF Go, St

\* The tokens a reading passes and stays what it is.
Quiet(m, t) ==
    \/ m = "top" /\ t \notin {"template", "function", "bus", "pragma", "include", "component", "eof"}
    \/ m = "eat" /\ t \notin {";", "eof"}
    \/ m = "modifiers" /\ t \in Modifiers
    \/ m = "skip" /\ ~Resumes(t)

\* A quiet token is passed over.
LEMMA PassesOne ==
    ASSUME NEW y, NEW m, NEW t \in Token, NEW z \in More, Quiet(m, t)
    PROVE  Leads(Go(y, <<t>> \o z, m), Go(y, z, m))
<1> DEFINE r == <<t>> \o z
           x == Go(y, r, m)
<1>0. x = Go(y, r, m) /\ Drop(r, 1) = z
  BY OneInFront
<1> HIDE DEF x, r
<1>1. x.rest = r /\ x.mode = m /\ Go(x, z, m) = Go(y, z, m) /\ Drop(x.rest, 1) = z
  <2>1. x.rest = r /\ x.mode = m /\ \A s, q : Go(x, s, q) = Go(y, s, q)
    BY <1>0, GoFields
  <2> QED BY <1>0, <2>1
<1>2. NextIn(m, x, t) = Go(x, Drop(x.rest, 1), m) /\ (m # "top" \/ t # "eof")
  BY DEF Quiet, NextIn, TopNext, EatNext, ModifierNext, SkipNext
<1>3. NextIn(x.mode, x, t) = Go(y, z, m)
  BY <1>1, <1>2, Zenon
<1>4. Leads(x, Go(y, z, m))
  BY <1>1, <1>2, <1>3, OneStep DEF r
<1> QED BY <1>4 DEF x, r

\* A list of quiet tokens is passed over.
LEMMA PassesAll ==
    ASSUME NEW y, NEW m, NEW a \in Seq(Token), NEW z \in More,
           \A i \in 1 .. Len(a) : Quiet(m, a[i])
    PROVE  Leads(Go(y, a \o z, m), Go(y, z, m))
<1> DEFINE N == Len(a)
           left(i) == SubSeq(a, i + 1, N)
           s == [i \in 0 .. N |-> Go(y, left(i) \o z, m)]
<1>1. N \in Nat /\ z \in Seq(Token) /\ z # <<>>
  BY DEF More
<1>2. ASSUME NEW i \in 1 .. N PROVE Leads(s[i - 1], s[i])
  <2> DEFINE u == left(i) \o z
             t == a[i]
  <2>1. left(i - 1) = <<t>> \o left(i) /\ t \in Token /\ left(i) \in Seq(Token)
    <3>1. (i - 1) + 1 = i
      OBVIOUS
    <3> QED BY <3>1, HeadOff
  <2>2. <<t>> \in Seq(Token) /\ u \in More
    <3> HIDE DEF left, t
    <3>1. u \in Seq(Token) /\ u # <<>>
      BY <1>1, <2>1
    <3> QED BY <2>1, <3>1 DEF More
  <2>3. left(i - 1) \o z = <<t>> \o u
    <3> HIDE DEF left, t
    <3>1. (<<t>> \o left(i)) \o z = <<t>> \o (left(i) \o z)
      BY <1>1, <2>1, <2>2, Associative, SMTT(30)
    <3> QED BY <2>1, <3>1
  <2>4. s[i - 1] = Go(y, <<t>> \o u, m) /\ s[i] = Go(y, u, m)
    <3>1. i - 1 \in 0 .. N /\ i \in 0 .. N
      BY <1>1
    <3> HIDE DEF left, N, t
    <3>2. s[i - 1] = Go(y, left(i - 1) \o z, m) /\ s[i] = Go(y, left(i) \o z, m)
      BY <3>1
    <3> QED BY <2>3, <3>2
  <2> HIDE DEF s, u, left
  <2>5. Quiet(m, t)
    OBVIOUS
  <2> HIDE DEF t
  <2> QED BY <2>1, <2>2, <2>4, <2>5, PassesOne
<1>3. s[0] = Go(y, a \o z, m) /\ s[N] = Go(y, z, m)
  <2>1. left(0) = a /\ left(N) = <<>> /\ 0 \in 0 .. N /\ N \in 0 .. N
    BY <1>1, AllAndNone
  <2>2. <<>> \o z = z
    BY <1>1, EmptyEnd
  <2> HIDE DEF left, N
  <2> QED BY <2>1, <2>2
<1> HIDE DEF s, N
<1> QED BY <1>1, <1>2, <1>3, LeadsAlong

---------------------------------------------------------------------------
\* Ways through the parts of a definition.

\* One step from where the machine is not at its end.
LEMMA StepAt ==
    ASSUME NEW x, NEW y, x.mode # "top" \/ Head(x.rest) # "eof",
           NextIn(x.mode, x, Head(x.rest)) = y
    PROVE  Leads(x, y)
<1>1. Succ(x) = y /\ ~AtEnd(x)
  BY Zenon DEF Succ, AtEnd
<1> QED BY <1>1, LeadsHere, LeadsOn, Zenon

\* A reading that wants the tokens e next.
Wanting(y, z, e) == St(z, "expect", y.kind, y.name, y.members, e, y.depth, y.out)

\* The fields of such a state.
LEMMA WantingFields ==
    ASSUME NEW y, NEW z, NEW e, NEW x, x = Wanting(y, z, e)
    PROVE  /\ x.rest = z /\ x.mode = "expect" /\ x.kind = y.kind /\ x.name = y.name
           /\ x.members = y.members /\ x.expected = e /\ x.depth = y.depth /\ x.out = y.out
BY DEF Wanting, St

Wants == Token \cup {"part", "name"}

\* An expected token that is there is passed over.
LEMMA ExpectsOne ==
    ASSUME NEW y, NEW t \in Token, NEW z \in More, NEW w \in Wants, NEW e \in Seq(Wants),
           w # "name", Matches(w, t)
    PROVE  Leads(Wanting(y, <<t>> \o z, <<w>> \o e), Wanting(y, z, e))
<1> DEFINE r == <<t>> \o z
           v == <<w>> \o e
           x == Wanting(y, r, v)
<1>1. v # <<>> /\ Head(v) = w /\ Tail(v) = e
  OBVIOUS
<1>2. Drop(r, 1) = z
  BY OneInFront
<1>0. x = Wanting(y, r, v)
  OBVIOUS
<1> HIDE DEF x, v, r
<1>3. /\ x.rest = r /\ x.mode = "expect" /\ x.kind = y.kind /\ x.name = y.name
      /\ x.members = y.members /\ x.expected = v /\ x.depth = y.depth /\ x.out = y.out
  BY <1>0, WantingFields
<1>4. NextIn(x.mode, x, t) = ExpectNext(x, t)
  BY <1>3 DEF NextIn
<1>5. ExpectNext(x, t) = St(Drop(x.rest, 1), "expect", x.kind, x.name, x.members, Tail(x.expected),
                            x.depth, x.out)
  BY <1>1, <1>3, Zenon DEF ExpectNext
<1>6. NextIn(x.mode, x, t) = Wanting(y, z, e)
  BY <1>1, <1>2, <1>3, <1>4, <1>5 DEF Wanting
<1>7. Leads(x, Wanting(y, z, e))
  BY <1>3, <1>6, OneStep DEF r
<1> QED BY <1>7 DEF x, v, r

\* A list of expected tokens is passed over.
LEMMA ExpectsAll ==
    ASSUME NEW y, NEW a \in Seq(Token), NEW e \in Seq(Wants), NEW z \in More, Len(a) = Len(e),
           \A i \in 1 .. Len(a) : e[i] # "name" /\ Matches(e[i], a[i])
    PROVE  Leads(Wanting(y, a \o z, e), Wanting(y, z, <<>>))
<1> DEFINE N == Len(a)
           left(i) == SubSeq(a, i + 1, N)
           still(i) == SubSeq(e, i + 1, N)
           s == [i \in 0 .. N |-> Wanting(y, left(i) \o z, still(i))]
<1>1. N \in Nat /\ z \in Seq(Token) /\ z # <<>>
  BY DEF More
<1>2. ASSUME NEW i \in 1 .. N PROVE Leads(s[i - 1], s[i])
  <2> DEFINE u == left(i) \o z
             t == a[i]
             w == e[i]
  <2>1. left(i - 1) = <<t>> \o left(i) /\ t \in Token /\ left(i) \in Seq(Token)
    <3>1. (i - 1) + 1 = i
      OBVIOUS
    <3> QED BY <3>1, HeadOff
  <2>a. still(i - 1) = <<w>> \o still(i) /\ w \in Wants /\ still(i) \in Seq(Wants)
    <3>1. (i - 1) + 1 = i /\ i \in 1 .. Len(e) /\ Len(e) = N
      OBVIOUS
    <3> HIDE DEF N, w
    <3>2. SubSeq(e, i, N) = <<e[i]>> \o SubSeq(e, i + 1, N) /\ e[i] \in Wants /\ SubSeq(e, i + 1, N) \in Seq(Wants)
      BY <3>1, HeadOff
    <3> QED BY <3>1, <3>2 DEF w
  <2>2. <<t>> \in Seq(Token) /\ u \in More
    <3> HIDE DEF left, t
    <3>1. u \in Seq(Token) /\ u # <<>>
      BY <1>1, <2>1
    <3> QED BY <2>1, <3>1 DEF More
  <2>3. left(i - 1) \o z = <<t>> \o u
    <3> HIDE DEF left, t
    <3>1. (<<t>> \o left(i)) \o z = <<t>> \o (left(i) \o z)
      BY <1>1, <2>1, <2>2, Associative, SMTT(30)
    <3> QED BY <2>1, <3>1
  <2>4. s[i - 1] = Wanting(y, <<t>> \o u, <<w>> \o still(i)) /\ s[i] = Wanting(y, u, still(i))
    <3>1. i - 1 \in 0 .. N /\ i \in 0 .. N
      BY <1>1
    <3> HIDE DEF left, N, t, still, w
    <3>2. /\ s[i - 1] = Wanting(y, left(i - 1) \o z, still(i - 1))
          /\ s[i] = Wanting(y, left(i) \o z, still(i))
      BY <3>1
    <3> QED BY <2>3, <2>a, <3>2
  <2> HIDE DEF s, u, left, still
  <2>5. w # "name" /\ Matches(w, t)
    OBVIOUS
  <2> HIDE DEF t, w
  <2> QED BY <2>1, <2>2, <2>4, <2>5, <2>a, ExpectsOne
<1>3. s[0] = Wanting(y, a \o z, e) /\ s[N] = Wanting(y, z, <<>>)
  <2>1. /\ left(0) = a /\ left(N) = <<>> /\ 0 \in 0 .. N /\ N \in 0 .. N
        /\ still(0) = e /\ still(N) = <<>>
    BY <1>1, AllAndNone
  <2>2. <<>> \o z = z
    BY <1>1, EmptyEnd
  <2> HIDE DEF left, still, N
  <2> QED BY <2>1, <2>2
<1> HIDE DEF s, N
<1> QED BY <1>1, <1>2, <1>3, LeadsAlong

\* Behind what it wanted the machine is in the body.
LEMMA WantsNothing ==
    ASSUME NEW y, NEW z
    PROVE  Leads(Wanting(y, z, <<>>),
                 St(z, "body", y.kind, y.name, y.members, <<>>, y.depth, y.out))
<1> DEFINE x == Wanting(y, z, <<>>)
<1>3. /\ x.rest = z /\ x.mode = "expect" /\ x.kind = y.kind /\ x.name = y.name
      /\ x.members = y.members /\ x.expected = <<>> /\ x.depth = y.depth /\ x.out = y.out
  BY WantingFields
<1> HIDE DEF x
<1>4. NextIn(x.mode, x, Head(x.rest)) = ExpectNext(x, Head(x.rest))
  BY <1>3 DEF NextIn
<1>5. ExpectNext(x, Head(x.rest)) = Go(x, x.rest, "body")
  BY <1>3, Zenon DEF ExpectNext
<1>6. Go(x, x.rest, "body") = St(z, "body", y.kind, y.name, y.members, <<>>, y.depth, y.out)
  BY <1>3 DEF Go
<1>7. x.mode # "top"
  BY <1>3
<1>8. Leads(x, St(z, "body", y.kind, y.name, y.members, <<>>, y.depth, y.out))
  BY <1>4, <1>5, <1>6, <1>7, StepAt, Zenon
<1> QED BY <1>8 DEF x

\* Between definitions, or behind one that could not be read.
IsFree(y, z, o) == y = Go(y, z, y.mode) /\ y.mode \in {"top", "skip"} /\ y.out = o

\* A parser between definitions stays one when only its tokens are replaced.
LEMMA FreeGo ==
    ASSUME NEW y, NEW z, NEW m \in {"top", "skip"}
    PROVE  IsFree(Go(y, z, m), z, y.out)
<1> DEFINE x == Go(y, z, m)
<1>1. x.mode = m /\ x.out = y.out /\ \A s, q : Go(x, s, q) = Go(y, s, q)
  BY GoFields
<1> HIDE DEF x
<1>2. Go(x, z, m) = Go(y, z, m)
  BY <1>1
<1>3. x = Go(x, z, x.mode)
  BY <1>1, <1>2 DEF x
<1>4. IsFree(x, z, y.out)
  BY <1>1, <1>3 DEF IsFree
<1> QED BY <1>4 DEF x

\* A reading in skip is taken up again at one of these.
LEMMA FreeResumes ==
    ASSUME NEW y, NEW z, NEW o, IsFree(y, z, o), Resumes(Head(z))
    PROVE  Leads(y, Go(y, z, "top"))
<1>0. y = Go(y, z, y.mode)
  BY DEF IsFree
<1>1. y.rest = z
  BY <1>0, GoFields
<1>2. CASE y.mode = "top"
  BY <1>0, <1>2, LeadsHere
<1>3. CASE y.mode = "skip"
  <2>1. NextIn(y.mode, y, Head(y.rest)) = Go(y, z, "top")
    BY <1>1, <1>3 DEF NextIn, SkipNext
  <2>2. y.mode # "top"
    BY <1>3
  <2> QED BY <2>1, <2>2, StepAt, Zenon
<1> QED BY <1>2, <1>3 DEF IsFree

---------------------------------------------------------------------------
\* The statements of a block.

Block(k, n, ms, z, d, o) == St(z, "body", k, n, ms, <<>>, d, o)

\* The fields of a state in a body.
LEMMA BlockFields ==
    ASSUME NEW k, NEW n, NEW ms, NEW z, NEW d, NEW o, NEW x, x = Block(k, n, ms, z, d, o)
    PROVE  /\ x.rest = z /\ x.mode = "body" /\ x.kind = k /\ x.name = n /\ x.members = ms
           /\ x.expected = <<>> /\ x.depth = d /\ x.out = o
BY StFields DEF Block

\* Lists of two, three and four tokens in front of the rest.
LEMMA TwoOver ==
    ASSUME NEW T, NEW a \in T, NEW b \in T, NEW z \in Seq(T)
    PROVE  <<a, b>> \o z = <<a>> \o (<<b>> \o z)
<1>1. <<a>> \in Seq(T) /\ <<b>> \in Seq(T) /\ <<a>> \o <<b>> = <<a, b>>
  BY PairJoined, OneToken
<1>2. (<<a>> \o <<b>>) \o z = <<a>> \o (<<b>> \o z)
  BY <1>1, Associative
<1> QED BY <1>1, <1>2

\* Three tokens in front of a list.
LEMMA ThreeOver ==
    ASSUME NEW T, NEW a \in T, NEW b \in T, NEW c \in T, NEW z \in Seq(T)
    PROVE  <<a, b, c>> \o z = <<a>> \o (<<b>> \o (<<c>> \o z))
<1>1. <<a>> \in Seq(T) /\ <<b, c>> \in Seq(T) /\ <<a, b, c>> = <<a>> \o <<b, c>>
  BY ThreeTokens, OneToken, SMTT(30)
<1>2. (<<a>> \o <<b, c>>) \o z = <<a>> \o (<<b, c>> \o z)
  BY <1>1, Associative
<1>3. <<b, c>> \o z = <<b>> \o (<<c>> \o z)
  BY TwoOver
<1> QED BY <1>1, <1>2, <1>3

\* One statement, and what cannot start one.
LEMMA PassesStatement ==
    ASSUME NEW k, NEW n, NEW ms, NEW d, NEW o, NEW z \in More
    PROVE  Leads(Block(k, n, ms, <<"stmt">> \o z, d, o), Block(k, n, ms, z, d, o))
<1> DEFINE r == <<"stmt">> \o z
           x == Block(k, n, ms, r, d, o)
<1>0. Drop(r, 1) = z /\ "stmt" \in Token
  BY OneInFront, Tokens0
<1>1. x.rest = r /\ x.mode = "body" /\ Go(x, z, "body") = Block(k, n, ms, z, d, o)
  <2>1. x = Block(k, n, ms, r, d, o)
    OBVIOUS
  <2> HIDE DEF x, r
  <2>2. /\ x.rest = r /\ x.mode = "body" /\ x.kind = k /\ x.name = n /\ x.members = ms
        /\ x.expected = <<>> /\ x.depth = d /\ x.out = o
    BY <2>1, BlockFields
  <2> QED BY <2>2 DEF Go, Block
<1> HIDE DEF x, r
<1>2. NextIn(x.mode, x, "stmt") = Go(x, z, "body")
  BY <1>0, <1>1, Zenon DEF NextIn, BodyNext
<1>3. Leads(x, Block(k, n, ms, z, d, o))
  BY <1>0, <1>1, <1>2, OneStep DEF r
<1> QED BY <1>3 DEF x, r

\* A for loop goes one block deeper.
LEMMA EntersLoop ==
    ASSUME NEW k, NEW n, NEW ms, NEW d, NEW o, NEW z \in More, NEW u \in Token
    PROVE  Leads(Block(k, n, ms, <<"for">> \o (<<u>> \o z), d, o),
                 Block(k, n, ms, z, d + 1, o))
<1> DEFINE v == <<u>> \o z
           r == <<"for">> \o v
           x == Block(k, n, ms, r, d, o)
<1>0. Drop(r, 2) = z /\ "for" \in Token /\ v \in More
  <2>1. "for" \in Token /\ v \in More
    BY OneInFront, Tokens0
  <2>2. Drop(r, 2) = z
    BY <2>1, TwoInFront
  <2> QED BY <2>1, <2>2
<1>1. x.rest = r /\ x.mode = "body" /\ GoTo(x, z, "body", x.depth + 1) = Block(k, n, ms, z, d + 1, o)
  <2>1. x = Block(k, n, ms, r, d, o)
    OBVIOUS
  <2> HIDE DEF x, r
  <2>2. /\ x.rest = r /\ x.mode = "body" /\ x.kind = k /\ x.name = n /\ x.members = ms
        /\ x.expected = <<>> /\ x.depth = d /\ x.out = o
    BY <2>1, BlockFields
  <2> QED BY <2>2 DEF GoTo, Block
<1> HIDE DEF x, r, v
<1>2. NextIn(x.mode, x, "for") = GoTo(x, z, "body", x.depth + 1)
  BY <1>0, <1>1, Zenon DEF NextIn, BodyNext
<1>3. Leads(x, Block(k, n, ms, z, d + 1, o))
  BY <1>0, <1>1, <1>2, OneStep DEF r
<1> QED BY <1>3 DEF x, r, v

\* The brace of the loop goes one block up.
LEMMA LeavesLoop ==
    ASSUME NEW k, NEW n, NEW ms, NEW o, NEW z \in More
    PROVE  Leads(Block(k, n, ms, <<"}">> \o z, 2, o), Block(k, n, ms, z, 1, o))
<1> DEFINE r == <<"}">> \o z
           x == Block(k, n, ms, r, 2, o)
<1>0. Drop(r, 1) = z /\ "}" \in Token
  BY OneInFront, Tokens0
<1>1. x.rest = r /\ x.mode = "body" /\ GoTo(x, z, "body", x.depth - 1) = Block(k, n, ms, z, 1, o)
      /\ x.depth > 1
  <2>1. x = Block(k, n, ms, r, 2, o)
    OBVIOUS
  <2> HIDE DEF x, r
  <2>2. /\ x.rest = r /\ x.mode = "body" /\ x.kind = k /\ x.name = n /\ x.members = ms
        /\ x.expected = <<>> /\ x.depth = 2 /\ x.out = o
    BY <2>1, BlockFields
  <2>3. x.depth > 1 /\ x.depth - 1 = 1
    BY <2>2
  <2> QED BY <2>2, <2>3 DEF GoTo, Block
<1> HIDE DEF x, r
<1>2. NextIn(x.mode, x, "}") = GoTo(x, z, "body", x.depth - 1)
  BY <1>0, <1>1, Zenon DEF NextIn, BodyNext
<1>3. Leads(x, Block(k, n, ms, z, 1, o))
  BY <1>0, <1>1, <1>2, OneStep DEF r
<1> QED BY <1>3 DEF x, r

\* An input in the outermost block is a member.
LEMMA PassesInput ==
    ASSUME NEW k, NEW n, NEW ms, NEW o, NEW z \in More, NEW u \in Token
    PROVE  Leads(Block(k, n, ms, <<"signal input">> \o (<<u>> \o z), 1, o),
                 Block(k, n, Append(ms, u), z, 1, o))
<1> DEFINE v == <<u>> \o z
           r == <<"signal input">> \o v
           x == Block(k, n, ms, r, 1, o)
           w == St(Drop(x.rest, 2), "body", x.kind, x.name,
                   IF x.depth = 1 THEN Append(x.members, x.rest[2]) ELSE x.members,
                   x.expected, x.depth, x.out)
<1>0. Drop(r, 2) = z /\ r[2] = u /\ "signal input" \in Token /\ v \in More
  <2>1. "signal input" \in Token /\ v \in More
    BY OneInFront, Tokens0
  <2>2. Drop(r, 2) = z /\ r[2] = u
    BY <2>1, TwoInFront
  <2> QED BY <2>1, <2>2
<1>1. x.rest = r /\ x.mode = "body" /\ w = Block(k, n, Append(ms, u), z, 1, o)
  <2>1. x = Block(k, n, ms, r, 1, o)
    OBVIOUS
  <2> HIDE DEF x, r
  <2>2. /\ x.rest = r /\ x.mode = "body" /\ x.kind = k /\ x.name = n /\ x.members = ms
        /\ x.expected = <<>> /\ x.depth = 1 /\ x.out = o
    BY <2>1, BlockFields
  <2> QED BY <1>0, <2>2 DEF Block
<1> HIDE DEF x, r, v
<1>2. NextIn(x.mode, x, "signal input") = w
  BY <1>1, Zenon DEF NextIn, BodyNext
<1>3. Leads(x, Block(k, n, Append(ms, u), z, 1, o))
  BY <1>0, <1>1, <1>2, OneStep DEF r
<1> QED BY <1>3 DEF x, r, v

\* A component in a body: its name, its template and its arguments are expected.
LEMMA StartsPart ==
    ASSUME NEW k, NEW n, NEW ms, NEW d, NEW o, NEW z \in More
    PROVE  LET x == Block(k, n, ms, <<"component">> \o z, d, o)
           IN  Leads(x, Wanting(x, z, PartTokens))
<1> DEFINE r == <<"component">> \o z
           x == Block(k, n, ms, r, d, o)
<1>0. Drop(r, 1) = z /\ "component" \in Token
  BY OneInFront, Tokens0
<1>1. x.rest = r /\ x.mode = "body"
  <2>1. x = Block(k, n, ms, r, d, o)
    OBVIOUS
  <2> HIDE DEF x, r
  <2> QED BY <2>1, BlockFields
<1> HIDE DEF x, r
<1>2. NextIn(x.mode, x, "component") = Wanting(x, z, PartTokens)
  BY <1>0, <1>1, Zenon DEF NextIn, BodyNext, Wanting
<1>3. Leads(x, Wanting(x, z, PartTokens))
  BY <1>0, <1>1, <1>2, OneStep DEF r
<1> QED BY <1>3 DEF x, r

\* What no statement starts with ends the reading of the definition.
LEMMA GivesUp ==
    ASSUME NEW k, NEW n, NEW ms, NEW d, NEW o, NEW z \in More
    PROVE  LET r == <<"bad">> \o z
               x == Block(k, n, ms, r, d, o)
           IN  Leads(x, Go(x, r, "skip")) /\ x.out = o
<1> DEFINE r == <<"bad">> \o z
           x == Block(k, n, ms, r, d, o)
<1>0. "bad" \in Token
  BY Tokens0
<1>1. x.rest = r /\ x.mode = "body" /\ x.out = o
  <2>1. x = Block(k, n, ms, r, d, o)
    OBVIOUS
  <2> HIDE DEF x, r
  <2> QED BY <2>1, BlockFields
<1> HIDE DEF x, r
<1>2. NextIn(x.mode, x, "bad") = Go(x, r, "skip")
  BY <1>1, Zenon DEF NextIn, BodyNext
<1>3. Leads(x, Go(x, r, "skip"))
  BY <1>0, <1>1, <1>2, OneStep DEF r
<1> QED BY <1>1, <1>3 DEF x, r

\* The last brace ends the definition.
LEMMA EndsDefinition ==
    ASSUME NEW k, NEW n, NEW ms, NEW o, NEW z \in More
    PROVE  LET x == Block(k, n, ms, <<"}">> \o z, 1, o)
           IN  Leads(x, St(z, "top", k, n, ms, <<>>, 1, Defines(x)))
<1> DEFINE r == <<"}">> \o z
           x == Block(k, n, ms, r, 1, o)
           w == St(Drop(x.rest, 1), "top", x.kind, x.name, x.members, x.expected, x.depth, Defines(x))
<1>0. Drop(r, 1) = z /\ "}" \in Token
  BY OneInFront, Tokens0
<1>1. x.rest = r /\ x.mode = "body" /\ w = St(z, "top", k, n, ms, <<>>, 1, Defines(x))
      /\ ~(x.depth > 1)
  <2>1. x = Block(k, n, ms, r, 1, o)
    OBVIOUS
  <2> HIDE DEF x, r
  <2>2. /\ x.rest = r /\ x.mode = "body" /\ x.kind = k /\ x.name = n /\ x.members = ms
        /\ x.expected = <<>> /\ x.depth = 1 /\ x.out = o
    BY <2>1, BlockFields
  <2>3. ~(x.depth > 1)
    BY <2>2
  <2>4. Drop(x.rest, 1) = z
    BY <1>0, <2>2
  <2> QED BY <2>2, <2>3, <2>4
<1> HIDE DEF x, r
<1>2. NextIn(x.mode, x, "}") = w
  BY <1>1, Zenon DEF NextIn, BodyNext
<1>3. Leads(x, St(z, "top", k, n, ms, <<>>, 1, Defines(x)))
  BY <1>0, <1>1, <1>2, OneStep DEF r
<1> QED BY <1>3 DEF x, r

---------------------------------------------------------------------------
\* Readings between definitions.

FreeTokens ==
    {t \in Token : ~Resumes(t) /\ t \notin {"template", "function", "bus", "pragma", "include", "component", "eof"}}

\* Tokens in front of a list that is not empty.
LEMMA AnyInFront ==
    ASSUME NEW a \in Seq(Token), NEW z \in More PROVE a \o z \in More
<1>1. z \in Seq(Token) /\ z # <<>>
  BY DEF More
<1>2. a \o z \in Seq(Token) /\ a \o z # <<>>
  BY <1>1
<1> QED BY <1>2 DEF More

\* Between definitions, tokens that start nothing are passed over, skipping or not.
LEMMA FreePasses ==
    ASSUME NEW y, NEW a \in Seq(FreeTokens), NEW z \in More, NEW o, IsFree(y, a \o z, o)
    PROVE  Leads(y, Go(y, z, y.mode)) /\ IsFree(Go(y, z, y.mode), z, o)
<1>1. a \in Seq(Token)
  <2>1. FreeTokens \subseteq Token
    BY DEF FreeTokens
  <2> QED BY <2>1, WiderSeq
<1>2. y = Go(y, a \o z, y.mode) /\ y.mode \in {"top", "skip"} /\ y.out = o
  BY DEF IsFree
<1>3. ASSUME NEW i \in 1 .. Len(a) PROVE Quiet(y.mode, a[i])
  <2>1. a[i] \in FreeTokens
    OBVIOUS
  <2> QED BY <1>2, <2>1, Zenon DEF FreeTokens, Quiet
<1>4. Leads(Go(y, a \o z, y.mode), Go(y, z, y.mode))
  BY <1>1, <1>3, PassesAll
<1> QED BY <1>2, <1>4, FreeGo

\* What stands before the semicolon of a directive.
Eaten == Token \ {";", "eof"}

\* What is no semicolon is passed over within a directive.
LEMMA EatenQuietly ==
    ASSUME NEW a \in Seq(Eaten), NEW i \in 1 .. Len(a) PROVE Quiet("eat", a[i])
<1>1. a[i] \in Eaten
  OBVIOUS
<1>2. a[i] \notin {";", "eof"}
  BY <1>1 DEF Eaten
<1> QED BY <1>2, Zenon DEF Quiet

\* An instance at file scope is passed over up to its semicolon.
LEMMA FreeInstance ==
    ASSUME NEW y, NEW a \in Seq(Eaten), NEW z \in More, NEW o,
           IsFree(y, <<"component">> \o (a \o (<<";">> \o z)), o)
    PROVE  Leads(y, Go(y, z, "top")) /\ IsFree(Go(y, z, "top"), z, o)
<1> DEFINE w == <<";">> \o z
           v == a \o w
           text == <<"component">> \o v
           here == Go(y, text, "top")
           there == Go(y, w, "eat")
<1>0. "component" \in Token /\ ";" \in Token /\ a \in Seq(Token)
  <2>1. Eaten \subseteq Token
    BY DEF Eaten
  <2> QED BY <2>1, WiderSeq, Tokens0
<1>1. w \in More /\ v \in More
  <2>1. w \in More
    BY <1>0, OneInFront
  <2> HIDE DEF w
  <2> QED BY <1>0, <2>1, AnyInFront
<1>2. Head(text) = "component" /\ Head(w) = ";" /\ Drop(w, 1) = z
  <2> HIDE DEF v
  <2> QED BY <1>0, <1>1, OneInFront
<1>3. Leads(y, here)
  <2>1. Resumes(Head(text))
    BY <1>2 DEF Resumes
  <2> QED BY <2>1, FreeResumes
<1> HIDE DEF w, v, text
<1>4. Leads(here, Go(y, text, "eat"))
  <2>1. here = Go(y, text, "top")
    OBVIOUS
  <2> HIDE DEF here
  <2>2. here.rest = text /\ here.mode = "top" /\ \A s, q : Go(here, s, q) = Go(y, s, q)
    BY <2>1 DEF Go, St
  <2>3. Go(here, here.rest, "eat") = Go(y, text, "eat")
    BY <2>2
  <2>4. NextIn(here.mode, here, "component") = Go(y, text, "eat")
    BY <2>2, <2>3, Zenon DEF NextIn, TopNext
  <2> QED BY <1>2, <2>2, <2>4, StepAt, Zenon
<1>5. Leads(Go(y, text, "eat"), Go(y, v, "eat"))
  <2>1. Quiet("eat", "component")
    BY DEF Quiet
  <2> QED BY <1>0, <1>1, <2>1, PassesOne DEF text
<1>6. Leads(Go(y, v, "eat"), there)
  <2>1. ASSUME NEW i \in 1 .. Len(a) PROVE Quiet("eat", a[i])
    BY EatenQuietly
  <2> QED BY <1>0, <1>1, <2>1, PassesAll DEF v
<1>7. Leads(there, Go(y, z, "top"))
  <2>1. there = Go(y, w, "eat")
    OBVIOUS
  <2> HIDE DEF there
  <2>2. there.rest = w /\ there.mode = "eat" /\ \A s, q : Go(there, s, q) = Go(y, s, q)
    BY <2>1 DEF Go, St
  <2>3. Go(there, Drop(there.rest, 1), "top") = Go(y, z, "top")
    BY <1>2, <2>2
  <2>4. NextIn(there.mode, there, ";") = Go(y, z, "top")
    BY <2>2, <2>3, Zenon DEF NextIn, EatNext
  <2> QED BY <1>2, <2>2, <2>4, StepAt, Zenon
<1>8. IsFree(Go(y, z, "top"), z, o)
  <2>1. y.out = o
    BY DEF IsFree
  <2> QED BY <2>1, FreeGo
<1> HIDE DEF here, there
<1> QED BY <1>3, <1>4, <1>5, <1>6, <1>7, <1>8, LeadsJoined

\* The start of a definition.
LEMMA StartsTemplate ==
    ASSUME NEW y, NEW z \in More, NEW o, IsFree(y, <<"template">> \o z, o)
    PROVE  Leads(y, St(z, "modifiers", "template", "", <<>>, <<>>, 0, o))
<1> DEFINE r == <<"template">> \o z
           x == Go(y, r, "top")
<1>0. "template" \in Token /\ y.out = o
  BY Tokens0 DEF IsFree
<1>1. Head(r) = "template" /\ Drop(r, 1) = z
  BY <1>0, OneInFront
<1>2. Leads(y, x)
  <2>1. Resumes(Head(r))
    BY <1>1 DEF Resumes
  <2> QED BY <2>1, FreeResumes
<1>3. x = Go(y, r, "top")
  OBVIOUS
<1> HIDE DEF x, r
<1>4. x.rest = r /\ x.mode = "top" /\ x.out = o
  BY <1>0, <1>3, GoFields
<1>5. Begun(x, "template", "modifiers", <<>>, 0) = St(z, "modifiers", "template", "", <<>>, <<>>, 0, o)
  BY <1>1, <1>4 DEF Begun
<1>6. NextIn(x.mode, x, "template") = St(z, "modifiers", "template", "", <<>>, <<>>, 0, o)
  BY <1>4, <1>5, Zenon DEF NextIn, TopNext
<1>7. Leads(x, St(z, "modifiers", "template", "", <<>>, <<>>, 0, o))
  BY <1>1, <1>4, <1>6, StepAt, Zenon
<1> QED BY <1>2, <1>7, LeadsJoined

\* A function begins, also where a skip ends.
LEMMA StartsFunction ==
    ASSUME NEW y, NEW z \in More, NEW o, IsFree(y, <<"function">> \o z, o)
    PROVE  Leads(y, St(z, "expect", "function", "", <<>>, HeaderTokens, 1, o))
<1> DEFINE r == <<"function">> \o z
           x == Go(y, r, "top")
<1>0. "function" \in Token /\ y.out = o
  BY Tokens0 DEF IsFree
<1>1. Head(r) = "function" /\ Drop(r, 1) = z
  BY <1>0, OneInFront
<1>2. Leads(y, x)
  <2>1. Resumes(Head(r))
    BY <1>1 DEF Resumes
  <2> QED BY <2>1, FreeResumes
<1>3. x = Go(y, r, "top")
  OBVIOUS
<1> HIDE DEF x, r
<1>4. x.rest = r /\ x.mode = "top" /\ x.out = o
  BY <1>0, <1>3, GoFields
<1>5. Begun(x, "function", "expect", HeaderTokens, 1)
        = St(z, "expect", "function", "", <<>>, HeaderTokens, 1, o)
  BY <1>1, <1>4 DEF Begun
<1>6. NextIn(x.mode, x, "function") = St(z, "expect", "function", "", <<>>, HeaderTokens, 1, o)
  BY <1>4, <1>5, Zenon DEF NextIn, TopNext
<1>7. Leads(x, St(z, "expect", "function", "", <<>>, HeaderTokens, 1, o))
  BY <1>1, <1>4, <1>6, StepAt, Zenon
<1> QED BY <1>2, <1>7, LeadsJoined

\* The modifiers of a template end where its name is.
LEMMA PassesModifiers ==
    ASSUME NEW a \in Seq(Modifiers), NEW t \in Token \ Modifiers, NEW v \in More, NEW k, NEW o
    PROVE  LET r == <<t>> \o v
           IN  Leads(St(a \o r, "modifiers", k, "", <<>>, <<>>, 0, o),
                     St(r, "expect", k, "", <<>>, HeaderTokens, 1, o))
<1> DEFINE named == <<t>> \o v
           here == St(a \o named, "modifiers", k, "", <<>>, <<>>, 0, o)
           there == Go(here, named, "modifiers")
<1>1. named \in More /\ Head(named) = t
  BY OneInFront
<1>2. a \in Seq(Token)
  <2>1. Modifiers \subseteq Token
    BY PlainTokens
  <2> QED BY <2>1, WiderSeq
<1> HIDE DEF named
<1>3. ASSUME NEW i \in 1 .. Len(a) PROVE Quiet("modifiers", a[i])
  BY DEF Quiet
<1>4. Leads(Go(here, a \o named, "modifiers"), there)
  BY <1>1, <1>2, <1>3, PassesAll
<1>a. here = St(a \o named, "modifiers", k, "", <<>>, <<>>, 0, o)
  OBVIOUS
<1>b. there = Go(here, named, "modifiers")
  OBVIOUS
<1> HIDE DEF here, there
<1>5. /\ here.kind = k /\ here.name = "" /\ here.members = <<>> /\ here.expected = <<>> /\ here.depth = 0 /\ here.out = o
  BY <1>a DEF St
<1>6. Go(here, a \o named, "modifiers") = here
  BY <1>5, <1>a DEF Go
<1>7. /\ there.rest = named /\ there.mode = "modifiers" /\ there.kind = k /\ there.name = "" /\ there.members = <<>>
      /\ there.expected = <<>> /\ there.depth = 0 /\ there.out = o
  BY <1>5, <1>b DEF Go, St
<1>8. ModifierNext(there, t) = St(named, "expect", k, "", <<>>, HeaderTokens, 1, o)
  <2>1. t \notin Modifiers
    OBVIOUS
  <2> QED BY <2>1, <1>7 DEF ModifierNext
<1>9. NextIn(there.mode, there, t) = St(named, "expect", k, "", <<>>, HeaderTokens, 1, o)
  BY <1>7, <1>8, Zenon DEF NextIn
<1>10. Leads(there, St(named, "expect", k, "", <<>>, HeaderTokens, 1, o))
  <2>1. there.mode # "top"
    BY <1>7
  <2> QED BY <1>1, <1>7, <1>9, <2>1, StepAt, Zenon
<1>11. Leads(here, St(named, "expect", k, "", <<>>, HeaderTokens, 1, o))
  BY <1>4, <1>6, <1>10, LeadsJoined
<1> QED BY <1>11 DEF here, named

\* The name of a definition.
HeaderRest == <<"(", ")", "{">>

\* Four elements, the first one apart.
LEMMA FourCut ==
    ASSUME NEW T, NEW a \in T, NEW b \in T, NEW c \in T, NEW d \in T
    PROVE  <<a, b, c, d>> = <<a>> \o <<b, c, d>>
OBVIOUS

\* What is expected behind the name in a header.
LEMMA HeaderIs ==
    /\ HeaderRest \in Seq(Token) /\ HeaderRest \in Seq(Wants) /\ "name" \in Wants
    /\ \A i \in 1 .. Len(HeaderRest) : HeaderRest[i] # "name"
    /\ <<"name">> \o HeaderRest = HeaderTokens
<1>1. "name" \in Wants /\ "(" \in Wants /\ ")" \in Wants /\ "{" \in Wants
  BY Tokens0 DEF Wants
<1>2. "(" \in Token /\ ")" \in Token /\ "{" \in Token
  BY Tokens0
<1>3. HeaderRest \in Seq(Token) /\ HeaderRest \in Seq(Wants)
  BY <1>1, <1>2, Sequence3 DEF HeaderRest
<1>4. <<"name", "(", ")", "{">> = <<"name">> \o <<"(", ")", "{">>
  BY <1>1, FourCut, ZenonT(60)
<1>5. \A i \in 1 .. Len(HeaderRest) : HeaderRest[i] \in {"(", ")", "{"}
  <2>1. HeaderRest \in Seq({"(", ")", "{"})
    BY Sequence3 DEF HeaderRest
  <2> DEFINE S == {"(", ")", "{"}
  <2> HIDE DEF S
  <2>2. HeaderRest \in Seq(S)
    BY <2>1 DEF S
  <2>3. \A i \in 1 .. Len(HeaderRest) : HeaderRest[i] \in S
    BY <2>2
  <2> QED BY <2>3 DEF S
<1> QED BY <1>1, <1>3, <1>4, <1>5 DEF HeaderRest, HeaderTokens

\* The name in a header is kept.
LEMMA ReadsName ==
    ASSUME NEW t \in Token, IsName(t), NEW v \in More, NEW k, NEW o
    PROVE  Leads(St(<<t>> \o v, "expect", k, "", <<>>, HeaderTokens, 1, o),
                 St(v, "expect", k, t, <<>>, HeaderRest, 1, o))
<1> DEFINE text == <<t>> \o v
           here == St(text, "expect", k, "", <<>>, HeaderTokens, 1, o)
<1>1. Drop(text, 1) = v /\ Head(text) = t
  BY OneInFront
<1>2. HeaderTokens # <<>> /\ Head(HeaderTokens) = "name" /\ Tail(HeaderTokens) = HeaderRest
  <2>1. HeaderRest \in Seq(Wants) /\ "name" \in Wants
    BY HeaderIs
  <2>2. <<"name">> \o HeaderRest = HeaderTokens
    BY HeaderIs
  <2>3. Head(<<"name">> \o HeaderRest) = "name" /\ Tail(<<"name">> \o HeaderRest) = HeaderRest
    BY <2>1, HeadOfJoined
  <2>4. HeaderTokens # <<>>
    BY DEF HeaderTokens
  <2> QED BY <2>2, <2>3, <2>4
<1>3. here = St(text, "expect", k, "", <<>>, HeaderTokens, 1, o)
  OBVIOUS
<1> HIDE DEF here, text
<1>4. /\ here.rest = text /\ here.mode = "expect" /\ here.kind = k /\ here.members = <<>>
      /\ here.expected = HeaderTokens /\ here.depth = 1 /\ here.out = o
  BY <1>3 DEF St
<1>5. Matches(Head(here.expected), t)
  BY <1>2, <1>4 DEF Matches
<1>6. ExpectNext(here, t) = St(Drop(here.rest, 1), "expect", here.kind, t, here.members, Tail(here.expected),
                            here.depth, here.out)
  BY <1>2, <1>4, <1>5, Zenon DEF ExpectNext
<1>7. NextIn(here.mode, here, t) = St(v, "expect", k, t, <<>>, HeaderRest, 1, o)
  <2>1. NextIn(here.mode, here, t) = ExpectNext(here, t)
    BY <1>4, Zenon DEF NextIn
  <2> QED BY <1>1, <1>2, <1>4, <1>6, <2>1
<1>8. here.mode # "top"
  BY <1>4
<1>9. Leads(here, St(v, "expect", k, t, <<>>, HeaderRest, 1, o))
  BY <1>1, <1>4, <1>7, <1>8, StepAt, Zenon
<1> QED BY <1>9 DEF here, text

\* A name without parameters behind it is no header.
LEMMA NoHeader ==
    ASSUME NEW z \in Tails, NEW k, NEW t, NEW o
    PROVE  LET x == St(z, "expect", k, t, <<>>, HeaderRest, 1, o)
           IN  Leads(x, Go(x, z, "skip")) /\ IsFree(Go(x, z, "skip"), z, o)
<1> DEFINE x == St(z, "expect", k, t, <<>>, HeaderRest, 1, o)
<1>1. HeaderRest # <<>> /\ Head(HeaderRest) = "("
  BY DEF HeaderRest
<1>2. x = St(z, "expect", k, t, <<>>, HeaderRest, 1, o)
  OBVIOUS
<1> HIDE DEF x
<1>3. x.rest = z /\ x.mode = "expect" /\ x.expected = HeaderRest /\ x.out = o
  BY <1>2, StFields
<1>4. Head(z) # "("
  BY DEF Tails
<1>5. ~Matches(Head(x.expected), Head(z))
  BY <1>1, <1>3, <1>4 DEF Matches
<1>6. ExpectNext(x, Head(z)) = Go(x, z, "skip")
  BY <1>1, <1>3, <1>5 DEF ExpectNext
<1>7. NextIn(x.mode, x, Head(x.rest)) = Go(x, z, "skip") /\ x.mode # "top"
  BY <1>3, <1>6 DEF NextIn
<1>8. Leads(x, Go(x, z, "skip"))
  BY <1>7, StepAt, Zenon
<1>9. IsFree(Go(x, z, "skip"), z, o)
  BY <1>3, FreeGo
<1> QED BY <1>8, <1>9 DEF x

\* The rest of a header.
LEMMA ReadsHeader ==
    ASSUME NEW t \in Token, IsName(t), NEW z \in More, NEW k, NEW o
    PROVE  Leads(St(<<t>> \o (HeaderRest \o z), "expect", k, "", <<>>, HeaderTokens, 1, o),
                 Block(k, t, <<>>, z, 1, o))
<1> DEFINE v == HeaderRest \o z
           x == St(v, "expect", k, t, <<>>, HeaderRest, 1, o)
<1>1. /\ HeaderRest \in Seq(Token) /\ HeaderRest \in Seq(Wants)
      /\ \A i \in 1 .. Len(HeaderRest) : HeaderRest[i] # "name"
  BY HeaderIs
<1>2. v \in More
  <2> HIDE DEF HeaderRest
  <2>1. v \in Seq(Token) /\ v # <<>>
    BY <1>1 DEF More
  <2> QED BY <2>1 DEF More
<1>3. Leads(St(<<t>> \o v, "expect", k, "", <<>>, HeaderTokens, 1, o), x)
  <2> HIDE DEF v
  <2> QED BY <1>2, ReadsName
<1>4. x.kind = k /\ x.name = t /\ x.members = <<>> /\ x.depth = 1 /\ x.out = o
  <2>1. x = St(v, "expect", k, t, <<>>, HeaderRest, 1, o)
    OBVIOUS
  <2> HIDE DEF x, v
  <2> QED BY <2>1, StFields
<1>5. x = Wanting(x, v, HeaderRest)
  <2>1. x = St(v, "expect", k, t, <<>>, HeaderRest, 1, o)
    OBVIOUS
  <2> HIDE DEF x, v
  <2> QED BY <1>4, <2>1 DEF Wanting
<1> HIDE DEF x
<1>6. Leads(Wanting(x, v, HeaderRest), Wanting(x, z, <<>>))
  <2>1. \A i \in 1 .. Len(HeaderRest) : Matches(HeaderRest[i], HeaderRest[i])
    BY DEF Matches
  <2> QED BY <1>1, <2>1, ExpectsAll
<1>7. Leads(Wanting(x, z, <<>>), Block(k, t, <<>>, z, 1, o))
  <2>1. Leads(Wanting(x, z, <<>>), St(z, "body", x.kind, x.name, x.members, <<>>, x.depth, x.out))
    BY WantsNothing
  <2> QED BY <1>4, <2>1 DEF Block
<1> HIDE DEF v
<1>8. Leads(x, Wanting(x, z, <<>>))
  BY <1>5, <1>6
<1> QED BY <1>3, <1>7, <1>8, LeadsJoined DEF v

---------------------------------------------------------------------------
\* The code of a source.

\* The lists a flattened list is put together by.
Piled(T, f, ss, N) ==
    /\ f[0] = <<>>
    /\ \A n \in 1 .. N : f[n] = f[n - 1] \o ss[n]
    /\ \A n \in 0 .. N : f[n] \in Seq(T)

\* Two lists with the same first parts agree up to there.
LEMMA PiledAlike ==
    ASSUME NEW T, NEW M \in Nat, NEW N \in Nat, NEW ss, NEW us, NEW f, NEW h,
           \A i \in 1 .. M : us[i] = ss[i], Piled(T, f, ss, M), Piled(T, h, us, M + N)
    PROVE  h[M] = f[M]
<1> DEFINE S == {n \in Nat : n <= M => h[n] = f[n]}
<1>5. 0 \in S
  BY DEF Piled
<1>6. \A n \in Nat : n \in S => n + 1 \in S
  <2> SUFFICES ASSUME NEW n \in Nat, n \in S, n + 1 <= M PROVE h[n + 1] = f[n + 1]
    OBVIOUS
  <2>1. n + 1 \in 1 .. M /\ n + 1 <= M + N /\ h[n] = f[n]
    OBVIOUS
  <2>2. us[n + 1] = ss[n + 1]
    BY <2>1
  <2>3. f[n + 1] = f[n] \o ss[n + 1]
    <3>1. \A i \in 1 .. M : f[i] = f[i - 1] \o ss[i]
      BY DEF Piled
    <3>2. (n + 1) - 1 = n
      OBVIOUS
    <3> QED BY <2>1, <3>1, <3>2, Zenon
  <2>4. h[n + 1] = h[n] \o us[n + 1]
    <3>1. \A i \in 1 .. M + N : h[i] = h[i - 1] \o us[i]
      BY DEF Piled
    <3>2. (n + 1) - 1 = n /\ n + 1 \in 1 .. M + N
      BY <2>1
    <3> QED BY <3>1, <3>2, Zenon
  <2> QED BY <2>1, <2>2, <2>3, <2>4
<1> HIDE DEF S
<1>7. M \in S
  BY <1>5, <1>6, Induction
<1> QED BY <1>7 DEF S

Follows(T, ts, us, M, N) == \A i \in 1 .. N : us[M + i] = ts[i] /\ ts[i] \in Seq(T)

\* Parts behind others put their own list behind.
LEMMA PiledBehind ==
    ASSUME NEW T, NEW M \in Nat, NEW N \in Nat, NEW ts, NEW us, NEW a \in Seq(T), NEW g, NEW h,
           Follows(T, ts, us, M, N), Piled(T, g, ts, N), Piled(T, h, us, M + N)
    PROVE  h[M] = a => h[M + N] = a \o g[N]
<1> DEFINE P(n) == h[M + n] = a \o g[n]
           R == {n \in Nat : n <= N => P(n)}
<1>1. /\ \A i \in 1 .. M + N : h[i] = h[i - 1] \o us[i]
      /\ \A i \in 1 .. N : g[i] = g[i - 1] \o ts[i]
      /\ \A i \in 0 .. N : g[i] \in Seq(T)
      /\ \A i \in 1 .. N : us[M + i] = ts[i] /\ ts[i] \in Seq(T)
  BY DEF Piled, Follows
<1>9. h[M] = a => P(0)
  <2>1. a \o <<>> = a /\ M + 0 = M
    BY EmptyEnd
  <2>2. g[0] = <<>>
    BY DEF Piled
  <2> QED BY <2>1, <2>2
<1> HIDE DEF P
<1>2. ASSUME NEW n \in Nat, P(n), n + 1 <= N PROVE P(n + 1)
  <2> DEFINE m == M + (n + 1)
             b == g[n]
             c == ts[n + 1]
             e == h[M + n]
  <2>0. n + 1 \in 1 .. N /\ n \in 0 .. N /\ (n + 1) - 1 = n /\ m - 1 = M + n /\ m \in 1 .. M + N
    BY <1>2
  <2>1. e = a \o b
    BY <1>2 DEF P
  <2>2. h[m] = e \o us[m]
    BY <1>1, <2>0, Zenon
  <2>3. us[m] = c /\ c \in Seq(T)
    BY <1>1, <2>0, Zenon
  <2>4. g[n + 1] = b \o c /\ b \in Seq(T)
    BY <1>1, <2>0, Zenon
  <2> HIDE DEF b, c, e
  <2>5. (a \o b) \o c = a \o (b \o c)
    BY <2>3, <2>4, Associative, SMTT(30)
  <2>6. h[m] = a \o g[n + 1]
    BY <2>1, <2>2, <2>3, <2>4, <2>5, Zenon
  <2> QED BY <2>6 DEF P
<1>10. \A n \in Nat : n \in R => n + 1 \in R
  <2> SUFFICES ASSUME NEW n \in Nat, n \in R, n + 1 <= N PROVE P(n + 1)
    OBVIOUS
  <2>1. n <= N
    OBVIOUS
  <2>2. P(n)
    BY <2>1
  <2> QED BY <1>2, <2>2, Zenon
<1>11. 0 \in R => N \in R
  <2> HIDE DEF R
  <2> QED BY <1>10, Induction
<1>12. P(0) => P(N)
  BY <1>11
<1> QED BY <1>9, <1>12 DEF P

\* FlattenSeq is the last of the lists piled up.
LEMMA FlattenPiled ==
    ASSUME NEW T, NEW ss \in Seq(Seq(T))
    PROVE  \E f : Piled(T, f, ss, Len(ss)) /\ FlattenSeq(ss) = f[Len(ss)] /\ f[Len(ss)] \in Seq(T)
<1>1. PICK f : /\ f[0] = <<>>
               /\ \A n \in 1 .. Len(ss) : f[n] = f[n - 1] \o ss[n]
               /\ FlattenSeq(ss) = f[Len(ss)]
               /\ \A n \in 0 .. Len(ss) : f[n] \in Seq(T)
  BY FlattenTyped
<1>2. Len(ss) \in 0 .. Len(ss)
  OBVIOUS
<1> QED BY <1>1, <1>2, Zenon DEF Piled

\* Two lists of lists, one behind the other.
LEMMA SeqsJoined ==
    ASSUME NEW U, NEW p, NEW q, p \in Seq(Seq(U)), q \in Seq(Seq(U))
    PROVE  /\ p \o q \in Seq(Seq(U)) /\ Len(p \o q) = Len(p) + Len(q)
           /\ Len(p) \in Nat /\ Len(q) \in Nat
           /\ \A i \in 1 .. Len(p) : (p \o q)[i] = p[i]
           /\ \A i \in 1 .. Len(q) : (p \o q)[Len(p) + i] = q[i] /\ q[i] \in Seq(U)
<1> DEFINE V == Seq(U)
<1>1. p \in Seq(V) /\ q \in Seq(V)
  OBVIOUS
<1> HIDE DEF V
<1>2. /\ p \o q \in Seq(V) /\ Len(p \o q) = Len(p) + Len(q)
      /\ Len(p) \in Nat /\ Len(q) \in Nat
      /\ \A i \in 1 .. Len(p) : (p \o q)[i] = p[i]
      /\ \A i \in 1 .. Len(q) : (p \o q)[Len(p) + i] = q[i]
  BY <1>1, Joined
<1>3. \A i \in 1 .. Len(q) : q[i] \in V
  BY <1>1
<1> QED BY <1>2, <1>3 DEF V

\* FlattenSeq of two lists of lists, one behind the other.
LEMMA FlattenJoined ==
    ASSUME NEW T, NEW ss \in Seq(Seq(T)), NEW ts \in Seq(Seq(T))
    PROVE  /\ FlattenSeq(ss \o ts) = FlattenSeq(ss) \o FlattenSeq(ts)
           /\ FlattenSeq(ss) \in Seq(T) /\ FlattenSeq(ts) \in Seq(T)
<1> DEFINE M == Len(ss)
           N == Len(ts)
           us == ss \o ts
<1>1. /\ M \in Nat /\ N \in Nat /\ us \in Seq(Seq(T)) /\ Len(us) = M + N
      /\ \A i \in 1 .. M : us[i] = ss[i]
      /\ \A i \in 1 .. N : us[M + i] = ts[i] /\ ts[i] \in Seq(T)
  BY SeqsJoined
<1>2. PICK f : Piled(T, f, ss, M) /\ FlattenSeq(ss) = f[M] /\ f[M] \in Seq(T)
  BY FlattenPiled
<1>3. PICK g : Piled(T, g, ts, N) /\ FlattenSeq(ts) = g[N] /\ g[N] \in Seq(T)
  BY FlattenPiled
<1> HIDE DEF us, M, N
<1>4. PICK h : Piled(T, h, us, M + N) /\ FlattenSeq(us) = h[M + N]
  <2>1. \E h : Piled(T, h, us, Len(us)) /\ FlattenSeq(us) = h[Len(us)] /\ h[Len(us)] \in Seq(T)
    BY <1>1, FlattenPiled
  <2> QED BY <1>1, <2>1
<1>5. h[M] = f[M]
  BY <1>1, <1>2, <1>4, PiledAlike
<1>7. Follows(T, ts, us, M, N)
  BY <1>1 DEF Follows
<1> DEFINE a == f[M]
<1>8. a \in Seq(T) /\ h[M] = a
  BY <1>2, <1>5
<1> HIDE DEF a
<1>9. h[M + N] = a \o g[N]
  <2>1. h[M] = a => h[M + N] = a \o g[N]
    BY <1>1, <1>3, <1>4, <1>7, <1>8, PiledBehind
  <2> QED BY <1>8, <2>1
<1>6. h[M + N] = f[M] \o g[N]
  BY <1>9 DEF a
<1> QED BY <1>2, <1>3, <1>4, <1>6, Zenon DEF us

\* FlattenSeq of no list.
LEMMA FlattenNone == FlattenSeq(<<>>) = <<>>
<1> DEFINE ss == <<>>
<1>1. ss \in Seq(Seq(Token)) /\ Len(ss) = 0
  OBVIOUS
<1> HIDE DEF ss
<1>2. FlattenSeq(ss) = <<>>
  BY <1>1, FlattenTyped
<1> QED BY <1>2 DEF ss

\* FlattenSeq of one list.
LEMMA FlattenOne ==
    ASSUME NEW T, NEW s \in Seq(T)
    PROVE  FlattenSeq(<<s>>) = s
<1>2. FlattenSeq(<<s>>) = s
  <2> DEFINE ss == <<s>>
  <2>1. ss \in Seq(Seq(T)) /\ Len(ss) = 1 /\ ss[1] = s /\ <<>> \o s = s
    BY EmptyEnd
  <2> HIDE DEF ss
  <2>2. PICK f : /\ f[0] = <<>>
                 /\ \A n \in 1 .. Len(ss) : f[n] = f[n - 1] \o ss[n]
                 /\ FlattenSeq(ss) = f[Len(ss)]
    BY <2>1, FlattenTyped
  <2>3. 1 \in 1 .. Len(ss) /\ 1 - 1 = 0
    BY <2>1
  <2>4. f[1] = <<>> \o s
    BY <2>1, <2>2, <2>3
  <2> QED BY <2>1, <2>2, <2>4 DEF ss
<1> QED BY <1>2

Codes(ls) == [i \in DOMAIN ls |-> ls[i].code]
CodeOf(ls) == FlattenSeq(Codes(ls))

\* The code of each line is a list of tokens.
LEMMA CodesTyped ==
    ASSUME NEW ls \in Seq(ReadLine)
    PROVE  Codes(ls) \in Seq(Seq(Token)) /\ Len(Codes(ls)) = Len(ls)
<1>1. ASSUME NEW i \in 1 .. Len(ls) PROVE ls[i].code \in Seq(Token)
  <2>1. ls[i] \in ReadLine
    OBVIOUS
  <2> QED BY <2>1 DEF ReadLine
<1> QED BY <1>1 DEF Codes

\* What makes a list the join of two.
LEMMA JoinIs ==
    ASSUME NEW T, NEW p \in Seq(T), NEW q \in Seq(T), NEW a \in Seq(T),
           Len(a) = Len(p) + Len(q),
           \A i \in 1 .. Len(p) : a[i] = p[i],
           \A i \in 1 .. Len(q) : a[Len(p) + i] = q[i]
    PROVE  a = p \o q
<1> DEFINE b == p \o q
<1>1. /\ b \in Seq(T) /\ Len(b) = Len(p) + Len(q) /\ Len(p) \in Nat /\ Len(q) \in Nat
      /\ \A i \in 1 .. Len(p) : b[i] = p[i]
      /\ \A i \in 1 .. Len(q) : b[Len(p) + i] = q[i]
  OBVIOUS
<1> HIDE DEF b
<1>2. ASSUME NEW i \in 1 .. Len(a) PROVE a[i] = b[i]
  <2>1. CASE i \in 1 .. Len(p)
    BY <1>1, <2>1
  <2>2. CASE i \notin 1 .. Len(p)
    <3> DEFINE j == i - Len(p)
    <3>1. j \in 1 .. Len(q) /\ i = Len(p) + j
      BY <1>1, <2>2
    <3> HIDE DEF j
    <3> QED BY <1>1, <3>1
  <2> QED BY <2>1, <2>2
<1>3. a = b
  BY <1>1, <1>2, SameElements
<1> QED BY <1>3 DEF b

\* The codes of lines behind others.
LEMMA CodesJoined ==
    ASSUME NEW s \in Seq(ReadLine), NEW t \in Seq(ReadLine)
    PROVE  Codes(s \o t) = Codes(s) \o Codes(t)
<1> DEFINE u == s \o t
           a == Codes(u)
           p == Codes(s)
           q == Codes(t)
           V == Seq(Token)
<1>1. /\ u \in Seq(ReadLine) /\ Len(s) \in Nat /\ Len(t) \in Nat /\ Len(u) = Len(s) + Len(t)
      /\ \A i \in 1 .. Len(s) : u[i] = s[i]
      /\ \A i \in 1 .. Len(t) : u[Len(s) + i] = t[i]
  BY Joined
<1> HIDE DEF u
<1>2. /\ a \in Seq(V) /\ Len(a) = Len(u)
      /\ \A i \in 1 .. Len(u) : a[i] = u[i].code
  <2>1. DOMAIN u = 1 .. Len(u)
    BY <1>1
  <2> QED BY <1>1, <2>1, CodesTyped DEF Codes
<1>3. p \in Seq(V) /\ Len(p) = Len(s) /\ \A i \in 1 .. Len(s) : p[i] = s[i].code
  BY CodesTyped DEF Codes
<1>4. q \in Seq(V) /\ Len(q) = Len(t) /\ \A i \in 1 .. Len(t) : q[i] = t[i].code
  BY CodesTyped DEF Codes
<1> HIDE DEF a, p, q, V
<1>5. \A i \in 1 .. Len(p) : a[i] = p[i]
  <2> SUFFICES ASSUME NEW i \in 1 .. Len(p) PROVE a[i] = p[i]
    OBVIOUS
  <2>1. i \in 1 .. Len(s) /\ i \in 1 .. Len(u)
    BY <1>1, <1>3
  <2> QED BY <1>1, <1>2, <1>3, <2>1
<1>6. \A i \in 1 .. Len(q) : a[Len(p) + i] = q[i]
  <2> SUFFICES ASSUME NEW i \in 1 .. Len(q) PROVE a[Len(p) + i] = q[i]
    OBVIOUS
  <2>1. i \in 1 .. Len(t) /\ Len(s) + i \in 1 .. Len(u) /\ Len(p) + i = Len(s) + i
    BY <1>1, <1>3, <1>4
  <2> QED BY <1>1, <1>2, <1>4, <2>1
<1>7. Len(a) = Len(p) + Len(q)
  BY <1>1, <1>2, <1>3, <1>4
<1>8. a = p \o q
  BY <1>2, <1>3, <1>4, <1>5, <1>6, <1>7, JoinIs
<1> QED BY <1>8 DEF a, p, q, u

\* The code of lines behind others.
LEMMA CodeJoined ==
    ASSUME NEW s \in Seq(ReadLine), NEW t \in Seq(ReadLine)
    PROVE  /\ CodeOf(s \o t) = CodeOf(s) \o CodeOf(t)
           /\ CodeOf(s) \in Seq(Token) /\ CodeOf(t) \in Seq(Token)
<1>1. Codes(s \o t) = Codes(s) \o Codes(t)
  BY CodesJoined
<1>2. Codes(s) \in Seq(Seq(Token)) /\ Codes(t) \in Seq(Seq(Token))
  BY CodesTyped
<1> QED BY <1>1, <1>2, FlattenJoined DEF CodeOf

\* The code of one line.
LEMMA CodeOfOne ==
    ASSUME NEW l \in ReadLine
    PROVE  CodeOf(<<l>>) = l.code /\ l.code \in Seq(Token) /\ <<l>> \in Seq(ReadLine)
<1>1. l.code \in Seq(Token)
  BY DEF ReadLine
<1>2. Codes(<<l>>) = <<l.code>>
  <2>1. DOMAIN <<l>> = {1} /\ <<l>>[1] = l
    OBVIOUS
  <2>2. Codes(<<l>>) = [i \in {1} |-> l.code]
    BY <2>1 DEF Codes
  <2>3. [i \in {1} |-> l.code] = <<l.code>>
    OBVIOUS
  <2> QED BY <2>2, <2>3
<1> QED BY <1>1, <1>2, FlattenOne DEF CodeOf

\* The code of no line.
LEMMA CodeOfNone == CodeOf(<<>>) = <<>>
<1>1. Codes(<<>>) = <<>>
  BY DEF Codes
<1> QED BY <1>1, FlattenNone DEF CodeOf

---------------------------------------------------------------------------
\* The fragments of a body, without those that have a header or a `/*` in a string.

ReadBody == TemplateBody \ {"defines", "comments"}
ReadFunction == FunctionBody \ {"defines", "comments"}

FragmentCode(f) ==
    IF f = "plain" THEN <<"stmt">>
    ELSE IF f \in {"input a", "input b"} THEN <<"signal input", InputName(f)>>
    ELSE IF f = "field" THEN <<"signal", "x", ";">>
    ELSE IF f = "loop" THEN <<"for", "{">> \o (<<"stmt">> \o <<"}">>)
    ELSE IF f = "part" THEN Instance(<<"c">>, "B")
    ELSE IF f = "bad" THEN <<"bad">>
    ELSE IF f = "said" THEN <<"bad", "template", "w">>
    ELSE IF f = "unbalanced" THEN <<"bad", "}">>
    ELSE <<>>

\* The code of a list with one line.
LEMMA CodeOfSingle ==
    ASSUME NEW l, NEW ls, ls = <<l>>, ls \in Seq(ReadLine)
    PROVE  CodeOf(ls) = l.code
<1>1. l \in ReadLine
  <2>1. <<l>> \in Seq(ReadLine) /\ 1 \in 1 .. Len(<<l>>) /\ <<l>>[1] = l
    OBVIOUS
  <2> QED BY <2>1
<1> QED BY <1>1, CodeOfOne

\* The code of the lines of a fragment.
LEMMA FragmentCodeIs ==
    ASSUME NEW f \in ReadBody \cup {"field"}
    PROVE  CodeOf(Fragment(f)) = FragmentCode(f)
<1>0. Fragment(f) \in Seq(ReadLine)
  BY FragmentLines DEF ReadBody
<1>1. \A ts : Line(ts).code = ts /\ Comment(ts).code = <<>>
  BY DEF Line, Comment
<1>2. CASE f = "plain"
  <2>1. Fragment(f) = <<Line(<<"stmt">>)>> /\ FragmentCode(f) = <<"stmt">>
    BY <1>2 DEF Fragment, FragmentCode
  <2> QED BY <1>0, <1>1, <2>1, CodeOfSingle
<1>3. CASE f \in {"input a", "input b"}
  <2>1. Fragment(f) = <<Line(<<"signal input", InputName(f)>>)>>
        /\ FragmentCode(f) = <<"signal input", InputName(f)>>
    BY <1>3 DEF Fragment, FragmentCode
  <2> QED BY <1>0, <1>1, <2>1, CodeOfSingle
<1>4. CASE f = "field"
  <2>1. Fragment(f) = <<Line(<<"signal", "x", ";">>)>> /\ FragmentCode(f) = <<"signal", "x", ";">>
    BY <1>4 DEF Fragment, FragmentCode
  <2> QED BY <1>0, <1>1, <2>1, CodeOfSingle
<1>5. CASE f = "loop"
  <2> DEFINE a == Line(<<"for", "{">>)
             b == Line(<<"stmt">>)
             c == Line(<<"}">>)
  <2>1. Fragment(f) = <<a, b, c>> /\ FragmentCode(f) = <<"for", "{">> \o (<<"stmt">> \o <<"}">>)
    BY <1>5 DEF Fragment, FragmentCode
  <2>2. a.code = <<"for", "{">> /\ b.code = <<"stmt">> /\ c.code = <<"}">>
    BY <1>1
  <2> HIDE DEF a, b, c
  <2>3. a \in ReadLine /\ b \in ReadLine /\ c \in ReadLine
    <3>1. <<a, b, c>> \in Seq(ReadLine) /\ Len(<<a, b, c>>) = 3
      BY <1>0, <2>1
    <3> QED BY <3>1
  <2>4. /\ <<a>> \in Seq(ReadLine) /\ <<b>> \in Seq(ReadLine) /\ <<c>> \in Seq(ReadLine)
        /\ CodeOf(<<a>>) = a.code /\ CodeOf(<<b>>) = b.code /\ CodeOf(<<c>>) = c.code
    BY <2>3, CodeOfOne
  <2>5. <<b>> \o <<c>> \in Seq(ReadLine) /\ <<a>> \o (<<b>> \o <<c>>) = <<a, b, c>>
    BY <2>3, ThreeJoined
  <2>6. CodeOf(<<b>> \o <<c>>) = CodeOf(<<b>>) \o CodeOf(<<c>>)
    BY <2>4, CodeJoined
  <2>7. CodeOf(<<a>> \o (<<b>> \o <<c>>)) = CodeOf(<<a>>) \o CodeOf(<<b>> \o <<c>>)
    BY <2>4, <2>5, CodeJoined
  <2> QED BY <2>1, <2>2, <2>4, <2>5, <2>6, <2>7
<1>6. CASE f = "part"
  <2>1. Fragment(f) = <<Line(Instance(<<"c">>, "B"))>> /\ FragmentCode(f) = Instance(<<"c">>, "B")
    BY <1>6 DEF Fragment, FragmentCode
  <2> QED BY <1>0, <1>1, <2>1, CodeOfSingle
<1>7. CASE f = "bad"
  <2>1. Fragment(f) = <<Line(<<"bad">>)>> /\ FragmentCode(f) = <<"bad">>
    BY <1>7 DEF Fragment, FragmentCode
  <2> QED BY <1>0, <1>1, <2>1, CodeOfSingle
<1>8. CASE f = "said"
  <2> DEFINE l == [text |-> <<"log">>, code |-> <<"bad", "template", "w">>]
  <2>1. Fragment(f) = <<l>> /\ FragmentCode(f) = <<"bad", "template", "w">>
    BY <1>8 DEF Fragment, FragmentCode
  <2>2. l.code = <<"bad", "template", "w">>
    OBVIOUS
  <2> HIDE DEF l
  <2> QED BY <1>0, <2>1, <2>2, CodeOfSingle
<1>9. CASE f = "opens"
  <2> DEFINE l == Comment(<<"//", "{">>)
  <2>1. Fragment(f) = <<l>> /\ FragmentCode(f) = <<>>
    BY <1>9 DEF Fragment, FragmentCode
  <2>2. l.code = <<>>
    BY <1>1
  <2> HIDE DEF l
  <2> QED BY <1>0, <2>1, <2>2, CodeOfSingle
<1>10. CASE f = "closes"
  <2> DEFINE l == Comment(<<"//", "}">>)
  <2>1. Fragment(f) = <<l>> /\ FragmentCode(f) = <<>>
    BY <1>10 DEF Fragment, FragmentCode
  <2>2. l.code = <<>>
    BY <1>1
  <2> HIDE DEF l
  <2> QED BY <1>0, <2>1, <2>2, CodeOfSingle
<1>11. CASE f = "unbalanced"
  <2> DEFINE l == [text |-> <<"log", "}">>, code |-> <<"bad", "}">>]
  <2>1. Fragment(f) = <<l>> /\ FragmentCode(f) = <<"bad", "}">>
    BY <1>11 DEF Fragment, FragmentCode
  <2>2. l.code = <<"bad", "}">>
    OBVIOUS
  <2> HIDE DEF l
  <2> QED BY <1>0, <2>1, <2>2, CodeOfSingle
<1> QED BY <1>2, <1>3, <1>4, <1>5, <1>6, <1>7, <1>8, <1>9, <1>10, <1>11 DEF ReadBody, TemplateBody, FunctionBody

\* Names and the tokens within bodies start no definition and end no directive.
LEMMA CalmTokens ==
    /\ \A t \in Names : t \in FreeTokens /\ t \in Eaten /\ IsName(t) /\ t \notin Modifiers
    /\ \A t \in {"stmt", "signal input", "signal", "for", "bad", "{", "}", "(", ")", "=", ";", "a", "b", "c",
                 "x", "w", "B", "main"} : t \in FreeTokens
    /\ \A t \in {"{", "}", "(", ")", "=", "c", "B", "main"} : t \in Eaten
<1>1. \A t \in Names : t \notin Words /\ t \notin Punctuation /\ t \in Token
  BY NamesAssumption DEF Token
<1>2. \A t \in {"stmt", "signal input", "signal", "for", "bad", "{", "}", "(", ")", "=", ";", "a", "b", "c",
                 "x", "w", "B", "main"} : t \in Token
  BY DEF Token, Words, Punctuation
<1>3. \A t \in {"template", "function", "bus", "pragma", "include", "component", "eof", "bad"} \cup Modifiers : t \in Words
  BY DEF Words, Modifiers
<1>4. ASSUME NEW t \in Names PROVE t \in FreeTokens /\ t \in Eaten /\ IsName(t) /\ t \notin Modifiers
  <2>1. t \notin {"template", "function", "bus", "pragma", "include", "component", "eof", "bad"} /\ t \notin Modifiers
    BY <1>1, <1>3
  <2>2. t \notin Punctuation /\ t # ";" /\ t \in Token
    BY <1>1 DEF Punctuation
  <2> QED BY <2>1, <2>2 DEF FreeTokens, Eaten, IsName, Resumes
<1>5. \A t \in {"stmt", "signal input", "signal", "for", "bad", "{", "}", "(", ")", "=", ";", "a", "b", "c",
                 "x", "w", "B", "main"} : t \in FreeTokens
  BY <1>2 DEF FreeTokens, Resumes
<1>6. \A t \in {"{", "}", "(", ")", "=", "c", "B", "main"} : t \in Eaten
  BY <1>2 DEF Eaten
<1> QED BY <1>4, <1>5, <1>6

\* The grouping of three sequences, as a name to match.
Groups(T, s, t, u) == (s \o t) \o u = s \o (t \o u)

\* Joining is associative.
LEMMA Grouped ==
    ASSUME NEW T, NEW s \in Seq(T), NEW t \in Seq(T), NEW u \in Seq(T)
    PROVE  Groups(T, s, t, u) /\ s \o t \in Seq(T)
BY Associative DEF Groups

FiveGroups(T, c, n, w, s, z) == ((c \o n) \o (w \o s)) \o z = c \o ((n \o w) \o (s \o z))

\* Joining five lists in two orders.
LEMMA FiveParts ==
    ASSUME NEW T, NEW c \in Seq(T), NEW n \in Seq(T), NEW w \in Seq(T), NEW s \in Seq(T), NEW z \in Seq(T)
    PROVE  FiveGroups(T, c, n, w, s, z)
<1> DEFINE x == c \o n
           v == w \o s
           u == s \o z
           q == v \o z
<1>1. /\ x \in Seq(T) /\ v \in Seq(T) /\ u \in Seq(T) /\ Groups(T, w, s, z) /\ Groups(T, n, w, u)
  BY Grouped
<1>2. q \in Seq(T)
  <2> HIDE DEF v
  <2> QED BY <1>1, Grouped
<1>3. Groups(T, c, n, q)
  <2> HIDE DEF q
  <2> QED BY <1>2, Grouped
<1>4. Groups(T, x, v, z)
  <2> HIDE DEF x, v
  <2> QED BY <1>1, Grouped
<1>5. q = w \o u
  BY <1>1, Zenon DEF Groups
<1>6. (x \o v) \o z = x \o q
  BY <1>4, Zenon DEF Groups
<1>7. x \o q = c \o (n \o q)
  BY <1>3, Zenon DEF Groups
<1>8. n \o (w \o u) = (n \o w) \o u
  BY <1>1, Zenon DEF Groups
<1> QED BY <1>5, <1>6, <1>7, <1>8, Zenon DEF FiveGroups

\* An instance is a component, what is eaten, and a semicolon.
InstanceRest == <<"c", "=", "B", "(", ")", ";">>

\* Five elements, the last one apart.
LEMMA FiveCut ==
    ASSUME NEW T, NEW a \in T, NEW b \in T, NEW c \in T, NEW d \in T, NEW e \in T
    PROVE  /\ <<a, b, c, d, e>> = <<a, b, c, d>> \o <<e>> /\ <<a, b, c, d, e>> \in Seq(T)
           /\ <<a, b, c, d>> \in Seq(T) /\ <<e>> \in Seq(T)
OBVIOUS

\* The same as names to match.
CutLast(T, a, b, c, d, e) == <<a, b, c, d, e>> = <<a, b, c, d>> \o <<e>> /\ <<a, b, c, d>> \in Seq(T)
CutFirst(T, a, b, c, d, e, f) ==
    <<a, b, c, d, e, f>> = <<a>> \o <<b, c, d, e, f>> /\ <<a, b, c, d, e, f>> \in Seq(T)

\* Five elements, the last one apart, for given elements.
LEMMA LastCut ==
    ASSUME NEW T, NEW a \in T, NEW b \in T, NEW c \in T, NEW d \in T, NEW e \in T
    PROVE  CutLast(T, a, b, c, d, e)
BY DEF CutLast

\* Six elements, the first one apart, for given elements.
LEMMA FirstCut ==
    ASSUME NEW T, NEW a \in T, NEW b \in T, NEW c \in T, NEW d \in T, NEW e \in T, NEW f \in T
    PROVE  CutFirst(T, a, b, c, d, e, f)
BY DEF CutFirst

\* The code of a component within a body.
LEMMA PartIs == Instance(<<"c">>, "B") = <<"component">> \o InstanceRest /\ InstanceRest \in Seq(Token)
<1> DEFINE k == <<"component">>
           c == <<"c">>
           v == <<"=", "B", "(", ")", ";">>
<1>1. /\ "component" \in Token /\ "c" \in Token /\ "=" \in Token /\ "B" \in Token /\ "(" \in Token
      /\ ")" \in Token /\ ";" \in Token
  BY Tokens0
<1>2. <<"c">> \o <<"=", "B", "(", ")", ";">> = <<"c", "=", "B", "(", ")", ";">>
  <2>1. CutFirst(Token, "c", "=", "B", "(", ")", ";")
    BY <1>1, FirstCut
  <2> QED BY <2>1, Zenon DEF CutFirst
<1>3. <<"c", "=", "B", "(", ")", ";">> \in Seq(Token)
  <2>1. CutFirst(Token, "c", "=", "B", "(", ")", ";")
    BY <1>1, FirstCut
  <2> QED BY <2>1, Zenon DEF CutFirst
<1>4. c \in Seq(Token) /\ k \in Seq(Token)
  BY <1>1, OneToken
<1>5. v \in Seq(Token)
  BY <1>1, FiveCut
<1>6. Instance(<<"c">>, "B") = (k \o c) \o v
  BY DEF Instance
<1>7. c \o v = InstanceRest /\ InstanceRest \in Seq(Token)
  BY <1>2, <1>3, Zenon DEF InstanceRest
<1> HIDE DEF k, c, v
<1>8. Groups(Token, k, c, v)
  BY <1>4, <1>5, Grouped
<1>9. (k \o c) \o v = k \o InstanceRest
  BY <1>7, <1>8, Zenon DEF Groups
<1> QED BY <1>6, <1>7, <1>9, Zenon DEF k, c

\* The code of a component up to its semicolon, and what is behind it.
LEMMA InstanceOver ==
    ASSUME NEW name \in Seq(Token), NEW t \in Token, NEW z \in Seq(Token)
    PROVE  LET a == name \o <<"=", t, "(", ")">>
           IN  /\ a \in Seq(Token)
               /\ Instance(name, t) \o z = <<"component">> \o (a \o (<<";">> \o z))
<1> DEFINE c == <<"component">>
           w == <<"=", t, "(", ")">>
           s == <<";">>
           v == <<"=", t, "(", ")", ";">>
<1>0. "component" \in Token /\ "=" \in Token /\ "(" \in Token /\ ")" \in Token /\ ";" \in Token
  BY Tokens0
<1>1. c \in Seq(Token) /\ s \in Seq(Token)
  BY <1>0, OneToken
<1>2. v = w \o s /\ w \in Seq(Token)
  <2>1. CutLast(Token, "=", t, "(", ")", ";")
    BY <1>0, LastCut
  <2> QED BY <2>1, Zenon DEF CutLast
<1>3. Instance(name, t) = (c \o name) \o v
  BY DEF Instance
<1> HIDE DEF c, w, s, v
<1>4. name \o w \in Seq(Token)
  BY <1>2
<1>5. ((c \o name) \o (w \o s)) \o z = c \o ((name \o w) \o (s \o z))
  <2>1. FiveGroups(Token, c, name, w, s, z)
    BY <1>1, <1>2, FiveParts
  <2> QED BY <2>1, Zenon DEF FiveGroups
<1>9. Instance(name, t) \o z = c \o ((name \o w) \o (s \o z))
  BY <1>2, <1>3, <1>5, Zenon
<1> QED BY <1>4, <1>9 DEF c, w, s

---------------------------------------------------------------------------
\* The fragments of a body, one by one.

PairOver(T, a, b, z) == <<a, b>> \o z = <<a>> \o (<<b>> \o z)

\* Two tokens in front of a list.
LEMMA PairsOver ==
    ASSUME NEW T, NEW a \in T, NEW b \in T, NEW z \in Seq(T)
    PROVE  PairOver(T, a, b, z)
<1>1. <<a>> \in Seq(T) /\ <<b>> \in Seq(T) /\ <<a>> \o <<b>> = <<a, b>>
  BY PairJoined, OneToken
<1>2. (<<a>> \o <<b>>) \o z = <<a>> \o (<<b>> \o z)
  BY <1>1, Associative
<1> QED BY <1>1, <1>2, Zenon DEF PairOver

\* The fragment "plain" is passed over.
LEMMA StatementOver ==
    ASSUME NEW k, NEW n, NEW ms, NEW o, NEW z \in More
    PROVE  Leads(Block(k, n, ms, FragmentCode("plain") \o z, 1, o), Block(k, n, ms, z, 1, o))
<1>1. FragmentCode("plain") = <<"stmt">>
  BY DEF FragmentCode
<1> QED BY <1>1, PassesStatement

\* The fragments "input a" and "input b" add their name to the members.
LEMMA InputOver ==
    ASSUME NEW k, NEW n, NEW ms \in Seq(Token), NEW o, NEW z \in More, NEW f \in {"input a", "input b"}
    PROVE  Leads(Block(k, n, ms, FragmentCode(f) \o z, 1, o),
                 Block(k, n, ms \o <<InputName(f)>>, z, 1, o))
<1> DEFINE u == InputName(f)
<1>1. FragmentCode(f) = <<"signal input", u>>
  BY DEF FragmentCode
<1>2. u \in Token /\ "signal input" \in Token
  <2>1. "a" \in Token /\ "b" \in Token /\ "signal input" \in Token
    BY Tokens0
  <2> QED BY <2>1 DEF InputName
<1>3. z \in Seq(Token)
  BY DEF More
<1> HIDE DEF u
<1>4. <<"signal input", u>> \o z = <<"signal input">> \o (<<u>> \o z)
  <2>1. PairOver(Token, "signal input", u, z)
    BY <1>2, <1>3, PairsOver
  <2> QED BY <2>1, Zenon DEF PairOver
<1>5. Append(ms, u) = ms \o <<u>>
  BY <1>2, AppendOne
<1>6. Leads(Block(k, n, ms, <<"signal input">> \o (<<u>> \o z), 1, o),
            Block(k, n, Append(ms, u), z, 1, o))
  BY <1>2, PassesInput
<1> QED BY <1>1, <1>4, <1>5, <1>6 DEF u

\* The code of a loop, token by token.
LEMMA LoopCode ==
    ASSUME NEW z \in More
    PROVE  /\ FragmentCode("loop") \o z = <<"for">> \o (<<"{">> \o (<<"stmt">> \o (<<"}">> \o z)))
           /\ <<"stmt">> \o (<<"}">> \o z) \in More /\ <<"}">> \o z \in More
<1> DEFINE p == <<"for", "{">>
           q == <<"stmt">>
           r == <<"}">>
           t == q \o r
           v == r \o z
           y == q \o v
<1>0. "for" \in Token /\ "{" \in Token /\ "stmt" \in Token /\ "}" \in Token /\ z \in Seq(Token)
  BY Tokens0 DEF More
<1>1. q \in Seq(Token) /\ r \in Seq(Token)
  BY <1>0, OneToken
<1>2. p \in Seq(Token)
  BY <1>0, PairJoined
<1>3. v \in More
  BY <1>0, OneInFront
<1>4. y \in More
  <2> HIDE DEF v
  <2> QED BY <1>0, <1>3, OneInFront
<1>5. FragmentCode("loop") = p \o t
  BY DEF FragmentCode
<1>6. v \in Seq(Token) /\ y \in Seq(Token)
  <2> HIDE DEF v, y
  <2> QED BY <1>3, <1>4 DEF More
<1>7. t \in Seq(Token) /\ Groups(Token, q, r, z)
  <2> HIDE DEF q, r
  <2> QED BY <1>0, <1>1, Grouped
<1>8. Groups(Token, p, t, z)
  <2> HIDE DEF p, t
  <2> QED BY <1>0, <1>2, <1>7, Grouped
<1>9. (p \o t) \o z = p \o (t \o z)
  BY <1>8, Zenon DEF Groups
<1>10. t \o z = y
  BY <1>7, Zenon DEF Groups
<1>11. p \o y = <<"for">> \o (<<"{">> \o y)
  <2> HIDE DEF y
  <2>1. PairOver(Token, "for", "{", y)
    BY <1>0, <1>6, PairsOver
  <2> QED BY <2>1, Zenon DEF PairOver, p
<1> QED BY <1>3, <1>4, <1>5, <1>9, <1>10, <1>11, Zenon

\* The fragment "loop" is passed over and leaves the depth as it is.
LEMMA LoopOver ==
    ASSUME NEW k, NEW n, NEW ms, NEW o, NEW z \in More
    PROVE  Leads(Block(k, n, ms, FragmentCode("loop") \o z, 1, o), Block(k, n, ms, z, 1, o))
<1> DEFINE v == <<"}">> \o z
           y == <<"stmt">> \o v
<1>1. FragmentCode("loop") \o z = <<"for">> \o (<<"{">> \o y) /\ y \in More /\ v \in More
  BY LoopCode
<1>0. 1 + 1 = 2
  OBVIOUS
<1>2. "{" \in Token
  BY Tokens0
<1>3. Leads(Block(k, n, ms, v, 2, o), Block(k, n, ms, z, 1, o))
  BY LeavesLoop
<1> HIDE DEF v
<1>4. Leads(Block(k, n, ms, y, 2, o), Block(k, n, ms, v, 2, o))
  BY <1>1, PassesStatement
<1> HIDE DEF y
<1>5. Leads(Block(k, n, ms, <<"for">> \o (<<"{">> \o y), 1, o), Block(k, n, ms, y, 1 + 1, o))
  BY <1>1, <1>2, EntersLoop
<1> QED BY <1>0, <1>1, <1>3, <1>4, <1>5, LeadsJoined

\* The code of a component, its keyword apart.
LEMMA PartCode ==
    ASSUME NEW z \in More
    PROVE  /\ FragmentCode("part") \o z = <<"component">> \o (InstanceRest \o z)
           /\ InstanceRest \o z \in More
<1> DEFINE c == <<"component">>
           v == InstanceRest
<1>1. FragmentCode("part") = c \o v
  BY PartIs DEF FragmentCode
<1>2. v \in Seq(Token)
  BY PartIs
<1>3. z \in Seq(Token) /\ c \in Seq(Token)
  <2>1. "component" \in Token
    BY Tokens0
  <2> QED BY <2>1, OneToken DEF More
<1> HIDE DEF c, v
<1>4. v \o z \in More
  BY <1>2, AnyInFront
<1>5. Groups(Token, c, v, z)
  BY <1>2, <1>3, Grouped
<1>6. (c \o v) \o z = c \o (v \o z)
  BY <1>5, Zenon DEF Groups
<1> QED BY <1>1, <1>4, <1>6 DEF c, v

\* A component is what parse_stmt expects of one.
LEMMA PartMatches ==
    /\ Len(InstanceRest) = Len(PartTokens) /\ PartTokens \in Seq(Wants)
    /\ \A i \in 1 .. Len(InstanceRest) :
          PartTokens[i] # "name" /\ Matches(PartTokens[i], InstanceRest[i])
<1>1. PartTokens \in Seq(Wants)
  <2>1. "part" \in Wants /\ "=" \in Wants /\ "(" \in Wants /\ ")" \in Wants /\ ";" \in Wants
    BY Tokens0 DEF Wants
  <2>2. CutFirst(Wants, "part", "=", "part", "(", ")", ";")
    BY <2>1, FirstCut
  <2> QED BY <2>2, Zenon DEF PartTokens, CutFirst
<1>2. IsName("c") /\ IsName("B")
  BY DEF IsName, Punctuation
<1>3. Len(InstanceRest) = 6 /\ Len(PartTokens) = 6
  BY DEF InstanceRest, PartTokens
<1>4. /\ InstanceRest[1] = "c" /\ InstanceRest[2] = "=" /\ InstanceRest[3] = "B"
      /\ InstanceRest[4] = "(" /\ InstanceRest[5] = ")" /\ InstanceRest[6] = ";"
  BY DEF InstanceRest
<1>5. /\ PartTokens[1] = "part" /\ PartTokens[2] = "=" /\ PartTokens[3] = "part"
      /\ PartTokens[4] = "(" /\ PartTokens[5] = ")" /\ PartTokens[6] = ";"
  BY DEF PartTokens
<1>6. ASSUME NEW i \in 1 .. 6
      PROVE  PartTokens[i] # "name" /\ Matches(PartTokens[i], InstanceRest[i])
  <2>1. i = 1 \/ i = 2 \/ i = 3 \/ i = 4 \/ i = 5 \/ i = 6
    OBVIOUS
  <2> QED BY <1>2, <1>4, <1>5, <2>1 DEF Matches
<1> QED BY <1>1, <1>3, <1>6

\* The fragment "part" is passed over.
LEMMA PartOver ==
    ASSUME NEW k, NEW n, NEW ms, NEW o, NEW z \in More
    PROVE  Leads(Block(k, n, ms, FragmentCode("part") \o z, 1, o), Block(k, n, ms, z, 1, o))
<1> DEFINE v == InstanceRest \o z
           x == Block(k, n, ms, <<"component">> \o v, 1, o)
<1>1. FragmentCode("part") \o z = <<"component">> \o v /\ v \in More
  BY PartCode
<1>2. Leads(x, Wanting(x, v, PartTokens))
  <2> HIDE DEF v
  <2> QED BY <1>1, StartsPart
<1>3. x.kind = k /\ x.name = n /\ x.members = ms /\ x.depth = 1 /\ x.out = o
  <2> HIDE DEF v
  <2> QED BY BlockFields
<1> HIDE DEF x
<1>4. Leads(Wanting(x, v, PartTokens), Wanting(x, z, <<>>))
  BY PartIs, PartMatches, ExpectsAll
<1>5. Leads(Wanting(x, z, <<>>), St(z, "body", x.kind, x.name, x.members, <<>>, x.depth, x.out))
  BY WantsNothing
<1>6. St(z, "body", x.kind, x.name, x.members, <<>>, x.depth, x.out) = Block(k, n, ms, z, 1, o)
  BY <1>3 DEF Block
<1>7. Leads(x, Block(k, n, ms, z, 1, o))
  BY <1>2, <1>4, <1>5, <1>6, LeadsJoined
<1> QED BY <1>1, <1>7 DEF x

\* The fragments that end a definition.
Unread == {"bad", "said", "unbalanced"}

\* A fragment the parser reads: the members of the block grow by its inputs.
LEMMA GoodFragment ==
    ASSUME NEW k, NEW n, NEW ms \in Seq(Token), NEW o, NEW z \in More,
           NEW f \in ReadBody \ Unread
    PROVE  Leads(Block(k, n, ms, FragmentCode(f) \o z, 1, o),
                 Block(k, n, ms \o InputsOn("templates", f), z, 1, o))
<1>1. CASE f \in {"input a", "input b"}
  <2>1. InputsOn("templates", f) = <<InputName(f)>>
    BY <1>1 DEF InputsOn, Where
  <2> QED BY <1>1, <2>1, InputOver
<1>2. CASE f \notin {"input a", "input b"}
  <2>1. InputsOn("templates", f) = <<>>
    BY <1>2, Zenon DEF InputsOn, Where
  <2>2. ms \o <<>> = ms
    BY EmptyEnd
  <2>3. Leads(Block(k, n, ms, FragmentCode(f) \o z, 1, o), Block(k, n, ms, z, 1, o))
    <3>1. CASE f = "plain"
      BY <3>1, StatementOver
    <3>2. CASE f = "loop"
      BY <3>2, LoopOver
    <3>3. CASE f = "part"
      BY <3>3, PartOver
    <3>4. CASE f \in {"opens", "closes"}
      <4>1. FragmentCode(f) = <<>>
        BY <3>4 DEF FragmentCode
      <4>2. <<>> \o z = z
        BY EmptyEnd DEF More
      <4> QED BY <4>1, <4>2, LeadsHere
    <3> QED BY <1>2, <3>1, <3>2, <3>3, <3>4 DEF Unread, ReadBody, TemplateBody, FunctionBody
  <2> QED BY <2>1, <2>2, <2>3
<1> QED BY <1>1, <1>2

---------------------------------------------------------------------------
\* The fragments of a body where the parser is not in a definition.

\* The code of a fragment is a list of tokens.
LEMMA FragmentTyped ==
    ASSUME NEW f \in ReadBody \cup {"field"}
    PROVE  FragmentCode(f) \in Seq(Token)
<1>1. Fragment(f) \in Seq(ReadLine) /\ <<>> \in Seq(ReadLine)
  BY FragmentLines DEF ReadBody
<1>2. CodeOf(Fragment(f)) \in Seq(Token)
  BY <1>1, CodeJoined
<1> QED BY <1>2, FragmentCodeIs

\* A list that starts with no parenthesis, with tokens in front that do not either.
LEMMA TailInFront ==
    ASSUME NEW a \in Seq(Token), NEW z \in Tails, a = <<>> \/ a[1] # "("
    PROVE  a \o z \in Tails
<1>1. z \in More /\ z \in Seq(Token) /\ z # <<>> /\ Head(z) # "("
  BY DEF Tails, More
<1>2. a \o z \in More
  BY <1>1, AnyInFront
<1>3. Head(a \o z) # "("
  <2>1. CASE a = <<>>
    <3>1. <<>> \o z = z
      BY <1>1, EmptyEnd
    <3> QED BY <1>1, <2>1, <3>1
  <2>2. CASE a # <<>> /\ a[1] # "("
    <3>1. Len(a) > 0 /\ 1 \in 1 .. Len(a)
      BY <2>2
    <3>2. (a \o z)[1] = a[1] /\ Len(a \o z) > 0 /\ a \o z \in Seq(Token)
      BY <1>1, <3>1, Joined
    <3> QED BY <2>2, <3>2
  <2> QED BY <2>1, <2>2
<1> QED BY <1>2, <1>3 DEF Tails

\* No fragment starts with a parenthesis.
LEMMA FragmentTail ==
    ASSUME NEW f \in ReadBody \cup {"field"}, NEW z \in Tails
    PROVE  FragmentCode(f) \o z \in Tails
<1>1. FragmentCode(f) \in Seq(Token)
  BY FragmentTyped
<1>2. FragmentCode(f) = <<>> \/ FragmentCode(f)[1] # "("
  <2>1. CASE f = "loop"
    <3> DEFINE p == <<"for", "{">>
               t == <<"stmt">> \o <<"}">>
    <3>1. p \in Seq(Token) /\ t \in Seq(Token)
      BY Tokens0, PairJoined
    <3>2. FragmentCode(f) = p \o t
      BY <2>1 DEF FragmentCode
    <3>3. Len(p) > 0 /\ p[1] # "("
      OBVIOUS
    <3> HIDE DEF p, t
    <3>4. (p \o t)[1] = p[1]
      BY <3>1, <3>3, Joined
    <3> QED BY <3>2, <3>3, <3>4
  <2>2. CASE f = "part"
    <3> DEFINE p == <<"component">>
    <3>1. FragmentCode(f) = p \o InstanceRest /\ InstanceRest \in Seq(Token)
      BY <2>2, PartIs DEF FragmentCode
    <3>0. "component" \in Token
      BY Tokens0
    <3>2. p \in Seq(Token) /\ Len(p) > 0 /\ p[1] # "("
      BY <3>0, Sequence1
    <3> HIDE DEF p
    <3>3. (p \o InstanceRest)[1] = p[1]
      BY <3>1, <3>2, Joined
    <3> QED BY <3>1, <3>2, <3>3
  <2>3. CASE f \notin {"loop", "part"}
    BY <2>3 DEF FragmentCode
  <2> QED BY <2>1, <2>2, <2>3
<1> QED BY <1>1, <1>2, TailInFront

\* Most fragments have only tokens that start no definition.
LEMMA FragmentFree ==
    ASSUME NEW f \in (ReadBody \cup {"field"}) \ {"part", "said"}
    PROVE  FragmentCode(f) \in Seq(FreeTokens)
<1>1. /\ "stmt" \in FreeTokens /\ "signal input" \in FreeTokens /\ "signal" \in FreeTokens
      /\ "for" \in FreeTokens /\ "bad" \in FreeTokens /\ "{" \in FreeTokens /\ "}" \in FreeTokens
      /\ "a" \in FreeTokens /\ "b" \in FreeTokens /\ "x" \in FreeTokens /\ ";" \in FreeTokens
  BY CalmTokens
<1>2. InputName(f) \in FreeTokens
  BY <1>1 DEF InputName
<1>3. CASE f = "loop"
  <2>1. <<"for", "{">> \in Seq(FreeTokens) /\ <<"stmt">> \o <<"}">> \in Seq(FreeTokens)
    BY <1>1, PairJoined, ZenonT(60)
  <2>2. FragmentCode(f) = <<"for", "{">> \o (<<"stmt">> \o <<"}">>)
    BY <1>3 DEF FragmentCode
  <2> QED BY <2>1, <2>2, Joined
<1>4. CASE f \in {"input a", "input b"}
  <2>1. <<"signal input", InputName(f)>> \in Seq(FreeTokens)
    BY <1>1, <1>2, Sequence2
  <2> QED BY <1>4, <2>1 DEF FragmentCode
<1>5. CASE f = "field"
  <2>1. <<"signal", "x", ";">> \in Seq(FreeTokens)
    BY <1>1, Sequence3
  <2> QED BY <1>5, <2>1 DEF FragmentCode
<1>6. CASE f \in {"plain", "bad"}
  <2>1. <<"stmt">> \in Seq(FreeTokens) /\ <<"bad">> \in Seq(FreeTokens)
    BY <1>1, Sequence1
  <2> QED BY <1>6, <2>1 DEF FragmentCode
<1>7. CASE f \in {"opens", "closes"}
  <2>1. FragmentCode(f) = <<>>
    BY <1>7 DEF FragmentCode
  <2>2. <<>> \in Seq(FreeTokens)
    OBVIOUS
  <2> QED BY <2>1, <2>2
<1>8. CASE f = "unbalanced"
  <2>1. <<"bad", "}">> \in Seq(FreeTokens)
    BY <1>1, Sequence2
  <2>2. FragmentCode(f) = <<"bad", "}">>
    BY <1>8 DEF FragmentCode
  <2> QED BY <2>1, <2>2
<1> QED BY <1>3, <1>4, <1>5, <1>6, <1>7, <1>8 DEF ReadBody, TemplateBody, FunctionBody

\* What comes after is reached, and nothing is found on the way.
FreeOver(c) ==
    \A y, o : \A z \in Tails :
        IsFree(y, c \o z, o) => \E x : Leads(y, x) /\ IsFree(x, z, o)

\* Between definitions a component is passed over up to its semicolon.
LEMMA PartFree == FreeOver(FragmentCode("part"))
<1> SUFFICES ASSUME NEW y, NEW o, NEW z \in Tails, IsFree(y, FragmentCode("part") \o z, o)
             PROVE  \E x : Leads(y, x) /\ IsFree(x, z, o)
  BY DEF FreeOver
<1> DEFINE a == <<"c">> \o <<"=", "B", "(", ")">>
<1>1. z \in More /\ z \in Seq(Token)
  BY DEF Tails, More
<1>2. FragmentCode("part") = Instance(<<"c">>, "B")
  BY DEF FragmentCode
<1>3. <<"c">> \in Seq(Token) /\ "B" \in Token
  <2>1. "c" \in Token /\ "B" \in Token
    BY Tokens0
  <2> QED BY <2>1, Sequence1
<1>4. Instance(<<"c">>, "B") \o z = <<"component">> \o (a \o (<<";">> \o z))
  BY <1>1, <1>3, InstanceOver
<1>5. a \in Seq(Eaten)
  <2>1. "c" \in Eaten /\ "=" \in Eaten /\ "B" \in Eaten /\ "(" \in Eaten /\ ")" \in Eaten
    BY CalmTokens
  <2>2. <<"c">> \in Seq(Eaten) /\ <<"=", "B", "(", ")">> \in Seq(Eaten)
    BY <2>1
  <2> QED BY <2>2, Joined
<1> HIDE DEF a
<1>6. IsFree(y, <<"component">> \o (a \o (<<";">> \o z)), o)
  BY <1>2, <1>4
<1> QED BY <1>1, <1>5, <1>6, FreeInstance

\* The word template in a string is no header: the parser gives up on it and is
\* between definitions again.
LEMMA SaidFree == FreeOver(FragmentCode("said"))
<1> SUFFICES ASSUME NEW y, NEW o, NEW z \in Tails, IsFree(y, FragmentCode("said") \o z, o)
             PROVE  \E x : Leads(y, x) /\ IsFree(x, z, o)
  BY DEF FreeOver
<1> DEFINE r == <<"w">> \o z
           q == <<"template">> \o r
           s == <<"bad">>
<1>0. "bad" \in Token /\ "template" \in Token /\ "w" \in Token /\ z \in More /\ z \in Seq(Token)
  BY Tokens0 DEF Tails, More
<1>1. r \in More
  BY <1>0, OneInFront
<1>2. q \in More
  <2> HIDE DEF r
  <2> QED BY <1>0, <1>1, OneInFront
<1>3. FragmentCode("said") \o z = s \o q
  <2>1. FragmentCode("said") = <<"bad", "template", "w">>
    BY DEF FragmentCode
  <2>2. <<"bad", "template", "w">> \o z = <<"bad">> \o (<<"template">> \o (<<"w">> \o z))
    BY <1>0, ThreeOver
  <2> QED BY <2>1, <2>2
<1>4. s \in Seq(FreeTokens)
  <2>1. "bad" \in FreeTokens
    BY CalmTokens
  <2> QED BY <2>1, Sequence1
<1> DEFINE u == Go(y, q, y.mode)
<1>5. Leads(y, u) /\ IsFree(u, q, o)
  <2> HIDE DEF q, s
  <2> QED BY <1>2, <1>3, <1>4, FreePasses
<1> HIDE DEF u
<1>6. Leads(u, St(r, "modifiers", "template", "", <<>>, <<>>, 0, o))
  <2> HIDE DEF r
  <2> QED BY <1>1, <1>5, StartsTemplate
<1>7. Leads(St(r, "modifiers", "template", "", <<>>, <<>>, 0, o),
            St(r, "expect", "template", "", <<>>, HeaderTokens, 1, o))
  <2>1. "w" \in Token \ Modifiers /\ <<>> \in Seq(Modifiers)
    BY <1>0 DEF Modifiers
  <2>2. <<>> \o r = r
    BY <1>1, EmptyEnd DEF More
  <2>3. Leads(St(<<>> \o r, "modifiers", "template", "", <<>>, <<>>, 0, o),
              St(r, "expect", "template", "", <<>>, HeaderTokens, 1, o))
    BY <1>0, <2>1, PassesModifiers
  <2> QED BY <2>2, <2>3
<1>8. Leads(St(r, "expect", "template", "", <<>>, HeaderTokens, 1, o),
            St(z, "expect", "template", "w", <<>>, HeaderRest, 1, o))
  <2>1. IsName("w")
    BY DEF IsName, Punctuation
  <2> QED BY <1>0, <2>1, ReadsName
<1> DEFINE x == St(z, "expect", "template", "w", <<>>, HeaderRest, 1, o)
<1>9. Leads(x, Go(x, z, "skip")) /\ IsFree(Go(x, z, "skip"), z, o)
  BY NoHeader
<1> HIDE DEF x, r
<1>10. Leads(y, x)
  BY <1>5, <1>6, <1>7, <1>8, LeadsJoined DEF x
<1>11. Leads(y, Go(x, z, "skip"))
  BY <1>9, <1>10, LeadsJoined
<1> QED BY <1>9, <1>11

\* Between definitions every fragment is passed over.
LEMMA FreeFragment ==
    ASSUME NEW f \in ReadBody \cup {"field"}
    PROVE  FreeOver(FragmentCode(f))
<1>1. CASE f \notin {"part", "said"}
  <2>1. FragmentCode(f) \in Seq(FreeTokens)
    BY <1>1, FragmentFree
  <2>2. ASSUME NEW y, NEW o, NEW z \in Tails, IsFree(y, FragmentCode(f) \o z, o)
        PROVE  \E x : Leads(y, x) /\ IsFree(x, z, o)
    <3>1. z \in More
      BY DEF Tails
    <3>2. Leads(y, Go(y, z, y.mode)) /\ IsFree(Go(y, z, y.mode), z, o)
      BY <2>1, <2>2, <3>1, FreePasses
    <3> QED BY <3>2
  <2> QED BY <2>2 DEF FreeOver
<1>2. CASE f = "part"
  BY <1>2, PartFree
<1>3. CASE f = "said"
  BY <1>3, SaidFree
<1> QED BY <1>1, <1>2, <1>3

\* A fragment the parser does not read ends the definition.
LEMMA BadFragment ==
    ASSUME NEW k, NEW n, NEW ms, NEW o, NEW z \in Tails, NEW f \in Unread
    PROVE  \E y : Leads(Block(k, n, ms, FragmentCode(f) \o z, 1, o), y) /\ IsFree(y, z, o)
<1> DEFINE r == FragmentCode(f) \o z
           x == Block(k, n, ms, r, 1, o)
<1>0. /\ "bad" \in Token /\ "template" \in Token /\ "w" \in Token /\ z \in More /\ z \in Seq(Token)
  BY Tokens0 DEF Tails, More
<1>1. \E v \in More : r = <<"bad">> \o v
  <2>1. CASE f = "bad"
    BY <1>0, <2>1 DEF FragmentCode
  <2>2. CASE f = "said"
    <3> DEFINE u == <<"w">> \o z
               v == <<"template">> \o u
    <3>1. u \in More
      BY <1>0, OneInFront
    <3>2. v \in More
      <4> HIDE DEF u
      <4> QED BY <1>0, <3>1, OneInFront
    <3>3. FragmentCode(f) = <<"bad", "template", "w">>
      BY <2>2 DEF FragmentCode
    <3>4. <<"bad", "template", "w">> \o z = <<"bad">> \o (<<"template">> \o (<<"w">> \o z))
      BY <1>0, ThreeOver
    <3>5. r = <<"bad">> \o v
      BY <3>3, <3>4
    <3> QED BY <3>2, <3>5
  <2>3. CASE f = "unbalanced"
    <3> DEFINE v == <<"}">> \o z
    <3>1. "}" \in Token
      BY Tokens0
    <3>2. v \in More
      BY <1>0, <3>1, OneInFront
    <3>3. FragmentCode(f) = <<"bad", "}">>
      BY <2>3 DEF FragmentCode
    <3>4. <<"bad", "}">> \o z = <<"bad">> \o (<<"}">> \o z)
      <4>1. \A t \in Token : <<"bad", t>> \o z = <<"bad">> \o (<<t>> \o z)
        BY <1>0, TwoOver
      <4> QED BY <3>1, <4>1, Zenon
    <3>5. r = <<"bad">> \o v
      BY <3>3, <3>4
    <3> QED BY <3>2, <3>5
  <2> QED BY <2>1, <2>2, <2>3 DEF Unread
<1>2. Leads(x, Go(x, r, "skip")) /\ x.out = o
  <2>1. PICK v \in More : r = <<"bad">> \o v
    BY <1>1
  <2> HIDE DEF r
  <2>2. LET q == <<"bad">> \o v
            w == Block(k, n, ms, q, 1, o)
        IN  Leads(w, Go(w, q, "skip")) /\ w.out = o
    BY GivesUp
  <2> QED BY <2>1, <2>2
<1>3. IsFree(Go(x, r, "skip"), r, o)
  <2> HIDE DEF x, r
  <2> QED BY <1>2, FreeGo
<1>4. FreeOver(FragmentCode(f))
  <2>1. f \in ReadBody
    BY DEF Unread, ReadBody, TemplateBody, FunctionBody
  <2> QED BY <2>1, FreeFragment
<1>5. \E y : Leads(Go(x, r, "skip"), y) /\ IsFree(y, z, o)
  <2> HIDE DEF x
  <2> QED BY <1>3, <1>4 DEF FreeOver
<1> HIDE DEF x
<1>6. \E y : Leads(x, y) /\ IsFree(y, z, o)
  BY <1>2, <1>5, LeadsJoined
<1> QED BY <1>6 DEF x

---------------------------------------------------------------------------
\* A whole body.

BodySource == ReadBody \cup {"field"}
BodyLines(b) == FlattenSeq([i \in DOMAIN b |-> Fragment(b[i])])
BodyInputs(b) == FlattenSeq([i \in DOMAIN b |-> InputsOn("templates", b[i])])

\* The code of a body, fragment by fragment.
LEMMA BodySteps ==
    ASSUME NEW b \in Seq(BodySource)
    PROVE  \E c : /\ c[0] = <<>>
                  /\ \A m \in 1 .. Len(b) : c[m] = c[m - 1] \o FragmentCode(b[m])
                  /\ CodeOf(BodyLines(b)) = c[Len(b)]
                  /\ \A m \in 0 .. Len(b) : c[m] \in Seq(Token)
<1> DEFINE ss == [i \in DOMAIN b |-> Fragment(b[i])]
<1>1. ss \in Seq(Seq(ReadLine)) /\ Len(ss) = Len(b) /\ \A i \in 1 .. Len(b) : ss[i] = Fragment(b[i])
  <2>1. \A i \in DOMAIN b : Fragment(b[i]) \in Seq(ReadLine)
    BY FragmentLines DEF BodySource, ReadBody
  <2> QED BY <2>1
<1>2. BodyLines(b) = FlattenSeq(ss)
  BY DEF BodyLines
<1> HIDE DEF ss
<1>3. PICK f : /\ f[0] = <<>>
               /\ \A n \in 1 .. Len(ss) : f[n] = f[n - 1] \o ss[n]
               /\ FlattenSeq(ss) = f[Len(ss)]
               /\ \A n \in 0 .. Len(ss) : f[n] \in Seq(ReadLine)
  <2> DEFINE V == Seq(ReadLine)
  <2>1. ss \in Seq(V)
    BY <1>1
  <2> QED BY <2>1, FlattenTyped
<1> DEFINE c == [m \in 0 .. Len(b) |-> CodeOf(f[m])]
<1>4. Len(b) \in Nat
  OBVIOUS
<1>5. c[0] = <<>> /\ CodeOf(BodyLines(b)) = c[Len(b)]
  BY <1>1, <1>2, <1>3, <1>4, CodeOfNone
<1>6. ASSUME NEW m \in 0 .. Len(b) PROVE c[m] \in Seq(Token)
  <2>1. f[m] \in Seq(ReadLine)
    BY <1>1, <1>3
  <2>2. CodeOf(f[m]) \in Seq(Token)
    BY <2>1, CodeJoined
  <2> QED BY <2>2
<1>7. ASSUME NEW m \in 1 .. Len(b) PROVE c[m] = c[m - 1] \o FragmentCode(b[m])
  <2>1. m - 1 \in 0 .. Len(b) /\ m \in 0 .. Len(b) /\ b[m] \in BodySource
    BY <1>4
  <2>2. f[m] = f[m - 1] \o Fragment(b[m]) /\ f[m - 1] \in Seq(ReadLine)
    BY <1>1, <1>3, <2>1
  <2>3. Fragment(b[m]) \in Seq(ReadLine) /\ CodeOf(Fragment(b[m])) = FragmentCode(b[m])
    BY <2>1, FragmentLines, FragmentCodeIs DEF BodySource, ReadBody
  <2>4. CodeOf(f[m]) = CodeOf(f[m - 1]) \o FragmentCode(b[m])
    <3> DEFINE s == f[m - 1]
               t == Fragment(b[m])
    <3>1. s \in Seq(ReadLine) /\ t \in Seq(ReadLine) /\ f[m] = s \o t /\ CodeOf(t) = FragmentCode(b[m])
      BY <2>2, <2>3
    <3> HIDE DEF s, t
    <3>2. CodeOf(s \o t) = CodeOf(s) \o CodeOf(t)
      BY <3>1, CodeJoined
    <3>3. CodeOf(f[m]) = CodeOf(s) \o FragmentCode(b[m])
      BY <3>1, <3>2
    <3> QED BY <3>3 DEF s
  <2> QED BY <2>1, <2>4
<1> HIDE DEF c
<1> QED BY <1>5, <1>6, <1>7

\* No code is passed over.
LEMMA FreeNothing == FreeOver(<<>>)
<1> SUFFICES ASSUME NEW y, NEW o, NEW z \in Tails, IsFree(y, <<>> \o z, o)
             PROVE  \E x : Leads(y, x) /\ IsFree(x, z, o)
  BY DEF FreeOver
<1>1. <<>> \o z = z
  BY EmptyEnd DEF Tails, More
<1> QED BY <1>1, LeadsHere

\* One fragment more is passed over.
LEMMA FreeMore ==
    ASSUME NEW c \in Seq(Token), NEW f \in BodySource, FreeOver(c)
    PROVE  FreeOver(c \o FragmentCode(f))
<1> SUFFICES ASSUME NEW y, NEW o, NEW z \in Tails, IsFree(y, (c \o FragmentCode(f)) \o z, o)
             PROVE  \E x : Leads(y, x) /\ IsFree(x, z, o)
  BY DEF FreeOver
<1> DEFINE g == FragmentCode(f)
           v == g \o z
<1>1. v \in Tails /\ g \in Seq(Token) /\ FreeOver(g)
  BY FragmentTail, FragmentTyped, FreeFragment DEF BodySource
<1>2. IsFree(y, (c \o g) \o z, o) /\ z \in Seq(Token)
  BY DEF Tails, More
<1> HIDE DEF g
<1>3. (c \o g) \o z = c \o v
  <2>1. Groups(Token, c, g, z)
    BY <1>1, <1>2, Grouped
  <2> QED BY <2>1, Zenon DEF Groups
<1>4. IsFree(y, c \o v, o)
  BY <1>2, <1>3
<1>5. PICK x : Leads(y, x) /\ IsFree(x, v, o)
  <2> HIDE DEF v
  <2> QED BY <1>1, <1>4 DEF FreeOver
<1>6. PICK u : Leads(x, u) /\ IsFree(u, z, o)
  BY <1>1, <1>5 DEF FreeOver
<1> QED BY <1>5, <1>6, LeadsJoined

\* The block is read, with its inputs, or given up within.
BlockOver(k, n, c, ins, bad, o) ==
    \A z \in Tails :
        /\ ~bad => Leads(Block(k, n, <<>>, c \o z, 1, o), Block(k, n, ins, z, 1, o))
        /\ bad => \E y : Leads(Block(k, n, <<>>, c \o z, 1, o), y) /\ IsFree(y, z, o)

\* A body without fragments has been read.
LEMMA BlockNothing ==
    ASSUME NEW k, NEW n, NEW o PROVE BlockOver(k, n, <<>>, <<>>, FALSE, o)
<1>1. ASSUME NEW z \in Tails PROVE <<>> \o z = z
  BY EmptyEnd DEF Tails, More
<1> QED BY <1>1, LeadsHere DEF BlockOver

\* One fragment more has been read, or the parser has given up.
LEMMA BlockMore ==
    ASSUME NEW k, NEW n, NEW o, NEW c \in Seq(Token), NEW ins \in Seq(Token), NEW bad \in BOOLEAN,
           NEW f \in ReadBody, BlockOver(k, n, c, ins, bad, o)
    PROVE  BlockOver(k, n, c \o FragmentCode(f), ins \o InputsOn("templates", f),
                     bad \/ f \in Unread, o)
<1> DEFINE g == FragmentCode(f)
           i == InputsOn("templates", f)
<1> SUFFICES ASSUME NEW z \in Tails
             PROVE  /\ ~(bad \/ f \in Unread) =>
                         Leads(Block(k, n, <<>>, (c \o g) \o z, 1, o), Block(k, n, ins \o i, z, 1, o))
                    /\ bad \/ f \in Unread =>
                         \E y : Leads(Block(k, n, <<>>, (c \o g) \o z, 1, o), y) /\ IsFree(y, z, o)
  BY DEF BlockOver
<1> DEFINE v == g \o z
<1>0. f \in BodySource /\ f \in ReadBody \cup {"field"} /\ z \in More /\ z \in Seq(Token)
  BY DEF BodySource, Tails, More
<1>1. v \in Tails /\ g \in Seq(Token) /\ FreeOver(g)
  BY <1>0, FragmentTail, FragmentTyped, FreeFragment
<1>2. ~(f \in Unread) => Leads(Block(k, n, ins, v, 1, o), Block(k, n, ins \o i, z, 1, o))
  BY <1>0, GoodFragment DEF Unread
<1>3. f \in Unread => \E y : Leads(Block(k, n, ins, v, 1, o), y) /\ IsFree(y, z, o)
  BY BadFragment DEF Unread
<1> HIDE DEF g, i
<1>4. (c \o g) \o z = c \o v
  <2>1. Groups(Token, c, g, z)
    BY <1>0, <1>1, Grouped
  <2> QED BY <2>1, Zenon DEF Groups
<1> DEFINE x == Block(k, n, <<>>, c \o v, 1, o)
<1>5. /\ ~bad => Leads(x, Block(k, n, ins, v, 1, o))
      /\ bad => \E y : Leads(x, y) /\ IsFree(y, v, o)
  <2> HIDE DEF v
  <2> QED BY <1>1 DEF BlockOver
<1>6. x = Block(k, n, <<>>, (c \o g) \o z, 1, o)
  BY <1>4
<1> HIDE DEF x
<1>7. ASSUME ~(bad \/ f \in Unread)
      PROVE  Leads(x, Block(k, n, ins \o i, z, 1, o))
  BY <1>2, <1>5, <1>7, LeadsJoined
<1>8. ASSUME bad PROVE \E y : Leads(x, y) /\ IsFree(y, z, o)
  <2>1. PICK u : Leads(x, u) /\ IsFree(u, v, o)
    BY <1>5, <1>8
  <2>2. PICK y : Leads(u, y) /\ IsFree(y, z, o)
    BY <1>1, <2>1 DEF FreeOver
  <2> QED BY <2>1, <2>2, LeadsJoined
<1>9. ASSUME ~bad, f \in Unread PROVE \E y : Leads(x, y) /\ IsFree(y, z, o)
  <2>1. PICK y : Leads(Block(k, n, ins, v, 1, o), y) /\ IsFree(y, z, o)
    BY <1>3, <1>9
  <2>2. Leads(x, y)
    BY <1>5, <1>9, <2>1, LeadsJoined
  <2> QED BY <2>1, <2>2
<1> QED BY <1>6, <1>7, <1>8, <1>9, Zenon

\* A body where the parser is in no definition: nothing of it is taken for one.
LEMMA FreeBody ==
    ASSUME NEW b \in Seq(BodySource)
    PROVE  FreeOver(CodeOf(BodyLines(b)))
<1>1. PICK c : /\ c[0] = <<>>
               /\ \A m \in 1 .. Len(b) : c[m] = c[m - 1] \o FragmentCode(b[m])
               /\ CodeOf(BodyLines(b)) = c[Len(b)]
               /\ \A m \in 0 .. Len(b) : c[m] \in Seq(Token)
  BY BodySteps
<1> DEFINE S == {m \in Nat : m <= Len(b) => FreeOver(c[m])}
<1>2. Len(b) \in Nat
  OBVIOUS
<1>3. 0 \in S
  BY <1>1, FreeNothing
<1>4. ASSUME NEW m \in Nat, m \in S PROVE m + 1 \in S
  <2>1. CASE m + 1 <= Len(b)
    <3>1. m + 1 \in 1 .. Len(b) /\ (m + 1) - 1 = m /\ m \in 0 .. Len(b) /\ m <= Len(b)
      BY <1>2, <2>1
    <3>2. c[m + 1] = c[m] \o FragmentCode(b[m + 1]) /\ c[m] \in Seq(Token) /\ b[m + 1] \in BodySource
      <4>1. c[m + 1] = c[(m + 1) - 1] \o FragmentCode(b[m + 1])
        BY <1>1, <3>1, Zenon
      <4>2. c[m] \in Seq(Token)
        BY <1>1, <3>1, Zenon
      <4>3. b[m + 1] \in BodySource
        BY <3>1
      <4> QED BY <3>1, <4>1, <4>2, <4>3, Zenon
    <3>3. FreeOver(c[m])
      BY <1>4, <3>1
    <3>4. FreeOver(c[m] \o FragmentCode(b[m + 1]))
      BY <3>2, <3>3, FreeMore
    <3>5. FreeOver(c[m + 1])
      BY <3>2, <3>4, Zenon
    <3> QED BY <3>5
  <2>2. CASE ~(m + 1 <= Len(b))
    BY <2>2
  <2> QED BY <2>1, <2>2
<1> HIDE DEF S
<1>5. Len(b) \in S
  BY <1>2, <1>3, <1>4, Induction
<1> QED BY <1>1, <1>2, <1>5 DEF S

\* The body of a template or a function, up to its closing brace.
LEMMA BlockBody ==
    ASSUME NEW k, NEW n, NEW o, NEW b \in Seq(ReadBody)
    PROVE  BlockOver(k, n, CodeOf(BodyLines(b)), BodyInputs(b), \E i \in 1 .. Len(b) : b[i] \in Unread, o)
<1>1. b \in Seq(BodySource)
  BY WiderSeq DEF BodySource
<1>2. PICK c : /\ c[0] = <<>>
               /\ \A m \in 1 .. Len(b) : c[m] = c[m - 1] \o FragmentCode(b[m])
               /\ CodeOf(BodyLines(b)) = c[Len(b)]
               /\ \A m \in 0 .. Len(b) : c[m] \in Seq(Token)
  BY <1>1, BodySteps
<1> DEFINE ss == [i \in DOMAIN b |-> InputsOn("templates", b[i])]
<1>3. ss \in Seq(Seq(Token)) /\ Len(ss) = Len(b) /\ \A i \in 1 .. Len(b) : ss[i] = InputsOn("templates", b[i])
  <2>1. \A i \in DOMAIN b : InputsOn("templates", b[i]) \in Seq(Token)
    <3>1. <<>> \in Seq(Token) /\ "templates" \in Scanners
      BY DEF Scanners
    <3> QED BY <3>1, OnTypes
  <2> QED BY <2>1, SMTT(30)
<1>4. BodyInputs(b) = FlattenSeq(ss)
  BY DEF BodyInputs
<1> HIDE DEF ss
<1>5. PICK g : /\ g[0] = <<>>
               /\ \A m \in 1 .. Len(ss) : g[m] = g[m - 1] \o ss[m]
               /\ FlattenSeq(ss) = g[Len(ss)]
               /\ \A m \in 0 .. Len(ss) : g[m] \in Seq(Token)
  BY <1>3, FlattenTyped
<1>6. /\ \A m \in 1 .. Len(b) : g[m] = g[m - 1] \o InputsOn("templates", b[m])
      /\ \A m \in 0 .. Len(b) : g[m] \in Seq(Token)
      /\ BodyInputs(b) = g[Len(b)]
  BY <1>3, <1>4, <1>5
<1> DEFINE Bad(m) == \E i \in 1 .. m : b[i] \in Unread
           S == {m \in Nat : m <= Len(b) => BlockOver(k, n, c[m], g[m], Bad(m), o)}
<1>7. Len(b) \in Nat
  OBVIOUS
<1>8. 0 \in S
  <2>1. Bad(0) = FALSE
    OBVIOUS
  <2> HIDE DEF Bad
  <2>2. BlockOver(k, n, c[0], g[0], Bad(0), o)
    BY <1>2, <1>5, <2>1, BlockNothing
  <2> QED BY <2>2
<1>9. ASSUME NEW m \in Nat, m \in S PROVE m + 1 \in S
  <2>1. CASE m + 1 <= Len(b)
    <3>1. m + 1 \in 1 .. Len(b) /\ (m + 1) - 1 = m /\ m \in 0 .. Len(b) /\ m <= Len(b)
      BY <1>7, <2>1
    <3>2. /\ c[m + 1] = c[m] \o FragmentCode(b[m + 1]) /\ c[m] \in Seq(Token)
          /\ b[m + 1] \in ReadBody
          /\ g[m + 1] = g[m] \o InputsOn("templates", b[m + 1]) /\ g[m] \in Seq(Token)
      <4>1. /\ c[m + 1] = c[(m + 1) - 1] \o FragmentCode(b[m + 1]) /\ c[m] \in Seq(Token)
            /\ g[m + 1] = g[(m + 1) - 1] \o InputsOn("templates", b[m + 1]) /\ g[m] \in Seq(Token)
        BY <1>2, <1>6, <3>1, Zenon
      <4>2. b[m + 1] \in ReadBody
        BY <3>1
      <4> QED BY <3>1, <4>1, <4>2, Zenon
    <3>3. BlockOver(k, n, c[m], g[m], Bad(m), o)
      BY <1>9, <3>1
    <3>4. Bad(m + 1) = (Bad(m) \/ b[m + 1] \in Unread)
      <4>1. \A i \in 1 .. (m + 1) : i \in 1 .. m \/ i = m + 1
        OBVIOUS
      <4>2. m + 1 \in 1 .. (m + 1) /\ \A i \in 1 .. m : i \in 1 .. (m + 1)
        OBVIOUS
      <4> QED BY <4>1, <4>2, Zenon
    <3>5. Bad(m) \in BOOLEAN
      OBVIOUS
    <3> HIDE DEF Bad
    <3>6. BlockOver(k, n, c[m] \o FragmentCode(b[m + 1]), g[m] \o InputsOn("templates", b[m + 1]),
                    Bad(m) \/ b[m + 1] \in Unread, o)
      BY <3>2, <3>3, <3>5, BlockMore
    <3>7. BlockOver(k, n, c[m + 1], g[m + 1], Bad(m + 1), o)
      BY <3>2, <3>4, <3>6, Zenon
    <3> QED BY <3>7
  <2>2. CASE ~(m + 1 <= Len(b))
    <3> HIDE DEF Bad
    <3> QED BY <2>2
  <2> QED BY <2>1, <2>2, Zenon
<1> HIDE DEF S
<1>10. Len(b) \in S
  BY <1>7, <1>8, <1>9, Induction
<1>11. BlockOver(k, n, c[Len(b)], g[Len(b)], Bad(Len(b)), o)
  <2> HIDE DEF Bad
  <2> QED BY <1>7, <1>10 DEF S
<1> QED BY <1>2, <1>6, <1>11

---------------------------------------------------------------------------
\* The definitions without a header or a `/*` in a string, and their sources.

PlainDef(d) ==
    d.kind \in {"template", "function"} => Range(d.body) \cap {"defines", "comments"} = {}

ReadBodied == {d \in Bodied : PlainDef(d)}
ReadDefinitions == {d \in Definitions : PlainDef(d)}
ReadSources == {s \in Sources : \A i \in DOMAIN s : PlainDef(s[i])}

\* A list without some elements.
LEMMA Without ==
    ASSUME NEW T, NEW X, NEW b \in Seq(T), Range(b) \cap X = {}
    PROVE  b \in Seq(T \ X)
<1>1. Range(b) \subseteq T
  BY RangeIn, Zenon
<1>2. Range(b) \subseteq T \ X
  BY <1>1
<1> QED BY <1>2, RangeIn, Zenon

\* What such a definition is made of.
LEMMA ReadKinds ==
    ASSUME NEW d \in ReadDefinitions
    PROVE  /\ d.kind \in {"template", "function", "bus", "main", "public", "quoted"}
           /\ d.name \in Names
           /\ d.kind \in {"template", "function", "bus"} => d \in ReadBodied
           /\ d.kind = "template" => d.body \in Seq(ReadBody)
           /\ d.kind = "function" => d.body \in Seq(ReadFunction)
           /\ d.kind = "bus" => d.body \in Seq({"field"})
<1>1. d \in Definitions /\ PlainDef(d)
  BY DEF ReadDefinitions
<1>2. /\ d.kind \in {"template", "function", "bus", "main", "public", "quoted"}
      /\ d.name \in Names
      /\ d.kind \in {"template", "function", "bus"} => d \in ReadBodied
      /\ d.kind = "bus" => d.body \in Seq({"field"})
  BY <1>1, KindsOf DEF ReadBodied
<1>3. d.kind = "template" => d.body \in Seq(ReadBody)
  BY <1>1, KindsOf, Without DEF PlainDef, ReadBody
<1>4. d.kind = "function" => d.body \in Seq(ReadFunction)
  BY <1>1, KindsOf, Without DEF PlainDef, ReadFunction
<1> QED BY <1>2, <1>3, <1>4

LEMMA ReadParts ==
    ASSUME NEW d \in ReadBodied
    PROVE  /\ d.kind \in {"template", "function", "bus"} /\ d.name \in Names
           /\ d.mods \in Seq(Modifiers) /\ d.body \in Seq(BodySource)
           /\ d \in Bodied /\ "comments" \notin Range(d.body)
<1>1. d \in Bodied /\ PlainDef(d)
  BY DEF ReadBodied
<1>2. /\ d.kind \in {"template", "function", "bus"} /\ d.name \in Names
      /\ d.mods \in Seq(Modifiers) /\ d.body \in Seq(TemplateBody \cup {"field"})
  BY <1>1, BodiedParts
<1>3. Range(d.body) \cap {"defines", "comments"} = {}
  <2>1. CASE d.kind = "bus"
    <3>1. d.body \in Seq({"field"})
      BY <1>1, <2>1 DEF Bodied, TemplateDefs, FunctionDefs, BusDefs
    <3>2. Range(d.body) \subseteq {"field"}
      BY <3>1, RangeIn, Zenon
    <3> QED BY <3>2
  <2>2. CASE d.kind # "bus"
    BY <1>1, <1>2, <2>2 DEF PlainDef
  <2> QED BY <2>1, <2>2
<1>4. d.body \in Seq((TemplateBody \cup {"field"}) \ {"defines", "comments"})
  BY <1>2, <1>3, Without
<1>5. (TemplateBody \cup {"field"}) \ {"defines", "comments"} = BodySource
  BY DEF BodySource, ReadBody
<1> QED BY <1>1, <1>2, <1>3, <1>4, <1>5

\* Such a source is a list of such definitions, and what is read of it is its code.
LEMMA ReadSource ==
    ASSUME NEW s \in ReadSources
    PROVE  /\ s \in Seq(ReadDefinitions) /\ s \in Sources
           /\ \A i \in DOMAIN s : Glued(s[i]) => i > 1 /\ s[i - 1].kind # "quoted"
           /\ Lines(s) \in Seq(ReadLine)
           /\ Tokens(Lines(s)) = CodeOf(Lines(s)) \o <<"eof">>
<1>1. /\ s \in Sources /\ s \in Seq(Definitions)
      /\ \A i \in DOMAIN s : PlainDef(s[i])
      /\ \A i \in DOMAIN s : Glued(s[i]) => i > 1 /\ s[i - 1].kind # "quoted"
  BY SourcesAssumption DEF ReadSources
<1>2. \A i \in 1 .. Len(s) : s[i] \in ReadDefinitions
  BY <1>1 DEF ReadDefinitions
<1>3. s \in Seq(ReadDefinitions)
  BY <1>1, <1>2
<1>4. \A i \in DOMAIN s : NoComment(s[i])
  <2> TAKE i \in DOMAIN s
  <2>1. s[i] \in ReadDefinitions
    BY <1>1, <1>2
  <2>2. s[i].kind \in {"template", "function", "bus"} => s[i] \in ReadBodied
    BY <2>1, ReadKinds
  <2> QED BY <2>2, ReadParts DEF NoComment
<1>5. Lines(s) \in Seq(ReadLine)
  BY <1>1, <1>4, LinesAre
<1>6. CodeOf(Lines(s)) \in Seq(Token)
  BY <1>5, CodeJoined
<1>7. Uncommented(CodeOf(Lines(s))) = CodeOf(Lines(s))
  <2>1. CodeOf(Lines(s)) \in Seq(Token \cup {"/*"})
    BY <1>6, WiderSeq
  <2> QED BY <1>6, <2>1, UncommentedType
<1>8. Tokens(Lines(s)) = CodeOf(Lines(s)) \o <<"eof">>
  BY <1>7, Zenon DEF Tokens, CodeOf, Codes
<1> QED BY <1>1, <1>3, <1>5, <1>8

---------------------------------------------------------------------------
\* The code of a definition.

DefCode(d) ==
    IF d.kind = "main" THEN Instance(<<"main">>, d.name)
    ELSE IF d.kind = "public" THEN Instance(<<"main", "{", "}">>, d.name)
    ELSE IF d.kind = "quoted" THEN <<>>
    ELSE (Header(d) \o CodeOf(Body(d))) \o <<"}">>

\* The last line can be written on.
EndsOpen(ls) == ls # <<>> /\ Last(ls).code = Last(ls).text

\* A sequence is its front and its last element.
LEMMA LastFront ==
    ASSUME NEW T, NEW s \in Seq(T), s # <<>>
    PROVE  /\ Front(s) \in Seq(T) /\ Last(s) \in T /\ s = Front(s) \o <<Last(s)>>
<1>1. Len(s) \in Nat /\ Len(s) > 0
  OBVIOUS
<1>2. Front(s) = SubSeq(s, 1, Len(s) - 1)
  BY DEF Front
<1>3. Front(s) \in Seq(T) /\ Last(s) \in T /\ Len(Front(s)) = Len(s) - 1
  <2>1. Len(s) \in 1 .. Len(s) /\ Len(s) - 1 \in 0 .. Len(s)
    BY <1>1
  <2>2. Last(s) \in T
    BY <2>1 DEF Last
  <2>3. \A i \in 1 .. Len(s) - 1 : s[i] \in T
    BY <1>1
  <2>4. 1 \in Int /\ Len(s) - 1 \in Int
    BY <1>1
  <2>5. Front(s) \in Seq(T)
    BY <2>3, <2>4, SubSeqProperties DEF Front
  <2>6. Len(Front(s)) = Len(s) - 1
    <3> DEFINE m == Len(s) - 1
    <3>1. Len(SubSeq(s, 1, m)) = IF 1 <= m THEN m - 1 + 1 ELSE 0
      <4> HIDE DEF m
      <4>1. \A i \in 1 .. m : s[i] \in T
        BY <2>3 DEF m
      <4>2. m \in Int /\ 1 \in Int
        BY <2>4 DEF m
      <4> QED BY <4>1, <4>2, SubSeqProperties
    <3>2. m \in Nat
      BY <1>1
    <3> HIDE DEF m
    <3>3. Len(SubSeq(s, 1, m)) = m
      BY <3>1, <3>2
    <3> QED BY <1>2, <3>3 DEF m
  <2> QED BY <2>2, <2>5, <2>6
<1>4. <<Last(s)>> \in Seq(T) /\ Len(<<Last(s)>>) = 1 /\ <<Last(s)>>[1] = Last(s)
  BY <1>3, OneToken
<1>5. \A i \in 1 .. Len(Front(s)) : s[i] = Front(s)[i]
  BY <1>1, <1>2, <1>3
<1> DEFINE u == <<Last(s)>>
           v == Front(s)
<1>6. \A i \in 1 .. Len(u) : s[Len(v) + i] = u[i]
  BY <1>1, <1>3, <1>4 DEF Last
<1>7. Len(s) = Len(v) + Len(u)
  BY <1>1, <1>3, <1>4
<1>8. v \in Seq(T) /\ u \in Seq(T)
  BY <1>3, <1>4
<1> HIDE DEF u, v
<1>9. s = v \o u
  BY <1>5, <1>6, <1>7, <1>8, JoinIs DEF v
<1> QED BY <1>3, <1>9 DEF u, v

\* The last element of a sequence with one element more.
LEMMA LastOfJoined ==
    ASSUME NEW T, NEW s \in Seq(T), NEW l \in T
    PROVE  Last(s \o <<l>>) = l /\ s \o <<l>> # <<>>
<1>1. <<l>> \in Seq(T) /\ Len(<<l>>) > 0 /\ <<l>>[Len(<<l>>)] = l
  BY Sequence1
<1> DEFINE t == <<l>>
<1>2. (s \o t)[Len(s \o t)] = l /\ s \o t # <<>>
  <2> HIDE DEF t
  <2>1. t \in Seq(T) /\ Len(t) > 0 /\ t[Len(t)] = l
    BY <1>1 DEF t
  <2> QED BY <2>1, JoinedEnd
<1> QED BY <1>2 DEF Last

Four(a, b, c, d) == ((a \o b) \o c) \o d
FourCoded(a, b, c, d) == CodeOf(Four(a, b, c, d)) = Four(CodeOf(a), CodeOf(b), CodeOf(c), CodeOf(d))

\* Four groups of lines, one behind the other.
LEMMA FourCodes ==
    ASSUME NEW a \in Seq(ReadLine), NEW b \in Seq(ReadLine), NEW c \in Seq(ReadLine),
           NEW d \in Seq(ReadLine)
    PROVE  FourCoded(a, b, c, d)
<1> DEFINE p == a \o b
           q == p \o c
<1>1. CodeOf(p) = CodeOf(a) \o CodeOf(b) /\ p \in Seq(ReadLine)
  BY CodeJoined, Joined
<1>2. CodeOf(q) = CodeOf(p) \o CodeOf(c) /\ q \in Seq(ReadLine)
  <2> HIDE DEF p
  <2> QED BY <1>1, CodeJoined, Joined
<1>3. CodeOf(q \o d) = CodeOf(q) \o CodeOf(d)
  <2> HIDE DEF q
  <2> QED BY <1>2, CodeJoined
<1> QED BY <1>1, <1>2, <1>3, Zenon DEF Four, FourCoded

\* The parts of a definition are good lines.
LEMMA DefinitionParts ==
    ASSUME NEW d \in ReadBodied
    PROVE  /\ Header(d) \in GoodText /\ Header(d) \in Seq(Token)
           /\ Line(Header(d)) \in ReadLine /\ Line(<<"}">>) \in ReadLine
           /\ Body(d) \in Seq(ReadLine) /\ CodeOf(Body(d)) \in Seq(Token)
           /\ Line(Header(d)).code = Header(d) /\ Line(<<"}">>).code = <<"}">>
           /\ <<"}">> \in Seq(Token)
<1>1. Header(d) \in GoodText /\ Body(d) \in Seq(ReadLine)
  BY ReadParts, HeaderIsGood, BodyIsGood
<1>2. <<"}">> \in Seq(Token) /\ <<"}">> # <<>> /\ <<"}">>[1] # "template"
  <2>1. "}" \in Token
    BY Tokens0
  <2> QED BY <2>1, Sequence1
<1>3. <<"}">> \in GoodText
  BY <1>2, PlainTextIsGood
<1>4. Line(Header(d)) \in ReadLine /\ Line(<<"}">>) \in ReadLine
  BY <1>1, <1>3, LineIsRead
<1>5. CodeOf(Body(d)) \in Seq(Token)
  BY <1>1, CodeJoined
<1>6. Header(d) \in Seq(Token)
  BY <1>1 DEF GoodText
<1> QED BY <1>1, <1>2, <1>4, <1>5, <1>6 DEF Line

\* A definition on lines of its own adds its code.
LEMMA UngluedCode ==
    ASSUME NEW ls \in Seq(ReadLine), NEW d \in ReadBodied, ~Glued(d)
    PROVE  /\ CodeOf(AddLines(ls, d)) = CodeOf(ls) \o DefCode(d)
           /\ EndsOpen(AddLines(ls, d))
<1> DEFINE h == <<Line(Header(d))>>
           b == Body(d)
           e == <<Line(<<"}">>)>>
<1>0. d.kind \in {"template", "function", "bus"}
  BY ReadParts
<1>1. AddLines(ls, d) = Four(ls, h, b, e)
  BY <1>0 DEF AddLines, Four
<1>2. /\ h \in Seq(ReadLine) /\ b \in Seq(ReadLine) /\ e \in Seq(ReadLine)
      /\ CodeOf(h) = Header(d) /\ CodeOf(e) = <<"}">>
  BY DefinitionParts, CodeOfOne
<1>3. DefCode(d) = (CodeOf(h) \o CodeOf(b)) \o CodeOf(e)
  BY <1>0, <1>2 DEF DefCode
<1>4. EndsOpen(Four(ls, h, b, e))
  <2> DEFINE l == Line(<<"}">>)
             u == (ls \o h) \o b
  <2>1. l \in ReadLine /\ l.code = l.text
    BY DefinitionParts DEF Line
  <2>2. u \in Seq(ReadLine)
    <3> HIDE DEF h, b
    <3> QED BY <1>2, Joined
  <2>3. Four(ls, h, b, e) = u \o <<l>>
    BY DEF Four
  <2> HIDE DEF l, u
  <2>4. Last(u \o <<l>>) = l /\ u \o <<l>> # <<>>
    BY <2>1, <2>2, LastOfJoined
  <2> QED BY <2>1, <2>3, <2>4 DEF EndsOpen
<1> HIDE DEF h, b, e
<1> DEFINE p == CodeOf(ls)
           q == CodeOf(h)
           r == CodeOf(b)
           s == CodeOf(e)
<1>5. p \in Seq(Token) /\ q \in Seq(Token) /\ r \in Seq(Token) /\ s \in Seq(Token)
  BY <1>2, CodeJoined
<1>6. CodeOf(Four(ls, h, b, e)) = Four(p, q, r, s)
  <2>1. FourCoded(ls, h, b, e)
    BY <1>2, FourCodes
  <2> QED BY <2>1, Zenon DEF FourCoded
<1> HIDE DEF p, q, r, s
<1>7. Regrouped(p, q, r, s)
  BY <1>5, FourParts
<1>8. Four(p, q, r, s) = p \o ((q \o r) \o s)
  BY <1>7, Zenon DEF Regrouped, Four
<1> QED BY <1>1, <1>3, <1>4, <1>6, <1>8 DEF p, q, r, s

\* A definition that starts on the line that ends the one before adds its code.
LEMMA GluedCode ==
    ASSUME NEW ls \in Seq(ReadLine), NEW d \in ReadBodied, Glued(d), EndsOpen(ls)
    PROVE  /\ CodeOf(AddLines(ls, d)) = CodeOf(ls) \o DefCode(d)
           /\ EndsOpen(AddLines(ls, d))
<1> DEFINE f == Front(ls)
           l == Last(ls)
           g == Line(l.text \o Header(d))
           h == <<g>>
           b == Body(d)
           e == <<Line(<<"}">>)>>
<1>0. d.kind \in {"template", "function", "bus"} /\ ls # <<>>
  BY ReadParts DEF EndsOpen
<1>1. AddLines(ls, d) = Four(f, h, b, e)
  BY <1>0 DEF AddLines, Four
<1>2. f \in Seq(ReadLine) /\ l \in ReadLine /\ ls = f \o <<l>>
  BY <1>0, LastFront
<1>3. l.code = l.text /\ l.text \in GoodText
  BY <1>2 DEF EndsOpen, ReadLine
<1>4. g \in ReadLine /\ g.code = l.code \o Header(d)
  <2>1. l.text \o Header(d) \in GoodText
    BY <1>3, DefinitionParts, LongerIsGood
  <2>2. g \in ReadLine
    BY <2>1, LineIsRead
  <2>3. g.code = l.text \o Header(d)
    BY DEF Line
  <2> QED BY <1>3, <2>2, <2>3
<1>5. b \in Seq(ReadLine) /\ e \in Seq(ReadLine) /\ CodeOf(e) = <<"}">> /\ Header(d) \in Seq(Token)
  BY DefinitionParts, CodeOfOne
<1> HIDE DEF f, l, g
<1>6. /\ h \in Seq(ReadLine) /\ CodeOf(h) = l.code \o Header(d)
      /\ <<l>> \in Seq(ReadLine) /\ CodeOf(<<l>>) = l.code /\ l.code \in Seq(Token)
  BY <1>2, <1>4, CodeOfOne
<1>7. CodeOf(ls) = CodeOf(f) \o l.code
  <2> DEFINE u == <<l>>
  <2>1. u \in Seq(ReadLine) /\ ls = f \o u /\ CodeOf(u) = l.code
    BY <1>2, <1>6
  <2> HIDE DEF u
  <2>2. CodeOf(f \o u) = CodeOf(f) \o CodeOf(u)
    BY <1>2, <2>1, CodeJoined
  <2> QED BY <2>1, <2>2
<1>8. DefCode(d) = (Header(d) \o CodeOf(b)) \o CodeOf(e)
  BY <1>0, <1>5 DEF DefCode
<1>9. EndsOpen(Four(f, h, b, e))
  <2> DEFINE m == Line(<<"}">>)
             u == (f \o h) \o b
  <2>1. m \in ReadLine /\ m.code = m.text
    BY DefinitionParts DEF Line
  <2>2. u \in Seq(ReadLine)
    <3> HIDE DEF h, b
    <3> QED BY <1>2, <1>5, <1>6, Joined
  <2>3. Four(f, h, b, e) = u \o <<m>>
    BY DEF Four
  <2> HIDE DEF m, u
  <2>4. Last(u \o <<m>>) = m /\ u \o <<m>> # <<>>
    BY <2>1, <2>2, LastOfJoined
  <2> QED BY <2>1, <2>3, <2>4 DEF EndsOpen
<1> HIDE DEF h, b, e
<1> DEFINE p == CodeOf(f)
           c == l.code
           q == Header(d)
           r == CodeOf(b)
           s == CodeOf(e)
           v == (q \o r) \o s
<1>10. p \in Seq(Token) /\ c \in Seq(Token) /\ q \in Seq(Token) /\ r \in Seq(Token) /\ s \in Seq(Token)
  BY <1>2, <1>5, <1>6, CodeJoined
<1>11. CodeOf(Four(f, h, b, e)) = Four(p, c \o q, r, s)
  <2>1. FourCoded(f, h, b, e)
    BY <1>2, <1>5, <1>6, FourCodes
  <2>2. CodeOf(h) = c \o q
    BY <1>6
  <2> QED BY <2>1, <2>2, Zenon DEF FourCoded
<1> HIDE DEF p, c, q, r, s
<1>12. Regrouped(c, q, r, s) /\ v \in Seq(Token)
  BY <1>10, FourParts, Joined
<1>13. Groups(Token, p, c, v)
  <2> HIDE DEF v
  <2> QED BY <1>10, <1>12, Grouped
<1> DEFINE w == c \o q
<1>14. w \in Seq(Token)
  BY <1>10
<1>15. Regrouped(p, w, r, s)
  <2> HIDE DEF w
  <2> QED BY <1>10, <1>14, FourParts
<1>16. Four(p, w, r, s) = p \o ((w \o r) \o s)
  BY <1>15, Zenon DEF Regrouped, Four
<1>17. (w \o r) \o s = c \o v
  BY <1>12, Zenon DEF Regrouped
<1>18. p \o (c \o v) = (p \o c) \o v
  BY <1>13, Zenon DEF Groups
<1>19. Four(p, w, r, s) = (p \o c) \o v
  BY <1>16, <1>17, <1>18, Zenon
<1>20. CodeOf(ls) = p \o c /\ DefCode(d) = v
  BY <1>7, <1>8 DEF p, c, q, r, s
<1> QED BY <1>1, <1>9, <1>11, <1>19, <1>20, Zenon

\* A main component adds its code, a definition in a comment adds none.
LEMMA OtherCode ==
    ASSUME NEW ls \in Seq(ReadLine), NEW d \in ReadDefinitions, d.kind \in {"main", "public", "quoted"}
    PROVE  /\ CodeOf(AddLines(ls, d)) = CodeOf(ls) \o DefCode(d)
           /\ d.kind # "quoted" => EndsOpen(AddLines(ls, d))
<1>0. CodeOf(ls) \in Seq(Token) /\ d.name \in Token
  <2>1. d.name \in Names
    BY ReadKinds
  <2> QED BY <2>1, CodeJoined, Tokens0
<1>1. ASSUME NEW name \in Seq(Token), AddLines(ls, d) = Append(ls, Line(Instance(name, d.name))),
             DefCode(d) = Instance(name, d.name)
      PROVE  CodeOf(AddLines(ls, d)) = CodeOf(ls) \o DefCode(d) /\ EndsOpen(AddLines(ls, d))
  <2> DEFINE l == Line(Instance(name, d.name))
             u == <<l>>
  <2>1. l \in ReadLine /\ l.code = l.text /\ l.code = DefCode(d)
    <3>1. l \in ReadLine
      BY <1>0, InstanceIsGood, LineIsRead
    <3>2. l.code = Instance(name, d.name) /\ l.text = Instance(name, d.name)
      BY DEF Line
    <3> QED BY <1>1, <3>1, <3>2
  <2> HIDE DEF l
  <2>2. u \in Seq(ReadLine) /\ CodeOf(u) = l.code
    BY <2>1, CodeOfOne
  <2>3. AddLines(ls, d) = ls \o <<l>>
    BY <1>1, <2>1, AppendOne DEF l
  <2>4. Last(ls \o <<l>>) = l /\ ls \o <<l>> # <<>>
    BY <2>1, LastOfJoined
  <2>5. EndsOpen(AddLines(ls, d))
    BY <2>1, <2>3, <2>4 DEF EndsOpen
  <2> HIDE DEF u
  <2>6. CodeOf(ls \o u) = CodeOf(ls) \o CodeOf(u)
    BY <2>2, CodeJoined
  <2> QED BY <2>1, <2>2, <2>3, <2>5, <2>6 DEF u
<1>2. CASE d.kind = "main"
  <2>1. <<"main">> \in Seq(Token)
    BY Tokens0, OneToken
  <2>2. AddLines(ls, d) = Append(ls, Line(Instance(<<"main">>, d.name)))
    BY <1>2 DEF AddLines
  <2>3. DefCode(d) = Instance(<<"main">>, d.name)
    BY <1>2 DEF DefCode
  <2> QED BY <1>1, <2>1, <2>2, <2>3
<1>3. CASE d.kind = "public"
  <2>1. <<"main", "{", "}">> \in Seq(Token)
    <3>1. "main" \in Token /\ "{" \in Token /\ "}" \in Token
      BY Tokens0
    <3> QED BY <3>1, Sequence3
  <2>2. AddLines(ls, d) = Append(ls, Line(Instance(<<"main", "{", "}">>, d.name)))
    BY <1>3 DEF AddLines
  <2>3. DefCode(d) = Instance(<<"main", "{", "}">>, d.name)
    BY <1>3 DEF DefCode
  <2> QED BY <1>1, <2>1, <2>2, <2>3
<1>4. CASE d.kind = "quoted"
  <2> DEFINE a == Comment(<<"template", d.name, "(", ")", "{">>)
             b == Comment(<<"}">>)
             u == <<a, b>>
  <2>1. AddLines(ls, d) = ls \o u
    BY <1>4 DEF AddLines
  <2>2. a.code = <<>> /\ b.code = <<>>
    BY DEF Comment
  <2>3. a \in ReadLine /\ b \in ReadLine
    <3>1. "template" \in Token /\ "(" \in Token /\ ")" \in Token /\ "{" \in Token /\ "}" \in Token
      BY Tokens0
    <3>2. <<"}">> \in Seq(Token) /\ <<"}">> # <<>> /\ <<"}">>[1] # "template"
      BY <3>1, Sequence1
    <3>3. <<"}">> \in GoodText
      BY <3>2, PlainTextIsGood
    <3> DEFINE ts == <<"template", d.name, "(", ")", "{">>
    <3>4. ts \in Seq(Token) /\ 5 \in 1 .. Len(ts) /\ ts[5] = "{" /\ ts # <<>>
      <4> DEFINE n == d.name
      <4>1. n \in Token
        BY <1>0
      <4> HIDE DEF n
      <4>2. <<"template", n, "(", ")", "{">> \in Seq(Token) /\ 5 \in 1 .. Len(<<"template", n, "(", ")", "{">>)
            /\ <<"template", n, "(", ")", "{">>[5] = "{" /\ <<"template", n, "(", ")", "{">> # <<>>
        BY <3>1, <4>1, Sequence5
      <4> QED BY <4>2 DEF n
    <3>5. ts \in GoodText
      <4> HIDE DEF ts
      <4> QED BY <3>4 DEF GoodText
    <3> QED BY <3>3, <3>5, LineIsRead
  <2> HIDE DEF a, b
  <2>4. /\ <<a>> \in Seq(ReadLine) /\ <<b>> \in Seq(ReadLine) /\ <<a>> \o <<b>> = <<a, b>>
        /\ <<a, b>> \in Seq(ReadLine) /\ CodeOf(<<a>>) = <<>> /\ CodeOf(<<b>>) = <<>>
    BY <2>2, <2>3, PairJoined, CodeOfOne
  <2>5. CodeOf(<<a>> \o <<b>>) = CodeOf(<<a>>) \o CodeOf(<<b>>)
    BY <2>4, CodeJoined
  <2>6. CodeOf(u) = <<>> /\ u \in Seq(ReadLine)
    <3>1. <<>> \o <<>> = <<>> /\ <<>> \in Seq(Token)
      BY EmptyEnd
    <3> QED BY <2>4, <2>5, <3>1
  <2>7. DefCode(d) = <<>>
    BY <1>4 DEF DefCode
  <2> HIDE DEF u
  <2>8. CodeOf(ls \o u) = CodeOf(ls) \o CodeOf(u)
    BY <2>6, CodeJoined
  <2> QED BY <1>4, <2>1, <2>6, <2>7, <2>8
<1> QED BY <1>2, <1>3, <1>4

\* The lines of a definition add its code to the code before it.
LEMMA AddedCode ==
    ASSUME NEW ls \in Seq(ReadLine), NEW d \in ReadDefinitions, Glued(d) => EndsOpen(ls)
    PROVE  /\ CodeOf(AddLines(ls, d)) = CodeOf(ls) \o DefCode(d)
           /\ d.kind # "quoted" => EndsOpen(AddLines(ls, d))
<1>1. CASE d.kind \in {"main", "public", "quoted"}
  BY <1>1, OtherCode
<1>2. CASE d.kind \in {"template", "function", "bus"} /\ Glued(d)
  BY <1>2, ReadKinds, GluedCode
<1>3. CASE d.kind \in {"template", "function", "bus"} /\ ~Glued(d)
  BY <1>3, ReadKinds, UngluedCode
<1> QED BY <1>1, <1>2, <1>3, ReadKinds

---------------------------------------------------------------------------
\* The bus definitions, read token by token.

Bus(z, m, n, ms, d, o) == St(z, m, "bus", n, ms, <<>>, d, o)

\* The keyword of a bus, in the top mode.
LEMMA StartsBus ==
    ASSUME NEW y, NEW z \in More, NEW o, IsFree(y, <<"bus">> \o z, o), y.mode = "top"
    PROVE  Leads(y, Bus(z, "bus name", "", <<>>, 0, o))
<1> DEFINE r == <<"bus">> \o z
           x == Go(y, r, "top")
<1>0. "bus" \in Token /\ y.out = o
  BY Tokens0 DEF IsFree
<1>1. Head(r) = "bus" /\ Drop(r, 1) = z
  BY <1>0, OneInFront
<1>2. y = x
  BY DEF IsFree
<1>3. x = Go(y, r, "top")
  OBVIOUS
<1> HIDE DEF x, r
<1>4. x.rest = r /\ x.mode = "top" /\ x.out = o
  BY <1>0, <1>3, GoFields
<1>5. Begun(x, "bus", "bus name", <<>>, 0) = Bus(z, "bus name", "", <<>>, 0, o)
  BY <1>1, <1>4 DEF Begun, Bus
<1>6. NextIn(x.mode, x, "bus") = Bus(z, "bus name", "", <<>>, 0, o)
  BY <1>4, <1>5, Zenon DEF NextIn, TopNext
<1>7. Leads(x, Bus(z, "bus name", "", <<>>, 0, o))
  BY <1>1, <1>4, <1>6, StepAt, Zenon
<1> QED BY <1>2, <1>7

\* Its name.
LEMMA BusNamed ==
    ASSUME NEW ms, NEW o, NEW z \in More, NEW t \in Token, IsName(t)
    PROVE  Leads(Bus(<<t>> \o z, "bus name", "", ms, 0, o),
                 Bus(z, "parens", t, ms, 0, o))
<1> DEFINE r == <<t>> \o z
           x == Bus(r, "bus name", "", ms, 0, o)
           w == St(Drop(x.rest, 1), "parens", x.kind, t, x.members, x.expected, x.depth, x.out)
           y == Bus(z, "parens", t, ms, 0, o)
<1>0. t \in Token
  BY Tokens0
<1>1. Drop(r, 1) = z
  BY <1>0, OneInFront
<1>2. x = Bus(r, "bus name", "", ms, 0, o)
  OBVIOUS
<1> HIDE DEF x, r
<1>3. /\ x.rest = r /\ x.mode = "bus name" /\ x.kind = "bus" /\ x.name = "" /\ x.members = ms
      /\ x.expected = <<>> /\ x.depth = 0 /\ x.out = o
  BY <1>2 DEF Bus, St
<1>4. x.depth = 0
  BY <1>3
<1>5. w = y
  BY <1>1, <1>3, <1>4 DEF Bus
<1>6. NextIn(x.mode, x, t) = w
  BY <1>3, <1>4, Zenon DEF NextIn, BusNameNext
<1>7. Leads(x, y)
  BY <1>0, <1>3, <1>5, <1>6, OneStep DEF r
<1> QED BY <1>2, <1>7 DEF r

\* Its parameters, of which there are none.
LEMMA BusOpens ==
    ASSUME NEW ms, NEW o, NEW z \in More, NEW n
    PROVE  Leads(Bus(<<"(">> \o z, "parens", n, ms, 0, o),
                 Bus(z, "parens", n, ms, 1, o))
<1> DEFINE r == <<"(">> \o z
           x == Bus(r, "parens", n, ms, 0, o)
           w == GoTo(x, Drop(x.rest, 1), "parens", x.depth + 1)
           y == Bus(z, "parens", n, ms, 1, o)
<1>0. "(" \in Token
  BY Tokens0
<1>1. Drop(r, 1) = z
  BY <1>0, OneInFront
<1>2. x = Bus(r, "parens", n, ms, 0, o)
  OBVIOUS
<1> HIDE DEF x, r
<1>3. /\ x.rest = r /\ x.mode = "parens" /\ x.kind = "bus" /\ x.name = n /\ x.members = ms
      /\ x.expected = <<>> /\ x.depth = 0 /\ x.out = o
  BY <1>2 DEF Bus, St
<1>4. x.depth + 1 = 1
  BY <1>3
<1>5. w = y
  BY <1>1, <1>3, <1>4 DEF GoTo, Bus
<1>6. NextIn(x.mode, x, "(") = w
  BY <1>3, <1>4, Zenon DEF NextIn, ParensNext
<1>7. Leads(x, y)
  BY <1>0, <1>3, <1>5, <1>6, OneStep DEF r
<1> QED BY <1>2, <1>7 DEF r

\* The end of its parameters.
LEMMA BusCloses ==
    ASSUME NEW ms, NEW o, NEW z \in More, NEW n
    PROVE  Leads(Bus(<<")">> \o z, "parens", n, ms, 1, o),
                 Bus(z, "bus body", n, ms, 0, o))
<1> DEFINE r == <<")">> \o z
           x == Bus(r, "parens", n, ms, 1, o)
           w == GoTo(x, Drop(x.rest, 1), "bus body", x.depth - 1)
           y == Bus(z, "bus body", n, ms, 0, o)
<1>0. ")" \in Token
  BY Tokens0
<1>1. Drop(r, 1) = z
  BY <1>0, OneInFront
<1>2. x = Bus(r, "parens", n, ms, 1, o)
  OBVIOUS
<1> HIDE DEF x, r
<1>3. /\ x.rest = r /\ x.mode = "parens" /\ x.kind = "bus" /\ x.name = n /\ x.members = ms
      /\ x.expected = <<>> /\ x.depth = 1 /\ x.out = o
  BY <1>2 DEF Bus, St
<1>4. x.depth - 1 = 0 /\ x.depth > 0 /\ x.depth = 1
  BY <1>3
<1>5. w = y
  BY <1>1, <1>3, <1>4 DEF GoTo, Bus
<1>6. NextIn(x.mode, x, ")") = w
  BY <1>3, <1>4, Zenon DEF NextIn, ParensNext
<1>7. Leads(x, y)
  BY <1>0, <1>3, <1>5, <1>6, OneStep DEF r
<1> QED BY <1>2, <1>7 DEF r

\* Its opening brace.
LEMMA BusEnters ==
    ASSUME NEW ms, NEW o, NEW z \in More, NEW n
    PROVE  Leads(Bus(<<"{">> \o z, "bus body", n, ms, 0, o),
                 Bus(z, "fields", n, ms, 1, o))
<1> DEFINE r == <<"{">> \o z
           x == Bus(r, "bus body", n, ms, 0, o)
           w == GoTo(x, Drop(x.rest, 1), "fields", 1)
           y == Bus(z, "fields", n, ms, 1, o)
<1>0. "{" \in Token
  BY Tokens0
<1>1. Drop(r, 1) = z
  BY <1>0, OneInFront
<1>2. x = Bus(r, "bus body", n, ms, 0, o)
  OBVIOUS
<1> HIDE DEF x, r
<1>3. /\ x.rest = r /\ x.mode = "bus body" /\ x.kind = "bus" /\ x.name = n /\ x.members = ms
      /\ x.expected = <<>> /\ x.depth = 0 /\ x.out = o
  BY <1>2 DEF Bus, St
<1>4. x.depth = 0
  BY <1>3
<1>5. w = y
  BY <1>1, <1>3, <1>4 DEF GoTo, Bus
<1>6. NextIn(x.mode, x, "{") = w
  BY <1>3, <1>4, Zenon DEF NextIn, BusBodyNext
<1>7. Leads(x, y)
  BY <1>0, <1>3, <1>5, <1>6, OneStep DEF r
<1> QED BY <1>2, <1>7 DEF r

\* The keyword of a field.
LEMMA FieldStarts ==
    ASSUME NEW ms, NEW o, NEW z \in More, NEW n
    PROVE  Leads(Bus(<<"signal">> \o z, "fields", n, ms, 1, o),
                 Bus(z, "field name", n, ms, 1, o))
<1> DEFINE r == <<"signal">> \o z
           x == Bus(r, "fields", n, ms, 1, o)
           w == Go(x, Drop(x.rest, 1), "field name")
           y == Bus(z, "field name", n, ms, 1, o)
<1>0. "signal" \in Token
  BY Tokens0
<1>1. Drop(r, 1) = z
  BY <1>0, OneInFront
<1>2. x = Bus(r, "fields", n, ms, 1, o)
  OBVIOUS
<1> HIDE DEF x, r
<1>3. /\ x.rest = r /\ x.mode = "fields" /\ x.kind = "bus" /\ x.name = n /\ x.members = ms
      /\ x.expected = <<>> /\ x.depth = 1 /\ x.out = o
  BY <1>2 DEF Bus, St
<1>4. x.depth = 1
  BY <1>3
<1>5. w = y
  BY <1>1, <1>3, <1>4 DEF Go, Bus
<1>6. NextIn(x.mode, x, "signal") = w
  BY <1>3, <1>4, Zenon DEF NextIn, FieldNext
<1>7. Leads(x, y)
  BY <1>0, <1>3, <1>5, <1>6, OneStep DEF r
<1> QED BY <1>2, <1>7 DEF r

\* The name of a field.
LEMMA FieldNamed ==
    ASSUME NEW ms, NEW o, NEW z \in More, NEW n, NEW t \in Token, IsName(t)
    PROVE  Leads(Bus(<<t>> \o z, "field name", n, ms, 1, o),
                 Bus(z, "field rest", n, Append(ms, t), 1, o))
<1> DEFINE r == <<t>> \o z
           x == Bus(r, "field name", n, ms, 1, o)
           w == St(Drop(x.rest, 1), "field rest", x.kind, x.name, Append(x.members, t), x.expected, x.depth, x.out)
           y == Bus(z, "field rest", n, Append(ms, t), 1, o)
<1>0. t \in Token
  BY Tokens0
<1>1. Drop(r, 1) = z
  BY <1>0, OneInFront
<1>2. x = Bus(r, "field name", n, ms, 1, o)
  OBVIOUS
<1> HIDE DEF x, r
<1>3. /\ x.rest = r /\ x.mode = "field name" /\ x.kind = "bus" /\ x.name = n /\ x.members = ms
      /\ x.expected = <<>> /\ x.depth = 1 /\ x.out = o
  BY <1>2 DEF Bus, St
<1>4. x.depth = 1
  BY <1>3
<1>5. w = y
  BY <1>1, <1>3, <1>4 DEF Bus
<1>6. NextIn(x.mode, x, t) = w
  BY <1>3, <1>4, Zenon DEF NextIn, FieldNameNext
<1>7. Leads(x, y)
  BY <1>0, <1>3, <1>5, <1>6, OneStep DEF r
<1> QED BY <1>2, <1>7 DEF r

\* The end of a field.
LEMMA FieldEnds ==
    ASSUME NEW ms, NEW o, NEW z \in More, NEW n
    PROVE  Leads(Bus(<<";">> \o z, "field rest", n, ms, 1, o),
                 Bus(z, "fields", n, ms, 1, o))
<1> DEFINE r == <<";">> \o z
           x == Bus(r, "field rest", n, ms, 1, o)
           w == Go(x, Drop(x.rest, 1), "fields")
           y == Bus(z, "fields", n, ms, 1, o)
<1>0. ";" \in Token
  BY Tokens0
<1>1. Drop(r, 1) = z
  BY <1>0, OneInFront
<1>2. x = Bus(r, "field rest", n, ms, 1, o)
  OBVIOUS
<1> HIDE DEF x, r
<1>3. /\ x.rest = r /\ x.mode = "field rest" /\ x.kind = "bus" /\ x.name = n /\ x.members = ms
      /\ x.expected = <<>> /\ x.depth = 1 /\ x.out = o
  BY <1>2 DEF Bus, St
<1>4. x.depth = 1
  BY <1>3
<1>5. w = y
  BY <1>1, <1>3, <1>4 DEF Go, Bus
<1>6. NextIn(x.mode, x, ";") = w
  BY <1>3, <1>4, Zenon DEF NextIn, FieldRestNext
<1>7. Leads(x, y)
  BY <1>0, <1>3, <1>5, <1>6, OneStep DEF r
<1> QED BY <1>2, <1>7 DEF r

\* The closing brace of a bus: it is one of the buses found.
LEMMA BusEnds ==
    ASSUME NEW ms, NEW o, NEW z \in More, NEW n
    PROVE  Leads(Bus(<<"}">> \o z, "fields", n, ms, 1, o),
                 Bus(z, "top", n, ms, 1, Out(o.templates, o.functions, Append(o.buses, [name |-> n, members |-> ms]))))
<1> DEFINE r == <<"}">> \o z
           x == Bus(r, "fields", n, ms, 1, o)
           w == Pushed(x, Drop(x.rest, 1))
           y == Bus(z, "top", n, ms, 1, Out(o.templates, o.functions, Append(o.buses, [name |-> n, members |-> ms])))
<1>0. "}" \in Token
  BY Tokens0
<1>1. Drop(r, 1) = z
  BY <1>0, OneInFront
<1>2. x = Bus(r, "fields", n, ms, 1, o)
  OBVIOUS
<1> HIDE DEF x, r
<1>3. /\ x.rest = r /\ x.mode = "fields" /\ x.kind = "bus" /\ x.name = n /\ x.members = ms
      /\ x.expected = <<>> /\ x.depth = 1 /\ x.out = o
  BY <1>2 DEF Bus, St
<1>4. x.depth = 1
  BY <1>3
<1>5. w = y
  BY <1>1, <1>3, <1>4 DEF Pushed, Pushes, Bus
<1>6. NextIn(x.mode, x, "}") = w
  BY <1>3, <1>4, Zenon DEF NextIn, FieldNext
<1>7. Leads(x, y)
  BY <1>0, <1>3, <1>5, <1>6, OneStep DEF r
<1> QED BY <1>2, <1>7 DEF r

TripleOver(T, a, b, c, z) == <<a, b, c>> \o z = <<a>> \o (<<b>> \o (<<c>> \o z))

\* Three tokens in front of a list, for given tokens.
LEMMA TriplesOver ==
    ASSUME NEW T, NEW a \in T, NEW b \in T, NEW c \in T, NEW z \in Seq(T)
    PROVE  TripleOver(T, a, b, c, z)
<1>1. <<a>> \in Seq(T) /\ <<b, c>> \in Seq(T) /\ <<a, b, c>> = <<a>> \o <<b, c>>
  BY ThreeTokens, OneToken, SMTT(30)
<1>2. (<<a>> \o <<b, c>>) \o z = <<a>> \o (<<b, c>> \o z)
  BY <1>1, Associative
<1>3. PairOver(T, b, c, z)
  BY PairsOver
<1> QED BY <1>1, <1>2, <1>3, Zenon DEF PairOver, TripleOver

\* A field of a bus is a member.
LEMMA FieldOver ==
    ASSUME NEW n, NEW ms, NEW o, NEW z \in More
    PROVE  Leads(Bus(FragmentCode("field") \o z, "fields", n, ms, 1, o),
                 Bus(z, "fields", n, Append(ms, "x"), 1, o))
<1> DEFINE u == <<";">> \o z
           v == <<"x">> \o u
           w == <<"signal">> \o v
<1>0. "signal" \in Token /\ "x" \in Token /\ ";" \in Token /\ z \in Seq(Token)
  BY Tokens0 DEF More
<1>1. FragmentCode("field") \o z = w
  <2>1. FragmentCode("field") = <<"signal", "x", ";">>
    BY DEF FragmentCode
  <2>2. <<"signal", "x", ";">> \o z = <<"signal">> \o (<<"x">> \o (<<";">> \o z))
    <3>1. TripleOver(Token, "signal", "x", ";", z)
      BY <1>0, TriplesOver
    <3> QED BY <3>1, Zenon DEF TripleOver
  <2> QED BY <2>1, <2>2
<1>2. u \in More
  BY <1>0, OneInFront
<1>3. v \in More
  <2> HIDE DEF u
  <2> QED BY <1>0, <1>2, OneInFront
<1>4. Leads(Bus(u, "field rest", n, Append(ms, "x"), 1, o), Bus(z, "fields", n, Append(ms, "x"), 1, o))
  BY FieldEnds
<1> HIDE DEF u
<1>5. IsName("x")
  BY DEF IsName, Punctuation
<1>6. Leads(Bus(v, "field name", n, ms, 1, o), Bus(u, "field rest", n, Append(ms, "x"), 1, o))
  BY <1>0, <1>2, <1>5, FieldNamed
<1> HIDE DEF v
<1>7. Leads(Bus(w, "fields", n, ms, 1, o), Bus(v, "field name", n, ms, 1, o))
  BY <1>3, FieldStarts
<1> HIDE DEF w
<1> QED BY <1>1, <1>4, <1>6, <1>7, LeadsJoined

BusOver(c, ins) ==
    \A n, o : \A z \in Tails :
        Leads(Bus(c \o z, "fields", n, <<>>, 1, o), Bus(z, "fields", n, ins, 1, o))

\* A bus without fields has been read.
LEMMA BusNothing == BusOver(<<>>, <<>>)
<1>1. ASSUME NEW z \in Tails PROVE <<>> \o z = z
  BY EmptyEnd DEF Tails, More
<1> QED BY <1>1, LeadsHere DEF BusOver

\* One field more has been read.
LEMMA FieldsMore ==
    ASSUME NEW c \in Seq(Token), NEW ins, BusOver(c, ins)
    PROVE  BusOver(c \o FragmentCode("field"), Append(ins, "x"))
<1> DEFINE g == FragmentCode("field")
<1> SUFFICES ASSUME NEW n, NEW o, NEW z \in Tails
             PROVE  Leads(Bus((c \o g) \o z, "fields", n, <<>>, 1, o),
                          Bus(z, "fields", n, Append(ins, "x"), 1, o))
  BY DEF BusOver
<1> DEFINE v == g \o z
<1>0. z \in More /\ z \in Seq(Token)
  BY DEF Tails, More
<1>1. v \in Tails /\ g \in Seq(Token)
  BY FragmentTail, FragmentTyped
<1>2. Leads(Bus(v, "fields", n, ins, 1, o), Bus(z, "fields", n, Append(ins, "x"), 1, o))
  BY <1>0, FieldOver
<1> HIDE DEF g
<1>3. (c \o g) \o z = c \o v
  <2>1. Groups(Token, c, g, z)
    BY <1>0, <1>1, Grouped
  <2> QED BY <2>1, Zenon DEF Groups
<1>4. Leads(Bus(c \o v, "fields", n, <<>>, 1, o), Bus(v, "fields", n, ins, 1, o))
  <2> HIDE DEF v
  <2> QED BY <1>1 DEF BusOver
<1> QED BY <1>2, <1>3, <1>4, LeadsJoined

Xs(m) == [j \in 1 .. m |-> "x"]

\* One x more.
LEMMA OneX ==
    ASSUME NEW m \in Nat
    PROVE  Append(Xs(m), "x") = Xs(m + 1)
<1>1. Xs(m) \in Seq({"x"}) /\ Len(Xs(m)) = m /\ Xs(m + 1) \in Seq({"x"}) /\ Len(Xs(m + 1)) = m + 1
  BY DEF Xs
<1>2. Append(Xs(m), "x") \in Seq({"x"}) /\ Len(Append(Xs(m), "x")) = m + 1
  <2> DEFINE s == Xs(m)
             X == {"x"}
  <2>0. "x" \in X
    OBVIOUS
  <2> HIDE DEF s, X
  <2>1. s \in Seq(X) /\ Len(s) = m
    BY <1>1 DEF s, X
  <2>2. Append(s, "x") \in Seq(X) /\ Len(Append(s, "x")) = m + 1
    BY <2>0, <2>1, AppendProperties
  <2> QED BY <2>2 DEF s, X
<1> DEFINE p == Append(Xs(m), "x")
           q == Xs(m + 1)
           X == {"x"}
<1>3. p \in Seq(X) /\ q \in Seq(X) /\ Len(p) = Len(q)
  BY <1>1, <1>2
<1>4. ASSUME NEW s \in Seq(X), NEW i \in 1 .. Len(s) PROVE s[i] = "x"
  OBVIOUS
<1> HIDE DEF p, q, X
<1>5. \A i \in 1 .. Len(p) : p[i] = q[i]
  BY <1>3, <1>4
<1>6. p = q
  BY <1>3, <1>5, SameElements
<1> QED BY <1>6 DEF p, q

\* All fields of a bus are members.
LEMMA BusBodyOver ==
    ASSUME NEW b \in Seq({"field"})
    PROVE  BusOver(CodeOf(BodyLines(b)), [j \in DOMAIN b |-> "x"])
<1>0. b \in Seq(BodySource) /\ Len(b) \in Nat /\ DOMAIN b = 1 .. Len(b)
  <2> DEFINE F == {"field"}
  <2>1. F \subseteq BodySource /\ b \in Seq(F)
    BY DEF BodySource
  <2> HIDE DEF F
  <2>2. b \in Seq(BodySource)
    BY <2>1, WiderSeq
  <2> QED BY <2>1, <2>2
<1>1. PICK c : /\ c[0] = <<>>
               /\ \A m \in 1 .. Len(b) : c[m] = c[m - 1] \o FragmentCode(b[m])
               /\ CodeOf(BodyLines(b)) = c[Len(b)]
               /\ \A m \in 0 .. Len(b) : c[m] \in Seq(Token)
  BY <1>0, BodySteps
<1> DEFINE S == {m \in Nat : m <= Len(b) => BusOver(c[m], Xs(m))}
<1>2. \A m \in 1 .. Len(b) : b[m] = "field"
  OBVIOUS
<1>3. 0 \in S
  <2>1. Xs(0) = <<>>
    BY DEF Xs
  <2>2. BusOver(c[0], Xs(0))
    BY <1>1, <2>1, BusNothing, Zenon
  <2> QED BY <2>2
<1>4. ASSUME NEW m \in Nat, m \in S PROVE m + 1 \in S
  <2>1. CASE m + 1 <= Len(b)
    <3>1. m + 1 \in 1 .. Len(b) /\ (m + 1) - 1 = m /\ m \in 0 .. Len(b) /\ m <= Len(b)
      BY <1>0, <2>1
    <3>2. c[m + 1] = c[m] \o FragmentCode("field") /\ c[m] \in Seq(Token)
      <4>1. c[m + 1] = c[(m + 1) - 1] \o FragmentCode(b[m + 1])
        BY <1>1, <3>1, Zenon
      <4>2. c[m] \in Seq(Token) /\ b[m + 1] = "field"
        BY <1>1, <1>2, <3>1, Zenon
      <4> QED BY <3>1, <4>1, <4>2, Zenon
    <3>3. BusOver(c[m], Xs(m))
      BY <1>4, <3>1
    <3>4. BusOver(c[m] \o FragmentCode("field"), Append(Xs(m), "x"))
      <4> DEFINE p == c[m]
                 i == Xs(m)
      <4>1. p \in Seq(Token) /\ BusOver(p, i)
        BY <3>2, <3>3
      <4> HIDE DEF p, i, S
      <4>2. BusOver(p \o FragmentCode("field"), Append(i, "x"))
        BY <4>1, FieldsMore
      <4> QED BY <4>2 DEF p, i
    <3>5. BusOver(c[m + 1], Xs(m + 1))
      BY <3>2, <3>4, OneX
    <3> QED BY <3>5
  <2>2. CASE ~(m + 1 <= Len(b))
    BY <2>2
  <2> QED BY <2>1, <2>2
<1> HIDE DEF S
<1>5. Len(b) \in S
  BY <1>0, <1>3, <1>4, Induction
<1>6. Xs(Len(b)) = [j \in DOMAIN b |-> "x"]
  BY <1>0 DEF Xs
<1>7. BusOver(c[Len(b)], Xs(Len(b)))
  BY <1>0, <1>5 DEF S
<1> QED BY <1>1, <1>6, <1>7

---------------------------------------------------------------------------
\* A whole definition.

\* The body of a definition depends on its fragments only.
LEMMA BodyOf == \A d : Body(d) = BodyLines(d.body)
BY DEF Body, BodyLines

CutHead(T, a, b, c, d) == <<a, b, c, d>> = <<a>> \o <<b, c, d>>

\* Four elements, the first one apart, for given elements.
LEMMA HeadCut ==
    ASSUME NEW T, NEW a \in T, NEW b \in T, NEW c \in T, NEW d \in T
    PROVE  CutHead(T, a, b, c, d)
BY DEF CutHead

\* The code of a definition with a body, in front of what comes after it.
LEMMA DefinitionCode ==
    ASSUME NEW d \in ReadBodied, NEW z \in Tails
    PROVE  LET e == <<"}">> \o z
               w == CodeOf(BodyLines(d.body)) \o e
               r == <<d.name>> \o (HeaderRest \o w)
           IN  /\ e \in Tails /\ w \in More /\ HeaderRest \o w \in More /\ r \in More
               /\ d.mods \o r \in More
               /\ DefCode(d) \o z = <<d.kind>> \o (d.mods \o r)
<1> DEFINE k == <<d.kind>>
           m == d.mods
           n == <<d.name>>
           c == CodeOf(BodyLines(d.body))
           f == <<"}">>
           e == f \o z
           w == c \o e
           h == HeaderRest
           v == h \o w
           r == n \o v
<1>0. d.kind \in {"template", "function", "bus"} /\ d.name \in Names /\ d.mods \in Seq(Modifiers)
  BY ReadParts
<1>1. /\ d.kind \in Token /\ d.name \in Token /\ "(" \in Token /\ ")" \in Token /\ "{" \in Token
      /\ "}" \in Token
  BY <1>0, Tokens0
<1>2. k \in Seq(Token) /\ n \in Seq(Token) /\ f \in Seq(Token) /\ f[1] # "("
  BY <1>1, Sequence1
<1>3. m \in Seq(Token)
  <2>1. Modifiers \subseteq Token
    BY DEF Token, Words
  <2> QED BY <1>0, <2>1, WiderSeq
<1>4. c \in Seq(Token) /\ c = CodeOf(Body(d))
  BY BodyOf, DefinitionParts
<1>5. z \in Seq(Token) /\ h \in Seq(Token)
  BY HeaderIs DEF Tails, More
<1>6. n \o h = <<d.name, "(", ")", "{">>
  <2>1. <<d.name, "(", ")", "{">> = <<d.name>> \o <<"(", ")", "{">>
    <3> DEFINE t == d.name
    <3>1. t \in Token
      BY <1>1
    <3> HIDE DEF t
    <3>2. CutHead(Token, t, "(", ")", "{")
      BY <1>1, <3>1, HeadCut
    <3>3. <<t, "(", ")", "{">> = <<t>> \o <<"(", ")", "{">>
      BY <3>2, Zenon DEF CutHead
    <3> QED BY <3>3 DEF t
  <2> QED BY <2>1 DEF HeaderRest
<1> DEFINE q == n \o h
           g == (k \o m) \o q
<1>7. DefCode(d) = (g \o c) \o f
  <2>1. Header(d) = g
    BY <1>6 DEF Header
  <2>2. DefCode(d) = (Header(d) \o CodeOf(Body(d))) \o <<"}">>
    BY <1>0 DEF DefCode
  <2> QED BY <1>4, <2>1, <2>2
<1> HIDE DEF k, m, n, c, f, h
<1>8. e \in Tails
  BY <1>2, TailInFront
<1>9. w \in More /\ e \in Seq(Token)
  <2> HIDE DEF e
  <2> QED BY <1>4, <1>8, AnyInFront DEF Tails, More
<1>10. v \in More /\ w \in Seq(Token)
  <2> HIDE DEF w
  <2> QED BY <1>5, <1>9, AnyInFront DEF More
<1>11. r \in More /\ v \in Seq(Token)
  <2> HIDE DEF v
  <2> QED BY <1>2, <1>10, AnyInFront DEF More
<1>12. m \o r \in More /\ r \in Seq(Token)
  <2> HIDE DEF r
  <2> QED BY <1>3, <1>11, AnyInFront DEF More
<1>13. q \in Seq(Token) /\ k \o m \in Seq(Token)
  BY <1>2, <1>3, <1>5
<1>14. g \in Seq(Token)
  <2> HIDE DEF q
  <2> QED BY <1>2, <1>3, <1>13
<1>15. Regrouped(g, c, f, z) /\ Groups(Token, c, f, z)
  <2> HIDE DEF g
  <2> QED BY <1>2, <1>4, <1>5, <1>14, FourParts, Grouped
<1>16. ((g \o c) \o f) \o z = g \o w
  BY <1>15, Zenon DEF Regrouped, Groups
<1>17. Regrouped(k, m, q, w)
  <2> HIDE DEF q, w
  <2> QED BY <1>2, <1>3, <1>10, <1>13, FourParts
<1>18. Groups(Token, m, q, w)
  <2> HIDE DEF q, w
  <2> QED BY <1>3, <1>10, <1>13, Grouped
<1>19. Groups(Token, n, h, w)
  <2> HIDE DEF w
  <2> QED BY <1>2, <1>5, <1>10, Grouped
<1>20. q \o w = r
  BY <1>19, Zenon DEF Groups
<1>21. g \o w = k \o (m \o (q \o w))
  BY <1>17, <1>18, Zenon DEF Regrouped, Groups
<1>22. DefCode(d) \o z = k \o (m \o r)
  BY <1>7, <1>16, <1>20, <1>21, Zenon
<1> QED BY <1>8, <1>9, <1>10, <1>11, <1>12, <1>22 DEF k, m, n, c, f, h

\* What is found so far.
DefinedItem == [name : Names, members : Seq(Token)]
TypedOut(o) ==
    Outed(o) /\ o.templates \in Seq(DefinedItem) /\ o.functions \in Seq(Names) /\ o.buses \in Seq(DefinedItem)

\* What a definition adds to it.
Members(d) == [name |-> d.name, members |-> Inputs(d)]
Fields(d) == [name |-> d.name, members |-> [j \in DOMAIN d.body |-> "x"]]
Adds(d, o, p) ==
    /\ p.templates = o.templates \o Where(Parsable(d, "template"), Members(d))
    /\ p.functions = o.functions \o Where(Parsable(d, "function"), d.name)
AddsBus(d, o, p) == p.buses = o.buses \o Where(Parsable(d, "bus"), Fields(d))

\* The definition d is read from y on; the parser is behind it, at z.
Passes(d, y, z, o) ==
    \E x, p : /\ Leads(y, x) /\ IsFree(x, z, p) /\ TypedOut(p) /\ Adds(d, o, p)
              /\ y.mode = "top" /\ ~Broken(d) => x.mode = "top" /\ AddsBus(d, o, p)

\* A definition that is not parsed adds nothing.
LEMMA AddsNothing ==
    ASSUME NEW d, NEW o, TypedOut(o), ~Parsable(d, "template"), ~Parsable(d, "function")
    PROVE  Adds(d, o, o) /\ (~Parsable(d, "bus") => AddsBus(d, o, o))
<1>1. Where(FALSE, Members(d)) = <<>> /\ Where(FALSE, d.name) = <<>> /\ Where(FALSE, Fields(d)) = <<>>
  BY DEF Where
<1>2. /\ o.templates \o <<>> = o.templates /\ o.functions \o <<>> = o.functions
      /\ o.buses \o <<>> = o.buses
  BY EmptyEnd DEF TypedOut
<1>3. /\ Where(Parsable(d, "template"), Members(d)) = <<>>
      /\ Where(Parsable(d, "function"), d.name) = <<>>
      /\ ~Parsable(d, "bus") => Where(Parsable(d, "bus"), Fields(d)) = <<>>
  BY Zenon DEF Where
<1> QED BY <1>2, <1>3, Zenon DEF Adds, AddsBus

\* The inputs of a definition depend on its fragments only.
LEMMA InputsAre ==
    ASSUME NEW d, d.body \in Seq(ReadBody)
    PROVE  Inputs(d) = BodyInputs(d.body) /\ Inputs(d) \in Seq(Token)
<1>1. \A f : InputsOn("templates", f) = Where(f \in {"input a", "input b"}, InputName(f))
  BY DEF InputsOn
<1>2. Inputs(d) = BodyInputs(d.body)
  BY <1>1 DEF Inputs, BodyInputs
<1> DEFINE ss == [i \in DOMAIN d.body |-> InputsOn("templates", d.body[i])]
<1>3. ss \in Seq(Seq(Token))
  <2>1. \A i \in DOMAIN d.body : InputsOn("templates", d.body[i]) \in Seq(Token)
    <3>1. <<>> \in Seq(Token) /\ "templates" \in Scanners
      BY DEF Scanners
    <3> QED BY <3>1, OnTypes
  <2> QED BY <2>1
<1>4. BodyInputs(d.body) = FlattenSeq(ss)
  BY DEF BodyInputs
<1> HIDE DEF ss
<1> QED BY <1>2, <1>3, <1>4, FlattenType

\* A main component adds nothing and ends a skip.
LEMMA MainRead ==
    ASSUME NEW d \in ReadDefinitions, d.kind \in {"main", "public"}, NEW z \in Tails, NEW y, NEW o,
           IsFree(y, DefCode(d) \o z, o), TypedOut(o)
    PROVE  Passes(d, y, z, o)
<1> DEFINE t == d.name
           u == <<"=", t, "(", ")">>
<1>0. z \in More /\ z \in Seq(Token)
  BY DEF Tails, More
<1>1. t \in Names /\ t \in Token /\ t \in Eaten
  <2>1. t \in Names
    BY ReadKinds
  <2> QED BY <2>1, CalmTokens, Tokens0
<1>2. PICK name \in Seq(Token) : name \in Seq(Eaten) /\ DefCode(d) = Instance(name, t)
  <2>1. "main" \in Token /\ "{" \in Token /\ "}" \in Token
    BY Tokens0
  <2>2. "main" \in Eaten /\ "{" \in Eaten /\ "}" \in Eaten
    BY CalmTokens
  <2>3. <<"main">> \in Seq(Token) /\ <<"main">> \in Seq(Eaten)
    BY <2>1, <2>2, Sequence1
  <2>4. <<"main", "{", "}">> \in Seq(Token) /\ <<"main", "{", "}">> \in Seq(Eaten)
    BY <2>1, <2>2, Sequence3
  <2>5. CASE d.kind = "main"
    <3>1. DefCode(d) = Instance(<<"main">>, t)
      BY <2>5 DEF DefCode
    <3> QED BY <2>3, <3>1
  <2>6. CASE d.kind = "public"
    <3>1. DefCode(d) = Instance(<<"main", "{", "}">>, t)
      BY <2>6 DEF DefCode
    <3> QED BY <2>4, <3>1
  <2> QED BY <2>5, <2>6
<1>3. u \in Seq(Eaten)
  <2>1. "=" \in Eaten /\ "(" \in Eaten /\ ")" \in Eaten
    BY CalmTokens
  <2> HIDE DEF t
  <2> QED BY <1>1, <2>1, Sequence4
<1> DEFINE a == name \o u
<1>4. Instance(name, t) \o z = <<"component">> \o (a \o (<<";">> \o z))
  <2> HIDE DEF t
  <2> QED BY <1>0, <1>1, InstanceOver
<1>5. a \in Seq(Eaten)
  <2> HIDE DEF u
  <2> QED BY <1>2, <1>3, Joined
<1> HIDE DEF a
<1>6. IsFree(y, <<"component">> \o (a \o (<<";">> \o z)), o)
  BY <1>2, <1>4
<1> DEFINE x == Go(y, z, "top")
<1>7. Leads(y, x) /\ IsFree(x, z, o)
  BY <1>0, <1>5, <1>6, FreeInstance
<1>8. x.mode = "top"
  BY DEF Go, St
<1>9. Adds(d, o, o) /\ AddsBus(d, o, o)
  <2>1. ~Parsable(d, "template") /\ ~Parsable(d, "function") /\ ~Parsable(d, "bus")
    BY DEF Parsable
  <2> QED BY <2>1, AddsNothing
<1> HIDE DEF x
<1> QED BY <1>7, <1>8, <1>9 DEF Passes

\* A definition in a comment adds nothing.
LEMMA QuotedRead ==
    ASSUME NEW d \in ReadDefinitions, d.kind = "quoted", NEW z \in Tails, NEW y, NEW o,
           IsFree(y, DefCode(d) \o z, o), TypedOut(o)
    PROVE  Passes(d, y, z, o)
<1>1. DefCode(d) = <<>>
  BY DEF DefCode
<1>2. <<>> \o z = z
  BY EmptyEnd DEF Tails, More
<1>3. IsFree(y, z, o) /\ Leads(y, y)
  BY <1>1, <1>2, LeadsHere
<1>4. Adds(d, o, o) /\ AddsBus(d, o, o)
  <2>1. ~Parsable(d, "template") /\ ~Parsable(d, "function") /\ ~Parsable(d, "bus")
    BY DEF Parsable
  <2> QED BY <2>1, AddsNothing
<1> QED BY <1>3, <1>4 DEF Passes

\* What a block reads is found at its closing brace, if all of it is read.
BlockPasses(d, x, z, o) ==
    \E u, p : /\ Leads(x, u) /\ IsFree(u, z, p) /\ TypedOut(p) /\ Adds(d, o, p)
              /\ ~Broken(d) => u.mode = "top" /\ AddsBus(d, o, p)

HasUnread(b) == \E i \in 1 .. Len(b) : b[i] \in Unread

\* A definition is broken if its body has a fragment the parser cannot read.
LEMMA BrokenIs ==
    ASSUME NEW d, d.kind \in {"template", "function"}, d.body \in Seq(ReadBody)
    PROVE  Broken(d) <=> HasUnread(d.body)
<1>1. Range(d.body) = {d.body[i] : i \in 1 .. Len(d.body)}
  BY DEF Range
<1>2. Range(d.body) \cap Unread # {} <=> \E i \in 1 .. Len(d.body) : d.body[i] \in Unread
  BY <1>1
<1>3. Range(d.body) \cap ({"bad"} \cup HasString) = Range(d.body) \cap Unread
  <2>1. Range(d.body) \subseteq ReadBody
    BY RangeIn, Zenon
  <2>2. ({"bad"} \cup HasString) \ {"defines", "comments"} = Unread
    BY DEF HasString, Unread
  <2>3. {"defines", "comments"} \cap ReadBody = {}
    BY DEF ReadBody
  <2> QED BY <2>1, <2>2, <2>3
<1>4. Broken(d) <=> \E i \in 1 .. Len(d.body) : d.body[i] \in Unread
  BY <1>2, <1>3, Zenon DEF Broken
<1> QED BY <1>4, Zenon DEF HasUnread

\* Which definitions are parsed as what.
LEMMA ParsableIs ==
    ASSUME NEW d, d.kind \in {"template", "function"}
    PROVE  /\ ~Parsable(d, "bus")
           /\ d.kind = "template" => ~Parsable(d, "function") /\ (Parsable(d, "template") <=> ~Broken(d))
           /\ d.kind = "function" => ~Parsable(d, "template") /\ (Parsable(d, "function") <=> ~Broken(d))
BY Zenon DEF Parsable

\* The end of a body adds the definition.
LEMMA DefinesAdds ==
    ASSUME NEW d \in ReadBodied, d.kind \in {"template", "function"}, d.body \in Seq(ReadBody),
           ~Broken(d), NEW o, TypedOut(o), NEW x,
           x.kind = d.kind, x.name = d.name, x.members = Inputs(d), x.out = o
    PROVE  TypedOut(Defines(x)) /\ Adds(d, o, Defines(x)) /\ AddsBus(d, o, Defines(x))
<1> DEFINE p == Defines(x)
           b == [name |-> x.name, members |-> x.members]
<1>0. /\ ~Parsable(d, "bus")
      /\ d.kind = "template" => ~Parsable(d, "function") /\ Parsable(d, "template")
      /\ d.kind = "function" => ~Parsable(d, "template") /\ Parsable(d, "function")
  BY ParsableIs
<1>1. b = Members(d) /\ b \in DefinedItem /\ d.name \in Names
  <2>1. Inputs(d) \in Seq(Token) /\ d.name \in Names
    BY InputsAre, ReadParts
  <2> QED BY <2>1 DEF Members, DefinedItem
<1>2. o.templates \in Seq(DefinedItem) /\ o.functions \in Seq(Names) /\ o.buses \in Seq(DefinedItem)
  BY DEF TypedOut
<1>3. Append(o.templates, b) = o.templates \o <<b>> /\ Append(o.templates, b) \in Seq(DefinedItem)
  <2> HIDE DEF b
  <2> QED BY <1>1, <1>2, AppendOne, AppendProperties
<1>4. /\ Append(o.functions, d.name) = o.functions \o <<d.name>>
      /\ Append(o.functions, d.name) \in Seq(Names)
  BY <1>1, <1>2, AppendOne, AppendProperties
<1>5. /\ o.templates \o <<>> = o.templates /\ o.functions \o <<>> = o.functions
      /\ o.buses \o <<>> = o.buses
  BY <1>2, EmptyEnd
<1>6. Where(Parsable(d, "bus"), Fields(d)) = <<>>
  BY <1>0, Zenon DEF Where
<1>7. CASE d.kind = "template"
  <2>1. p = Out(Append(o.templates, b), o.functions, o.buses)
    BY <1>7 DEF Defines
  <2> HIDE DEF p, b
  <2>2. /\ p.templates = Append(o.templates, b) /\ p.functions = o.functions /\ p.buses = o.buses
        /\ Outed(p)
    <3>1. /\ p.templates = Append(o.templates, b) /\ p.functions = o.functions /\ p.buses = o.buses
      BY <2>1 DEF Out
    <3> QED BY <2>1, <3>1 DEF Outed
  <2>3. Where(Parsable(d, "template"), Members(d)) = <<b>> /\ Where(Parsable(d, "function"), d.name) = <<>>
    BY <1>0, <1>1, <1>7, Zenon DEF Where
  <2>4. Adds(d, o, p) /\ AddsBus(d, o, p)
    BY <1>3, <1>5, <1>6, <2>2, <2>3, Zenon DEF Adds, AddsBus
  <2>5. TypedOut(p)
    BY <1>2, <1>3, <2>2, Zenon DEF TypedOut
  <2> QED BY <2>4, <2>5 DEF p
<1>8. CASE d.kind = "function"
  <2>1. p = Out(o.templates, Append(o.functions, d.name), o.buses)
    BY <1>8 DEF Defines
  <2> HIDE DEF p, b
  <2>2. /\ p.templates = o.templates /\ p.functions = Append(o.functions, d.name) /\ p.buses = o.buses
        /\ Outed(p)
    <3>1. /\ p.templates = o.templates /\ p.functions = Append(o.functions, d.name) /\ p.buses = o.buses
      BY <2>1 DEF Out
    <3> QED BY <2>1, <3>1 DEF Outed
  <2>3. Where(Parsable(d, "template"), Members(d)) = <<>> /\ Where(Parsable(d, "function"), d.name) = <<d.name>>
    BY <1>0, <1>8, Zenon DEF Where
  <2>4. Adds(d, o, p) /\ AddsBus(d, o, p)
    BY <1>4, <1>5, <1>6, <2>2, <2>3, Zenon DEF Adds, AddsBus
  <2>5. TypedOut(p)
    BY <1>2, <1>4, <2>2, Zenon DEF TypedOut
  <2> QED BY <2>4, <2>5 DEF p
<1> QED BY <1>7, <1>8

\* The body of a template or function adds it, or has the parser give up within it.
LEMMA BlockRead ==
    ASSUME NEW d \in ReadBodied, d.kind \in {"template", "function"}, d.body \in Seq(ReadBody),
           NEW z \in Tails, NEW o, TypedOut(o)
    PROVE  BlockPasses(d, Block(d.kind, d.name, <<>>, CodeOf(BodyLines(d.body)) \o (<<"}">> \o z), 1, o),
                       z, o)
<1> DEFINE e == <<"}">> \o z
           c == CodeOf(BodyLines(d.body))
           ins == BodyInputs(d.body)
           bad == HasUnread(d.body)
           x == Block(d.kind, d.name, <<>>, c \o e, 1, o)
<1>0. BlockOver(d.kind, d.name, c, ins, bad, o) /\ e \in Tails /\ z \in More
  <2>1. e \in Tails
    <3> DEFINE f == <<"}">>
    <3>1. f \in Seq(Token) /\ f[1] # "("
      <4>1. "}" \in Token
        BY Tokens0
      <4> QED BY <4>1, Sequence1
    <3> HIDE DEF f
    <3>2. f \o z \in Tails
      BY <3>1, TailInFront
    <3> QED BY <3>2 DEF f
  <2> HIDE DEF e
  <2>2. BlockOver(d.kind, d.name, c, ins, bad, o)
    BY BlockBody DEF HasUnread
  <2> QED BY <2>1, <2>2 DEF Tails
<1>1. (bad <=> Broken(d)) /\ bad \in BOOLEAN /\ ins = Inputs(d)
  <2>1. bad <=> Broken(d)
    <3> HIDE DEF c, ins, e, x
    <3> QED BY BrokenIs
  <2>2. ins = Inputs(d)
    BY InputsAre
  <2>3. bad \in BOOLEAN
    BY DEF HasUnread
  <2> QED BY <2>1, <2>2, <2>3
<1> HIDE DEF c, ins, bad
<1>2. /\ ~bad => Leads(x, Block(d.kind, d.name, ins, e, 1, o))
      /\ bad => \E y : Leads(x, y) /\ IsFree(y, e, o)
  <2> HIDE DEF e
  <2> QED BY <1>0 DEF BlockOver
<1> HIDE DEF x
<1>3. CASE ~Broken(d)
  <2> DEFINE v == Block(d.kind, d.name, ins, e, 1, o)
             p == Defines(v)
             u == St(z, "top", d.kind, d.name, ins, <<>>, 1, p)
  <2>1. Leads(x, v)
    BY <1>1, <1>2, <1>3
  <2>2. Leads(v, u)
    BY <1>0, EndsDefinition
  <2>3. v.kind = d.kind /\ v.name = d.name /\ v.members = Inputs(d) /\ v.out = o
    <3>1. v = Block(d.kind, d.name, ins, e, 1, o)
      OBVIOUS
    <3> HIDE DEF v
    <3>2. v.kind = d.kind /\ v.name = d.name /\ v.members = ins /\ v.out = o
      BY <3>1 DEF Block, St
    <3> QED BY <1>1, <3>2
  <2> HIDE DEF v
  <2>4. TypedOut(p) /\ Adds(d, o, p) /\ AddsBus(d, o, p)
    BY <1>3, <2>3, DefinesAdds
  <2> HIDE DEF p
  <2>5. u.mode = "top" /\ IsFree(u, z, p)
    BY DEF IsFree, Go, St
  <2>6. Leads(x, u)
    BY <2>1, <2>2, LeadsJoined
  <2> HIDE DEF u
  <2> QED BY <2>4, <2>5, <2>6 DEF BlockPasses, x, c, e
<1>4. CASE Broken(d)
  <2>1. PICK y : Leads(x, y) /\ IsFree(y, e, o)
    BY <1>1, <1>2, <1>4
  <2> DEFINE f == <<"}">>
             u == Go(y, z, y.mode)
  <2>2. f \in Seq(FreeTokens)
    <3>1. "}" \in FreeTokens
      BY CalmTokens
    <3> QED BY <3>1, Sequence1
  <2>3. IsFree(y, f \o z, o)
    BY <2>1
  <2> HIDE DEF f
  <2>4. Leads(y, u) /\ IsFree(u, z, o)
    BY <1>0, <2>2, <2>3, FreePasses
  <2> HIDE DEF u
  <2>5. Leads(x, u)
    BY <2>1, <2>4, LeadsJoined
  <2>6. Adds(d, o, o)
    <3>1. ~Parsable(d, "template") /\ ~Parsable(d, "function")
      BY <1>4 DEF Parsable
    <3> QED BY <3>1, AddsNothing
  <2> QED BY <1>4, <2>4, <2>5, <2>6 DEF BlockPasses, x, c, e
<1> QED BY <1>3, <1>4

\* From the name of a template or a function on.
LEMMA NamedRead ==
    ASSUME NEW d \in ReadBodied, d.kind \in {"template", "function"}, d.body \in Seq(ReadBody),
           NEW z \in Tails, NEW o, TypedOut(o), NEW y, NEW r,
           r = <<d.name>> \o (HeaderRest \o (CodeOf(BodyLines(d.body)) \o (<<"}">> \o z))),
           Leads(y, St(r, "expect", d.kind, "", <<>>, HeaderTokens, 1, o))
    PROVE  Passes(d, y, z, o)
<1> DEFINE w == CodeOf(BodyLines(d.body)) \o (<<"}">> \o z)
           t == d.name
           x == Block(d.kind, t, <<>>, w, 1, o)
<1>1. t \in Token /\ IsName(t)
  <2>1. t \in Names
    BY ReadParts
  <2> QED BY <2>1, CalmTokens, Tokens0
<1>2. w \in More
  BY DefinitionCode
<1>3. BlockPasses(d, x, z, o)
  BY BlockRead
<1>4. r = <<t>> \o (HeaderRest \o w)
  OBVIOUS
<1> HIDE DEF w, t
<1>5. Leads(St(<<t>> \o (HeaderRest \o w), "expect", d.kind, "", <<>>, HeaderTokens, 1, o), x)
  BY <1>1, <1>2, ReadsHeader
<1> HIDE DEF x
<1>6. Leads(y, x)
  BY <1>4, <1>5, LeadsJoined
<1>7. PICK u, p : /\ Leads(x, u) /\ IsFree(u, z, p) /\ TypedOut(p) /\ Adds(d, o, p)
                  /\ ~Broken(d) => u.mode = "top" /\ AddsBus(d, o, p)
  BY <1>3, Zenon DEF BlockPasses
<1>8. Leads(y, u)
  BY <1>6, <1>7, LeadsJoined
<1> QED BY <1>7, <1>8, Zenon DEF Passes

\* A template, with any modifiers, is added unless it is broken.
LEMMA TemplateRead ==
    ASSUME NEW d \in ReadDefinitions, d.kind = "template", NEW z \in Tails, NEW y, NEW o,
           IsFree(y, DefCode(d) \o z, o), TypedOut(o)
    PROVE  Passes(d, y, z, o)
<1> DEFINE v == HeaderRest \o (CodeOf(BodyLines(d.body)) \o (<<"}">> \o z))
           t == d.name
           r == <<t>> \o v
           m == d.mods
<1>0. d \in ReadBodied /\ d.body \in Seq(ReadBody) /\ m \in Seq(Modifiers)
  <2>1. d \in ReadBodied /\ d.body \in Seq(ReadBody)
    BY ReadKinds
  <2> QED BY <2>1, ReadParts
<1>1. v \in More /\ m \o r \in More /\ DefCode(d) \o z = <<"template">> \o (m \o r)
  <2>1. v \in More /\ m \o r \in More /\ DefCode(d) \o z = <<d.kind>> \o (m \o r)
    BY <1>0, DefinitionCode
  <2> QED BY <2>1, Zenon
<1>2. t \in Token \ Modifiers
  <2>1. t \in Names
    BY ReadKinds
  <2> QED BY <2>1, CalmTokens, Tokens0
<1> DEFINE x == St(m \o r, "modifiers", "template", "", <<>>, <<>>, 0, o)
           u == St(r, "expect", "template", "", <<>>, HeaderTokens, 1, o)
<1>3. Leads(y, x)
  <2> DEFINE s == m \o r
  <2>1. s \in More /\ IsFree(y, <<"template">> \o s, o)
    BY <1>1
  <2> HIDE DEF s
  <2>2. Leads(y, St(s, "modifiers", "template", "", <<>>, <<>>, 0, o))
    BY <2>1, StartsTemplate
  <2> QED BY <2>2 DEF s
<1>4. Leads(x, u)
  <2> HIDE DEF v, t, m
  <2> QED BY <1>0, <1>1, <1>2, PassesModifiers
<1>5. Leads(y, u)
  <2> HIDE DEF x, u
  <2> QED BY <1>3, <1>4, LeadsJoined
<1>6. u = St(r, "expect", d.kind, "", <<>>, HeaderTokens, 1, o)
  OBVIOUS
<1> HIDE DEF x, u
<1>7. Leads(y, St(r, "expect", d.kind, "", <<>>, HeaderTokens, 1, o))
  BY <1>5, <1>6
<1>8. r = <<d.name>> \o (HeaderRest \o (CodeOf(BodyLines(d.body)) \o (<<"}">> \o z)))
  OBVIOUS
<1> HIDE DEF r
<1> QED BY <1>0, <1>7, <1>8, NamedRead

\* A function is added unless it is broken.
LEMMA FunctionRead ==
    ASSUME NEW d \in ReadDefinitions, d.kind = "function", NEW z \in Tails, NEW y, NEW o,
           IsFree(y, DefCode(d) \o z, o), TypedOut(o)
    PROVE  Passes(d, y, z, o)
<1> DEFINE r == <<d.name>> \o (HeaderRest \o (CodeOf(BodyLines(d.body)) \o (<<"}">> \o z)))
<1>0. d \in ReadBodied /\ d.body \in Seq(ReadBody) /\ d.mods = <<>>
  <2>1. d \in ReadBodied /\ d.body \in Seq(ReadFunction)
    BY ReadKinds
  <2>2. ReadFunction \subseteq ReadBody
    BY DEF ReadFunction, ReadBody, TemplateBody
  <2>3. d.body \in Seq(ReadBody)
    BY <2>1, <2>2, WiderSeq
  <2>4. d \in FunctionDefs
    BY <2>1 DEF ReadBodied, Bodied, TemplateDefs, BusDefs
  <2>5. d.mods = <<>>
    BY <2>4 DEF FunctionDefs
  <2> QED BY <2>1, <2>3, <2>5
<1>1. r \in More /\ DefCode(d) \o z = <<"function">> \o (d.mods \o r)
  <2>1. r \in More /\ DefCode(d) \o z = <<d.kind>> \o (d.mods \o r)
    BY <1>0, DefinitionCode
  <2> QED BY <2>1, Zenon
<1>2. d.mods \o r = r
  <2> HIDE DEF r
  <2> QED BY <1>0, <1>1, EmptyEnd DEF More
<1>3. r = <<d.name>> \o (HeaderRest \o (CodeOf(BodyLines(d.body)) \o (<<"}">> \o z)))
  OBVIOUS
<1> HIDE DEF r
<1>4. IsFree(y, <<"function">> \o r, o)
  BY <1>1, <1>2
<1>5. Leads(y, St(r, "expect", "function", "", <<>>, HeaderTokens, 1, o))
  BY <1>1, <1>4, StartsFunction
<1>6. Leads(y, St(r, "expect", d.kind, "", <<>>, HeaderTokens, 1, o))
  BY <1>5
<1> QED BY <1>0, <1>3, <1>6, NamedRead

\* A bus that the parser skips: nothing is found.
LEMMA BusSkipped ==
    ASSUME NEW d \in ReadBodied, d.kind = "bus", d.mods = <<>>, NEW z \in Tails, NEW y, NEW o,
           IsFree(y, DefCode(d) \o z, o), y.mode = "skip"
    PROVE  \E x : Leads(y, x) /\ IsFree(x, z, o)
<1> DEFINE e == <<"}">> \o z
           c == CodeOf(BodyLines(d.body))
           w == c \o e
           v == HeaderRest \o w
           n == <<d.name>>
           r == n \o v
<1>1. /\ e \in Tails /\ w \in More /\ v \in More /\ r \in More
      /\ DefCode(d) \o z = <<"bus">> \o (d.mods \o r)
  <2>1. /\ e \in Tails /\ w \in More /\ v \in More /\ r \in More
        /\ DefCode(d) \o z = <<d.kind>> \o (d.mods \o r)
    BY DefinitionCode
  <2> QED BY <2>1, Zenon
<1>2. z \in More /\ r \in Seq(Token)
  BY <1>1 DEF Tails, More
<1>3. d.mods \o r = r
  <2> HIDE DEF r
  <2> QED BY <1>2, EmptyEnd
<1>4. n \in Seq(FreeTokens) /\ HeaderRest \in Seq(FreeTokens) /\ <<"}">> \in Seq(FreeTokens)
  <2>1. d.name \in FreeTokens
    BY ReadParts, CalmTokens
  <2>2. "(" \in FreeTokens /\ ")" \in FreeTokens /\ "{" \in FreeTokens /\ "}" \in FreeTokens
    BY CalmTokens
  <2>3. n \in Seq(FreeTokens) /\ <<"}">> \in Seq(FreeTokens)
    BY <2>1, <2>2, Sequence1
  <2>4. HeaderRest \in Seq(FreeTokens)
    BY <2>2, Sequence3 DEF HeaderRest
  <2> QED BY <2>3, <2>4
<1>5. FreeOver(c)
  <2>1. d.body \in Seq(BodySource)
    BY ReadParts DEF BodySource
  <2> QED BY <2>1, FreeBody
<1> DEFINE y1 == Go(y, r, "skip")
<1>6. Leads(y, y1)
  <2> HIDE DEF r
  <2>1. y = Go(y, <<"bus">> \o r, "skip")
    BY <1>1, <1>3 DEF IsFree
  <2>2. "bus" \in Token
    BY Tokens0
  <2>3. Quiet("skip", "bus")
    BY DEF Quiet, Resumes
  <2>4. Leads(Go(y, <<"bus">> \o r, "skip"), Go(y, r, "skip"))
    BY <1>1, <2>2, <2>3, PassesOne
  <2> QED BY <2>1, <2>4
<1>7. IsFree(y1, r, o)
  <2>1. y.out = o
    BY DEF IsFree
  <2> HIDE DEF r
  <2> QED BY <2>1, FreeGo
<1> HIDE DEF y1
<1>8. PICK y2 : Leads(y1, y2) /\ IsFree(y2, v, o)
  <2> HIDE DEF v, n
  <2> QED BY <1>1, <1>4, <1>7, FreePasses
<1>9. PICK y3 : Leads(y2, y3) /\ IsFree(y3, w, o)
  <2> HIDE DEF w
  <2> QED BY <1>1, <1>4, <1>8, FreePasses
<1>10. PICK y4 : Leads(y3, y4) /\ IsFree(y4, e, o)
  <2> HIDE DEF e, c
  <2> QED BY <1>1, <1>5, <1>9 DEF FreeOver
<1>11. PICK y5 : Leads(y4, y5) /\ IsFree(y5, z, o)
  <2> DEFINE f == <<"}">>
  <2>1. f \in Seq(FreeTokens) /\ IsFree(y4, f \o z, o)
    BY <1>4, <1>10
  <2> HIDE DEF f
  <2> QED BY <1>2, <2>1, FreePasses
<1> HIDE DEF e, c, w, v, n, r
<1>12. Leads(y, y2) /\ Leads(y3, y5)
  BY <1>6, <1>8, <1>10, <1>11, LeadsJoined
<1>13. Leads(y, y3)
  BY <1>9, <1>12, LeadsJoined
<1>14. Leads(y, y5)
  BY <1>12, <1>13, LeadsJoined
<1> QED BY <1>11, <1>14

\* The header of a bus is read.
LEMMA BusHeader ==
    ASSUME NEW t \in Token, IsName(t), NEW w \in More, NEW o
    PROVE  Leads(Bus(<<t>> \o (HeaderRest \o w), "bus name", "", <<>>, 0, o),
                 Bus(w, "fields", t, <<>>, 1, o))
<1> DEFINE a == <<"{">> \o w
           b == <<")">> \o a
           v == <<"(">> \o b
<1>0. "(" \in Token /\ ")" \in Token /\ "{" \in Token /\ w \in Seq(Token)
  BY Tokens0 DEF More
<1>1. HeaderRest \o w = v
  <2>1. TripleOver(Token, "(", ")", "{", w)
    BY <1>0, TriplesOver
  <2> QED BY <2>1, Zenon DEF TripleOver, HeaderRest
<1>2. a \in More
  BY <1>0, OneInFront
<1>3. b \in More
  <2> HIDE DEF a
  <2> QED BY <1>0, <1>2, OneInFront
<1>4. v \in More
  <2> HIDE DEF b
  <2> QED BY <1>0, <1>3, OneInFront
<1>5. Leads(Bus(a, "bus body", t, <<>>, 0, o), Bus(w, "fields", t, <<>>, 1, o))
  BY BusEnters
<1> HIDE DEF a
<1>6. Leads(Bus(b, "parens", t, <<>>, 1, o), Bus(a, "bus body", t, <<>>, 0, o))
  BY <1>2, BusCloses
<1> HIDE DEF b
<1>7. Leads(Bus(v, "parens", t, <<>>, 0, o), Bus(b, "parens", t, <<>>, 1, o))
  BY <1>3, BusOpens
<1> HIDE DEF v
<1>8. Leads(Bus(<<t>> \o v, "bus name", "", <<>>, 0, o), Bus(v, "parens", t, <<>>, 0, o))
  BY <1>4, BusNamed
<1>9. Leads(Bus(v, "parens", t, <<>>, 0, o), Bus(w, "fields", t, <<>>, 1, o))
  BY <1>5, <1>6, <1>7, LeadsJoined
<1>10. Leads(Bus(<<t>> \o v, "bus name", "", <<>>, 0, o), Bus(w, "fields", t, <<>>, 1, o))
  BY <1>8, <1>9, LeadsJoined
<1> QED BY <1>1, <1>10

\* The end of a bus adds it.
LEMMA BusAdds ==
    ASSUME NEW d \in ReadBodied, d.kind = "bus", d.body \in Seq({"field"}), NEW o, TypedOut(o), NEW p,
           p = Out(o.templates, o.functions, Append(o.buses, Fields(d)))
    PROVE  TypedOut(p) /\ Adds(d, o, p) /\ AddsBus(d, o, p)
<1> DEFINE b == Fields(d)
<1>0. /\ ~Parsable(d, "template") /\ ~Parsable(d, "function") /\ Parsable(d, "bus")
  BY Zenon DEF Parsable, Broken
<1>1. b \in DefinedItem
  <2>1. d.name \in Names
    BY ReadParts
  <2>2. [j \in DOMAIN d.body |-> "x"] \in Seq(Token)
    <3>1. "x" \in Token
      BY Tokens0
    <3>2. DOMAIN d.body = 1 .. Len(d.body) /\ Len(d.body) \in Nat
      OBVIOUS
    <3> QED BY <3>1, <3>2
  <2> QED BY <2>1, <2>2 DEF Fields, DefinedItem
<1>2. o.templates \in Seq(DefinedItem) /\ o.functions \in Seq(Names) /\ o.buses \in Seq(DefinedItem)
  BY DEF TypedOut
<1> HIDE DEF b
<1>3. Append(o.buses, b) = o.buses \o <<b>> /\ Append(o.buses, b) \in Seq(DefinedItem)
  BY <1>1, <1>2, AppendOne, AppendProperties
<1>4. o.templates \o <<>> = o.templates /\ o.functions \o <<>> = o.functions
  BY <1>2, EmptyEnd
<1>5. /\ Where(Parsable(d, "template"), Members(d)) = <<>> /\ Where(Parsable(d, "function"), d.name) = <<>>
      /\ Where(Parsable(d, "bus"), Fields(d)) = <<Fields(d)>>
  BY <1>0, Zenon DEF Where
<1>6. p = Out(o.templates, o.functions, Append(o.buses, b))
  BY DEF b
<1>7. p.templates = o.templates /\ p.functions = o.functions /\ p.buses = Append(o.buses, b) /\ Outed(p)
  <2>1. p.templates = o.templates /\ p.functions = o.functions /\ p.buses = Append(o.buses, b)
    BY <1>6 DEF Out
  <2> QED BY <1>6, <2>1 DEF Outed
<1>8. Adds(d, o, p)
  BY <1>4, <1>5, <1>7, Zenon DEF Adds
<1>9. AddsBus(d, o, p)
  BY <1>3, <1>5, <1>7, Zenon DEF AddsBus, b
<1>10. TypedOut(p)
  BY <1>2, <1>3, <1>7, Zenon DEF TypedOut
<1> QED BY <1>8, <1>9, <1>10

\* A bus in the top mode is found with its fields.
LEMMA BusFound ==
    ASSUME NEW d \in ReadBodied, d.kind = "bus", d.mods = <<>>, d.body \in Seq({"field"}),
           NEW z \in Tails, NEW y, NEW o, IsFree(y, DefCode(d) \o z, o), TypedOut(o), y.mode = "top"
    PROVE  Passes(d, y, z, o)
<1> DEFINE t == d.name
           e == <<"}">> \o z
           c == CodeOf(BodyLines(d.body))
           w == c \o e
           v == HeaderRest \o w
           r == <<t>> \o v
           ins == [j \in DOMAIN d.body |-> "x"]
<1>1. /\ e \in Tails /\ w \in More /\ v \in More /\ r \in More
      /\ DefCode(d) \o z = <<"bus">> \o (d.mods \o r)
  <2>1. /\ e \in Tails /\ w \in More /\ v \in More /\ r \in More
        /\ DefCode(d) \o z = <<d.kind>> \o (d.mods \o r)
    BY DefinitionCode
  <2> QED BY <2>1, Zenon
<1>2. t \in Token /\ IsName(t) /\ z \in More
  <2>1. t \in Names
    BY ReadParts
  <2> QED BY <2>1, CalmTokens, Tokens0 DEF Tails
<1>3. d.mods \o r = r
  <2> HIDE DEF r
  <2> QED BY <1>1, EmptyEnd DEF More
<1> DEFINE x1 == Bus(r, "bus name", "", <<>>, 0, o)
           x2 == Bus(w, "fields", t, <<>>, 1, o)
           x3 == Bus(e, "fields", t, ins, 1, o)
           p == Out(o.templates, o.functions, Append(o.buses, [name |-> t, members |-> ins]))
           x4 == Bus(z, "top", t, ins, 1, p)
<1>4. Leads(y, x1)
  <2> HIDE DEF r
  <2>1. IsFree(y, <<"bus">> \o r, o)
    BY <1>1, <1>3
  <2> QED BY <1>1, <2>1, StartsBus
<1>5. Leads(x1, x2)
  <2> HIDE DEF w, t
  <2> QED BY <1>1, <1>2, BusHeader
<1>6. Leads(x2, x3)
  <2>1. BusOver(c, ins)
    BY BusBodyOver
  <2> HIDE DEF c, e, t, ins
  <2> QED BY <1>1, <2>1 DEF BusOver
<1>7. Leads(x3, x4)
  <2> HIDE DEF t, ins
  <2> QED BY <1>2, BusEnds
<1>8. x4.mode = "top" /\ IsFree(x4, z, p)
  <2> HIDE DEF p, ins
  <2> QED BY DEF IsFree, Go, Bus, St
<1>9. TypedOut(p) /\ Adds(d, o, p) /\ AddsBus(d, o, p)
  <2>1. Fields(d) = [name |-> t, members |-> ins]
    BY DEF Fields
  <2>2. p = Out(o.templates, o.functions, Append(o.buses, Fields(d)))
    BY <2>1
  <2> HIDE DEF p
  <2> QED BY <2>2, BusAdds
<1> HIDE DEF x1, x2, x3, x4, p
<1>10. Leads(y, x2) /\ Leads(x2, x4)
  BY <1>4, <1>5, <1>6, <1>7, LeadsJoined
<1>11. Leads(y, x4)
  BY <1>10, LeadsJoined
<1> QED BY <1>8, <1>9, <1>11, Zenon DEF Passes

\* A bus is added, or passed over in a skip.
LEMMA BusRead ==
    ASSUME NEW d \in ReadDefinitions, d.kind = "bus", NEW z \in Tails, NEW y, NEW o,
           IsFree(y, DefCode(d) \o z, o), TypedOut(o)
    PROVE  Passes(d, y, z, o)
<1>0. d \in ReadBodied /\ d.body \in Seq({"field"}) /\ d.mods = <<>>
  <2>1. d \in ReadBodied /\ d.body \in Seq({"field"})
    BY ReadKinds
  <2>2. d \in BusDefs
    BY <2>1 DEF ReadBodied, Bodied, TemplateDefs, FunctionDefs
  <2>3. d.mods = <<>>
    BY <2>2 DEF BusDefs
  <2> QED BY <2>1, <2>3
<1>1. CASE y.mode = "top"
  BY <1>0, <1>1, BusFound
<1>2. CASE y.mode # "top"
  <2>1. y.mode = "skip"
    BY <1>2 DEF IsFree
  <2>2. PICK x : Leads(y, x) /\ IsFree(x, z, o)
    BY <1>0, <2>1, BusSkipped
  <2>3. Adds(d, o, o)
    <3>1. ~Parsable(d, "template") /\ ~Parsable(d, "function")
      BY DEF Parsable
    <3> QED BY <3>1, AddsNothing
  <2> QED BY <1>2, <2>2, <2>3 DEF Passes
<1> QED BY <1>1, <1>2

\* Where the parser is in no definition, it reads the next one: it finds what the
\* source says, and in the top mode the bus.
LEMMA DefinitionRead ==
    ASSUME NEW d \in ReadDefinitions, NEW z \in Tails, NEW y, NEW o,
           IsFree(y, DefCode(d) \o z, o), TypedOut(o)
    PROVE  Passes(d, y, z, o)
<1>1. d.kind \in {"template", "function", "bus", "main", "public", "quoted"}
  BY ReadKinds
<1>2. CASE d.kind \in {"main", "public"}
  BY <1>2, MainRead
<1>3. CASE d.kind = "quoted"
  BY <1>3, QuotedRead
<1>4. CASE d.kind = "template"
  BY <1>4, TemplateRead
<1>5. CASE d.kind = "function"
  BY <1>5, FunctionRead
<1>6. CASE d.kind = "bus"
  BY <1>6, BusRead
<1> QED BY <1>1, <1>2, <1>3, <1>4, <1>5, <1>6

---------------------------------------------------------------------------
\* A whole source.

\* No definition starts with a parenthesis.
LEMMA DefTail ==
    ASSUME NEW d \in ReadDefinitions, NEW z \in Tails
    PROVE  DefCode(d) \o z \in Tails /\ DefCode(d) \in Seq(Token)
<1>0. z \in More /\ z \in Seq(Token) /\ d.name \in Token
  <2>1. d.name \in Names
    BY ReadKinds
  <2> QED BY <2>1, Tokens0 DEF Tails, More
<1>1. CASE d.kind \in {"main", "public"}
  <2>1. PICK name \in Seq(Token) : DefCode(d) = Instance(name, d.name)
    <3>1. <<"main">> \in Seq(Token) /\ <<"main", "{", "}">> \in Seq(Token)
      <4>1. "main" \in Token /\ "{" \in Token /\ "}" \in Token
        BY Tokens0
      <4> QED BY <4>1, Sequence1, Sequence3
    <3> QED BY <1>1, <3>1 DEF DefCode
  <2>2. Instance(name, d.name) \in Seq(Token)
    BY <1>0, InstanceIsGood DEF GoodText
  <2> DEFINE a == name \o <<"=", d.name, "(", ")">>
             f == <<";">> \o z
             v == a \o f
  <2>3. a \in Seq(Token) /\ Instance(name, d.name) \o z = <<"component">> \o v
    BY <1>0, InstanceOver
  <2>4. "component" \in Token /\ ";" \in Token /\ "component" # "("
    BY Tokens0
  <2>5. f \in More
    BY <1>0, <2>4, OneInFront
  <2> HIDE DEF a, f
  <2>6. v \in More
    BY <2>3, <2>5, AnyInFront
  <2> HIDE DEF v
  <2>7. <<"component">> \o v \in More /\ Head(<<"component">> \o v) = "component"
    BY <2>4, <2>6, OneInFront
  <2> QED BY <2>1, <2>2, <2>3, <2>4, <2>7 DEF Tails
<1>2. CASE d.kind = "quoted"
  <2>1. DefCode(d) = <<>>
    BY <1>2 DEF DefCode
  <2>2. <<>> \o z = z
    BY <1>0, EmptyEnd
  <2> QED BY <2>1, <2>2
<1>3. CASE d.kind \in {"template", "function", "bus"}
  <2>0. d \in ReadBodied
    BY <1>3, ReadKinds
  <2>1. DefCode(d) \in Seq(Token)
    <3> DEFINE h == Header(d)
               c == CodeOf(Body(d))
               f == <<"}">>
    <3>1. h \in Seq(Token) /\ c \in Seq(Token) /\ f \in Seq(Token)
      BY <2>0, DefinitionParts
    <3>2. DefCode(d) = (h \o c) \o f
      BY <1>3 DEF DefCode
    <3> HIDE DEF h, c, f
    <3> QED BY <3>1, <3>2
  <2> DEFINE e == <<"}">> \o z
             w == CodeOf(BodyLines(d.body)) \o e
             r == <<d.name>> \o (HeaderRest \o w)
             v == d.mods \o r
  <2>2. v \in More /\ DefCode(d) \o z = <<d.kind>> \o v
    BY <2>0, DefinitionCode
  <2> HIDE DEF v
  <2>3. d.kind \in Token /\ d.kind # "("
    BY <1>3, Tokens0
  <2>4. <<d.kind>> \o v \in More /\ Head(<<d.kind>> \o v) = d.kind
    BY <2>2, <2>3, OneInFront
  <2> QED BY <2>1, <2>2, <2>3, <2>4 DEF Tails
<1> QED BY <1>1, <1>2, <1>3, ReadKinds

\* The lines of a source hold the code of its definitions, one behind the other.
LEMMA CodeSteps ==
    ASSUME NEW s \in ReadSources
    PROVE  \E c : /\ c[0] = <<>>
                  /\ \A m \in 1 .. Len(s) : c[m] = c[m - 1] \o DefCode(s[m])
                  /\ \A m \in 0 .. Len(s) : c[m] \in Seq(Token)
                  /\ CodeOf(Lines(s)) = c[Len(s)]
<1>0. /\ s \in Seq(ReadDefinitions) /\ Len(s) \in Nat
      /\ \A i \in 1 .. Len(s) : Glued(s[i]) => i > 1 /\ s[i - 1].kind # "quoted"
  BY ReadSource
<1>1. PICK f : /\ f[0] = <<>>
               /\ \A n \in 1 .. Len(s) : f[n] = AddLines(f[n - 1], s[n])
               /\ Lines(s) = f[Len(s)]
  <2>1. s \in Seq(Definitions)
    BY SourcesAssumption DEF ReadSources
  <2> QED BY <2>1, LinesSteps
<1> DEFINE Good(n) == f[n] \in Seq(ReadLine) /\ (n > 0 /\ s[n].kind # "quoted" => EndsOpen(f[n]))
           S == {n \in Nat : n <= Len(s) => Good(n)}
<1>2. 0 \in S
  <2>1. <<>> \in Seq(ReadLine)
    OBVIOUS
  <2>2. Good(0)
    BY <1>1, <2>1
  <2> HIDE DEF Good
  <2> QED BY <2>2
<1>3. ASSUME NEW n \in 1 .. Len(s), f[n - 1] \in Seq(ReadLine),
             n - 1 > 0 /\ s[n - 1].kind # "quoted" => EndsOpen(f[n - 1])
      PROVE  /\ f[n] \in Seq(ReadLine) /\ (s[n].kind # "quoted" => EndsOpen(f[n]))
             /\ CodeOf(f[n]) = CodeOf(f[n - 1]) \o DefCode(s[n])
  <2> DEFINE d == s[n]
             ls == f[n - 1]
  <2>1. d \in ReadDefinitions
    BY <1>0
  <2>2. f[n] = AddLines(ls, d)
    BY <1>1
  <2>3. Glued(d) => EndsOpen(ls)
    <3>1. n > 1 <=> n - 1 > 0
      OBVIOUS
    <3> QED BY <1>0, <1>3, <3>1
  <2>4. ls \in Seq(ReadLine)
    BY <1>3
  <2> HIDE DEF d, ls
  <2>5. AddLines(ls, d) \in Seq(ReadLine)
    <3>1. d \in Definitions /\ NoComment(d)
      BY <2>1, ReadKinds, ReadParts DEF ReadDefinitions, NoComment
    <3> QED BY <2>3, <2>4, <3>1, AddLinesIsGood DEF EndsOpen
  <2>6. /\ CodeOf(AddLines(ls, d)) = CodeOf(ls) \o DefCode(d)
        /\ d.kind # "quoted" => EndsOpen(AddLines(ls, d))
    BY <2>1, <2>3, <2>4, AddedCode
  <2>7. f[n] \in Seq(ReadLine) /\ (d.kind # "quoted" => EndsOpen(f[n])) /\ CodeOf(f[n]) = CodeOf(ls) \o DefCode(d)
    BY <2>2, <2>5, <2>6
  <2> QED BY <2>7 DEF d, ls
<1>4. ASSUME NEW n \in Nat, n \in S PROVE n + 1 \in S
  <2>1. CASE n + 1 <= Len(s)
    <3>1. n + 1 \in 1 .. Len(s) /\ (n + 1) - 1 = n /\ n <= Len(s) /\ n + 1 > 0
      BY <1>0, <2>1
    <3>2. Good(n)
      <4> HIDE DEF Good
      <4> QED BY <1>4, <3>1
    <3>3. f[n] \in Seq(ReadLine) /\ (n > 0 /\ s[n].kind # "quoted" => EndsOpen(f[n]))
      BY <3>2
    <3>4. f[n + 1] \in Seq(ReadLine) /\ (s[n + 1].kind # "quoted" => EndsOpen(f[n + 1]))
      BY <1>3, <3>1, <3>3
    <3>5. Good(n + 1)
      BY <3>4
    <3> HIDE DEF Good
    <3> QED BY <3>5
  <2>2. CASE ~(n + 1 <= Len(s))
    <3> HIDE DEF Good
    <3> QED BY <2>2
  <2> QED BY <2>1, <2>2, Zenon
<1> HIDE DEF S
<1>5. \A n \in Nat : n \in S
  BY <1>2, <1>4, Induction
<1>6. ASSUME NEW n \in 0 .. Len(s)
      PROVE  f[n] \in Seq(ReadLine) /\ (n > 0 /\ s[n].kind # "quoted" => EndsOpen(f[n]))
  <2>1. n \in Nat /\ n <= Len(s) /\ n \in S
    BY <1>0, <1>5
  <2>2. Good(n)
    <3> HIDE DEF Good
    <3> QED BY <2>1 DEF S
  <2> QED BY <2>2
<1> DEFINE c == [m \in 0 .. Len(s) |-> CodeOf(f[m])]
<1>7. c[0] = <<>> /\ CodeOf(Lines(s)) = c[Len(s)]
  BY <1>0, <1>1, CodeOfNone
<1>8. ASSUME NEW m \in 0 .. Len(s) PROVE c[m] \in Seq(Token)
  <2>1. CodeOf(f[m]) \in Seq(Token)
    BY <1>6, CodeJoined
  <2> QED BY <2>1
<1>9. ASSUME NEW m \in 1 .. Len(s) PROVE c[m] = c[m - 1] \o DefCode(s[m])
  <2>1. m - 1 \in 0 .. Len(s) /\ m \in 0 .. Len(s)
    BY <1>0
  <2>2. f[m - 1] \in Seq(ReadLine) /\ (m - 1 > 0 /\ s[m - 1].kind # "quoted" => EndsOpen(f[m - 1]))
    BY <1>6, <2>1
  <2>3. CodeOf(f[m]) = CodeOf(f[m - 1]) \o DefCode(s[m])
    BY <1>3, <2>2
  <2> QED BY <2>1, <2>3
<1> HIDE DEF c
<1> QED BY <1>7, <1>8, <1>9

AtFirst(r) == St(r, "top", "", "", <<>>, <<>>, 0, Out(<<>>, <<>>, <<>>))

\* The code c is read from the start on: t, g and b are found, the buses b only if no
\* definition of it is broken.
ReadsTo(c, t, g, b, clean) ==
    \A z \in Tails : \E y, o :
        /\ Leads(AtFirst(c \o z), y) /\ IsFree(y, z, o) /\ TypedOut(o)
        /\ o.templates = t /\ o.functions = g
        /\ clean => y.mode = "top" /\ o.buses = b

\* No code has been read.
LEMMA ReadsNothing == ReadsTo(<<>>, <<>>, <<>>, <<>>, TRUE)
<1> SUFFICES ASSUME NEW z \in Tails
             PROVE  \E y, o : /\ Leads(AtFirst(<<>> \o z), y) /\ IsFree(y, z, o) /\ TypedOut(o)
                              /\ o.templates = <<>> /\ o.functions = <<>>
                              /\ y.mode = "top" /\ o.buses = <<>>
  BY Zenon DEF ReadsTo
<1> DEFINE o == Out(<<>>, <<>>, <<>>)
           y == AtFirst(z)
<1>1. <<>> \o z = z
  BY EmptyEnd DEF Tails, More
<1>2. Leads(AtFirst(<<>> \o z), y)
  BY <1>1, LeadsHere
<1>3. o.templates = <<>> /\ o.functions = <<>> /\ o.buses = <<>>
  BY DEF Out
<1>4. TypedOut(o)
  <2>1. Outed(o)
    BY <1>3 DEF Outed
  <2>2. <<>> \in Seq(DefinedItem) /\ <<>> \in Seq(Names)
    OBVIOUS
  <2> HIDE DEF o
  <2> QED BY <1>3, <2>1, <2>2 DEF TypedOut
<1>5. y.mode = "top" /\ IsFree(y, z, o)
  BY DEF AtFirst, IsFree, Go, St
<1> HIDE DEF y, o
<1> QED BY <1>2, <1>3, <1>4, <1>5

\* The code of one definition more has been read.
LEMMA ReadsMore ==
    ASSUME NEW c \in Seq(Token), NEW t, NEW g, NEW b, NEW clean \in BOOLEAN, NEW d \in ReadDefinitions,
           ReadsTo(c, t, g, b, clean)
    PROVE  ReadsTo(c \o DefCode(d),
                   t \o Where(Parsable(d, "template"), Members(d)),
                   g \o Where(Parsable(d, "function"), d.name),
                   b \o Where(Parsable(d, "bus"), Fields(d)), clean /\ ~Broken(d))
<1> DEFINE k == DefCode(d)
           t1 == t \o Where(Parsable(d, "template"), Members(d))
           g1 == g \o Where(Parsable(d, "function"), d.name)
           b1 == b \o Where(Parsable(d, "bus"), Fields(d))
<1> SUFFICES ASSUME NEW z \in Tails
             PROVE  \E y, o : /\ Leads(AtFirst((c \o k) \o z), y) /\ IsFree(y, z, o) /\ TypedOut(o)
                              /\ o.templates = t1 /\ o.functions = g1
                              /\ clean /\ ~Broken(d) => y.mode = "top" /\ o.buses = b1
  BY Zenon DEF ReadsTo
<1> DEFINE v == k \o z
<1>1. v \in Tails /\ k \in Seq(Token) /\ z \in Seq(Token)
  BY DefTail DEF Tails, More
<1>2. (c \o k) \o z = c \o v
  <2> HIDE DEF k
  <2>1. Groups(Token, c, k, z)
    BY <1>1, Grouped
  <2> QED BY <2>1, Zenon DEF Groups
<1>3. PICK y, o : /\ Leads(AtFirst(c \o v), y) /\ IsFree(y, v, o) /\ TypedOut(o)
                  /\ o.templates = t /\ o.functions = g
                  /\ clean => y.mode = "top" /\ o.buses = b
  <2> HIDE DEF v
  <2> QED BY <1>1, Zenon DEF ReadsTo
<1>4. Passes(d, y, z, o)
  BY <1>3, DefinitionRead
<1>5. PICK x, p : /\ Leads(y, x) /\ IsFree(x, z, p) /\ TypedOut(p) /\ Adds(d, o, p)
                  /\ y.mode = "top" /\ ~Broken(d) => x.mode = "top" /\ AddsBus(d, o, p)
  BY <1>4, Zenon DEF Passes
<1>6. p.templates = t1 /\ p.functions = g1
  BY <1>3, <1>5, Zenon DEF Adds
<1>7. clean /\ ~Broken(d) => x.mode = "top" /\ p.buses = b1
  BY <1>3, <1>5, Zenon DEF AddsBus
<1> HIDE DEF k, v, t1, g1, b1
<1>8. Leads(AtFirst((c \o k) \o z), x)
  BY <1>2, <1>3, <1>5, LeadsJoined
<1> QED BY <1>5, <1>6, <1>7, <1>8

---------------------------------------------------------------------------
\* What a source says, definition by definition.

TemplatesIn(s) == [i \in DOMAIN s |-> Where(Parsable(s[i], "template"), Members(s[i]))]
FunctionsIn(s) == [i \in DOMAIN s |-> Where(Parsable(s[i], "function"), s[i].name)]
BusesIn(s) == [i \in DOMAIN s |-> Where(Parsable(s[i], "bus"), Fields(s[i]))]

Says(s, o) ==
    /\ o.templates = FlattenSeq(TemplatesIn(s))
    /\ o.functions = FlattenSeq(FunctionsIn(s))
    /\ (\A i \in DOMAIN s : ~Broken(s[i])) => o.buses = FlattenSeq(BusesIn(s))

\* What one definition says is a list of items.
LEMMA ItemsTyped ==
    ASSUME NEW d \in ReadDefinitions
    PROVE  /\ Where(Parsable(d, "template"), Members(d)) \in Seq(DefinedItem)
           /\ Where(Parsable(d, "function"), d.name) \in Seq(Names)
           /\ Where(Parsable(d, "bus"), Fields(d)) \in Seq(DefinedItem)
           /\ Broken(d) \in BOOLEAN
<1>1. d.name \in Names /\ (d.kind = "template" => d.body \in Seq(ReadBody))
      /\ (d.kind = "bus" => d.body \in Seq({"field"}))
  BY ReadKinds
<1>2. Parsable(d, "template") => Members(d) \in DefinedItem
  <2>1. SUFFICES ASSUME Parsable(d, "template") PROVE Members(d) \in DefinedItem
    OBVIOUS
  <2>2. d.body \in Seq(ReadBody)
    BY <1>1, <2>1 DEF Parsable
  <2>3. Inputs(d) \in Seq(Token)
    BY <2>2, InputsAre
  <2> QED BY <1>1, <2>3 DEF Members, DefinedItem
<1>3. Parsable(d, "bus") => Fields(d) \in DefinedItem
  <2>1. SUFFICES ASSUME Parsable(d, "bus") PROVE Fields(d) \in DefinedItem
    OBVIOUS
  <2>2. d.body \in Seq({"field"})
    BY <1>1, <2>1 DEF Parsable
  <2>3. [j \in DOMAIN d.body |-> "x"] \in Seq(Token)
    <3>1. "x" \in Token
      BY Tokens0
    <3>2. DOMAIN d.body = 1 .. Len(d.body) /\ Len(d.body) \in Nat
      BY <2>2
    <3> QED BY <3>1, <3>2
  <2> QED BY <1>1, <2>3 DEF Fields, DefinedItem
<1>4. /\ Parsable(d, "template") \in BOOLEAN /\ Parsable(d, "function") \in BOOLEAN
      /\ Parsable(d, "bus") \in BOOLEAN /\ Broken(d) \in BOOLEAN
  BY Zenon DEF Parsable, Broken
<1> QED BY <1>1, <1>2, <1>3, <1>4, WhereType

\* The lists of a source, put together definition by definition.
Stacked(T, ss, N) ==
    \E f : /\ f[0] = <<>>
           /\ \A n \in 1 .. N : f[n] = f[n - 1] \o ss[n]
           /\ FlattenSeq(ss) = f[N]

\* Such a list grows with every definition.
LEMMA ItemSteps ==
    ASSUME NEW T, NEW N \in Nat, NEW ss, DOMAIN ss = 1 .. N, ss = [i \in 1 .. N |-> ss[i]],
           \A i \in 1 .. N : ss[i] \in Seq(T)
    PROVE  Stacked(T, ss, N)
<1> DEFINE V == Seq(T)
<1>1. \A i \in 1 .. N : ss[i] \in V
  OBVIOUS
<1> HIDE DEF V
<1>2. ss \in Seq(V) /\ Len(ss) = N
  BY <1>1
<1>3. ss \in Seq(Seq(T))
  BY <1>2 DEF V
<1>4. PICK f : /\ f[0] = <<>>
               /\ \A n \in 1 .. Len(ss) : f[n] = f[n - 1] \o ss[n]
               /\ FlattenSeq(ss) = f[Len(ss)]
  BY <1>3, FlattenTyped
<1> QED BY <1>2, <1>4 DEF Stacked

\* The parser reads the whole source.
LEMMA SourceReads ==
    ASSUME NEW s \in ReadSources
    PROVE  \E t, g, b : /\ ReadsTo(CodeOf(Lines(s)), t, g, b, \A i \in DOMAIN s : ~Broken(s[i]))
                        /\ t = FlattenSeq(TemplatesIn(s)) /\ g = FlattenSeq(FunctionsIn(s))
                        /\ b = FlattenSeq(BusesIn(s))
<1> DEFINE N == Len(s)
<1>0. /\ s \in Seq(ReadDefinitions) /\ N \in Nat /\ DOMAIN s = 1 .. N
      /\ \A i \in 1 .. N : s[i] \in ReadDefinitions
  BY ReadSource
<1>1. PICK c : /\ c[0] = <<>>
               /\ \A m \in 1 .. N : c[m] = c[m - 1] \o DefCode(s[m])
               /\ \A m \in 0 .. N : c[m] \in Seq(Token)
               /\ CodeOf(Lines(s)) = c[N]
  BY CodeSteps
<1> HIDE DEF N
<1>2. PICK t : /\ t[0] = <<>>
               /\ \A n \in 1 .. N : t[n] = t[n - 1] \o Where(Parsable(s[n], "template"), Members(s[n]))
               /\ FlattenSeq(TemplatesIn(s)) = t[N]
  <2> DEFINE ss == TemplatesIn(s)
  <2>1. DOMAIN ss = 1 .. N /\ \A i \in 1 .. N : ss[i] = Where(Parsable(s[i], "template"), Members(s[i]))
    BY <1>0 DEF TemplatesIn
  <2>2. ss = [i \in 1 .. N |-> ss[i]]
    BY <1>0 DEF TemplatesIn
  <2>3. \A i \in 1 .. N : ss[i] \in Seq(DefinedItem)
    BY <1>0, <2>1, ItemsTyped
  <2> HIDE DEF ss
  <2>4. Stacked(DefinedItem, ss, N)
    BY <1>0, <2>1, <2>2, <2>3, ItemSteps
  <2>5. PICK f : /\ f[0] = <<>>
                 /\ \A n \in 1 .. N : f[n] = f[n - 1] \o ss[n]
                 /\ FlattenSeq(ss) = f[N]
    BY <2>4, Zenon DEF Stacked
  <2> QED BY <2>1, <2>5, Zenon DEF ss
<1>3. PICK g : /\ g[0] = <<>>
               /\ \A n \in 1 .. N : g[n] = g[n - 1] \o Where(Parsable(s[n], "function"), s[n].name)
               /\ FlattenSeq(FunctionsIn(s)) = g[N]
  <2> DEFINE ss == FunctionsIn(s)
  <2>1. DOMAIN ss = 1 .. N /\ \A i \in 1 .. N : ss[i] = Where(Parsable(s[i], "function"), s[i].name)
    BY <1>0 DEF FunctionsIn
  <2>2. ss = [i \in 1 .. N |-> ss[i]]
    BY <1>0 DEF FunctionsIn
  <2>3. \A i \in 1 .. N : ss[i] \in Seq(Names)
    BY <1>0, <2>1, ItemsTyped
  <2> HIDE DEF ss
  <2>4. Stacked(Names, ss, N)
    BY <1>0, <2>1, <2>2, <2>3, ItemSteps
  <2>5. PICK f : /\ f[0] = <<>>
                 /\ \A n \in 1 .. N : f[n] = f[n - 1] \o ss[n]
                 /\ FlattenSeq(ss) = f[N]
    BY <2>4, Zenon DEF Stacked
  <2> QED BY <2>1, <2>5, Zenon DEF ss
<1>4. PICK b : /\ b[0] = <<>>
               /\ \A n \in 1 .. N : b[n] = b[n - 1] \o Where(Parsable(s[n], "bus"), Fields(s[n]))
               /\ FlattenSeq(BusesIn(s)) = b[N]
  <2> DEFINE ss == BusesIn(s)
  <2>1. DOMAIN ss = 1 .. N /\ \A i \in 1 .. N : ss[i] = Where(Parsable(s[i], "bus"), Fields(s[i]))
    BY <1>0 DEF BusesIn
  <2>2. ss = [i \in 1 .. N |-> ss[i]]
    BY <1>0 DEF BusesIn
  <2>3. \A i \in 1 .. N : ss[i] \in Seq(DefinedItem)
    BY <1>0, <2>1, ItemsTyped
  <2> HIDE DEF ss
  <2>4. Stacked(DefinedItem, ss, N)
    BY <1>0, <2>1, <2>2, <2>3, ItemSteps
  <2>5. PICK f : /\ f[0] = <<>>
                 /\ \A n \in 1 .. N : f[n] = f[n - 1] \o ss[n]
                 /\ FlattenSeq(ss) = f[N]
    BY <2>4, Zenon DEF Stacked
  <2> QED BY <2>1, <2>5, Zenon DEF ss
<1> DEFINE Clean(n) == \A i \in 1 .. n : ~Broken(s[i])
           Good(n) == ReadsTo(c[n], t[n], g[n], b[n], Clean(n))
           S == {n \in Nat : n <= N => Good(n)}
<1>5. 0 \in S
  <2>1. Clean(0) = TRUE
    OBVIOUS
  <2>2. Good(0)
    BY <1>1, <1>2, <1>3, <1>4, <2>1, ReadsNothing, Zenon
  <2> HIDE DEF Good
  <2> QED BY <2>2
<1>6. ASSUME NEW n \in Nat, n \in S PROVE n + 1 \in S
  <2>1. CASE n + 1 <= N
    <3> DEFINE m == n + 1
               d == s[m]
               c0 == c[n]
               t0 == t[n]
               g0 == g[n]
               b0 == b[n]
               e0 == Clean(n)
    <3>1. m \in 1 .. N /\ m - 1 = n /\ n <= N /\ n \in 0 .. N
      BY <1>0, <2>1
    <3>2. Good(n)
      <4> HIDE DEF Good
      <4> QED BY <1>6, <3>1
    <3>3. d \in ReadDefinitions /\ c0 \in Seq(Token) /\ e0 \in BOOLEAN
      BY <1>0, <1>1, <3>1
    <3>4. /\ c[m] = c0 \o DefCode(d)
          /\ t[m] = t0 \o Where(Parsable(d, "template"), Members(d))
          /\ g[m] = g0 \o Where(Parsable(d, "function"), d.name)
          /\ b[m] = b0 \o Where(Parsable(d, "bus"), Fields(d))
      <4> HIDE DEF m
      <4>1. /\ c[m] = c[m - 1] \o DefCode(s[m])
            /\ t[m] = t[m - 1] \o Where(Parsable(s[m], "template"), Members(s[m]))
            /\ g[m] = g[m - 1] \o Where(Parsable(s[m], "function"), s[m].name)
            /\ b[m] = b[m - 1] \o Where(Parsable(s[m], "bus"), Fields(s[m]))
        BY <1>1, <1>2, <1>3, <1>4, <3>1, Zenon
      <4> QED BY <3>1, <4>1, Zenon
    <3>5. Clean(m) <=> e0 /\ ~Broken(d)
      <4>1. 1 .. m = (1 .. n) \cup {m}
        BY <1>6
      <4> HIDE DEF m
      <4> QED BY <4>1
    <3>6. ReadsTo(c0, t0, g0, b0, e0)
      BY <3>2
    <3> HIDE DEF d, c0, t0, g0, b0, e0, m
    <3>7. ReadsTo(c0 \o DefCode(d),
                  t0 \o Where(Parsable(d, "template"), Members(d)),
                  g0 \o Where(Parsable(d, "function"), d.name),
                  b0 \o Where(Parsable(d, "bus"), Fields(d)), e0 /\ ~Broken(d))
      BY <3>3, <3>6, ReadsMore
    <3>8. ReadsTo(c[m], t[m], g[m], b[m], e0 /\ ~Broken(d))
      BY <3>4, <3>7, Zenon
    <3>9. ReadsTo(c[m], t[m], g[m], b[m], Clean(m))
      <4> HIDE DEF Clean
      <4> QED BY <3>5, <3>8, Zenon DEF ReadsTo
    <3>10. Good(m)
      BY <3>9
    <3> HIDE DEF Good
    <3> QED BY <3>10 DEF m
  <2>2. CASE ~(n + 1 <= N)
    <3> HIDE DEF Good
    <3> QED BY <2>2
  <2> QED BY <2>1, <2>2, Zenon
<1> HIDE DEF S
<1>7. \A n \in Nat : n \in S
  BY <1>5, <1>6, Induction
<1>8. Good(N)
  <2> HIDE DEF Good
  <2>1. N \in S /\ N <= N
    BY <1>0, <1>7
  <2> QED BY <1>0, <2>1 DEF S
<1>9. ReadsTo(CodeOf(Lines(s)), t[N], g[N], b[N], \A i \in DOMAIN s : ~Broken(s[i]))
  BY <1>0, <1>1, <1>8, Zenon
<1> QED BY <1>2, <1>3, <1>4, <1>9, Zenon

\* From the start the parser gets to the end of the stream, and what it has found
\* then is what the source says.
LEMMA StreamReads ==
    ASSUME NEW s \in ReadSources
    PROVE  \E y : Leads(AtFirst(Tokens(Lines(s))), y) /\ AtEnd(y) /\ Says(s, y.out)
<1> DEFINE c == CodeOf(Lines(s))
           z == <<"eof">>
           clean == \A i \in DOMAIN s : ~Broken(s[i])
<1>1. Tokens(Lines(s)) = c \o z
  BY ReadSource
<1>2. z \in Tails /\ Head(z) = "eof"
  <2>1. "eof" \in Token /\ "eof" # "("
    BY Tokens0
  <2>2. z \in Seq(Token) /\ z # <<>> /\ Head(z) = "eof"
    BY <2>1
  <2> HIDE DEF z
  <2> QED BY <2>1, <2>2 DEF Tails, More
<1>3. PICK t, g, b : /\ ReadsTo(c, t, g, b, clean)
                     /\ t = FlattenSeq(TemplatesIn(s)) /\ g = FlattenSeq(FunctionsIn(s))
                     /\ b = FlattenSeq(BusesIn(s))
  BY SourceReads
<1> HIDE DEF c, z, clean
<1>4. PICK y, o : /\ Leads(AtFirst(c \o z), y) /\ IsFree(y, z, o)
                  /\ o.templates = t /\ o.functions = g /\ (clean => o.buses = b)
  BY <1>2, <1>3, Zenon DEF ReadsTo
<1>5. Says(s, o)
  BY <1>3, <1>4, Zenon DEF Says, clean
<1>6. Resumes(Head(z))
  BY <1>2 DEF Resumes
<1>7. Leads(y, Go(y, z, "top"))
  BY <1>4, <1>6, FreeResumes
<1> DEFINE x == Go(y, z, "top")
<1>8. x.mode = "top" /\ x.rest = z /\ x.out = o
  BY <1>4 DEF Go, St, IsFree
<1> HIDE DEF x
<1>9. AtEnd(x)
  BY <1>2, <1>8, Zenon DEF AtEnd
<1>10. Leads(AtFirst(c \o z), x)
  BY <1>4, <1>7, LeadsJoined DEF x
<1> QED BY <1>1, <1>5, <1>8, <1>9, <1>10, Zenon

---------------------------------------------------------------------------
\* The invariant: from where the parser is it gets to the end of the stream, and what
\* it has found then is what the source says.

Reaches(x, s) == \E y : Leads(x, y) /\ AtEnd(y) /\ Says(s, y.out)

ParserInv ==
    /\ Shaped(parser) /\ Outed(parsed)
    /\ source \in ReadSources =>
          /\ stage # "done" => Reaches(Now, source)
          /\ stage = "done" => Says(source, parsed)

\* The invariant holds at the start: the whole stream is ahead of the parser.
LEMMA ParserInit == Init => ParserInv
<1> SUFFICES ASSUME Init PROVE ParserInv
  OBVIOUS
<1>1. /\ source \in Sources /\ lines = Lines(source) /\ parser = Start /\ stage # "done"
      /\ parsed = Out(<<>>, <<>>, <<>>)
  BY DEF Init, Out
<1>2. parser = Pr(1, "top", "", "", <<>>, <<>>, 0)
  BY <1>1 DEF Start, Pr
<1>3. Shaped(parser) /\ parser.pos = 1
  BY <1>2 DEF Shaped, Pr
<1>4. Outed(parsed)
  BY <1>1, OutFields
<1>5. RestAt(1) = Tokens(Lines(source))
  <2>1. Stream \in Seq(Token)
    BY <1>1, LinesAreGood, TokensOfLines, Zenon DEF Stream
  <2>2. SubSeq(Stream, 1, Len(Stream)) = Stream
    BY <2>1, AllAndNone
  <2> QED BY <1>1, <2>2, Zenon DEF RestAt, Stream
<1>6. Now = AtFirst(Tokens(Lines(source)))
  <2>1. /\ parser.mode = "top" /\ parser.kind = "" /\ parser.name = "" /\ parser.members = <<>>
        /\ parser.expected = <<>> /\ parser.depth = 0
    BY <1>2 DEF Pr
  <2> QED BY <1>1, <1>3, <1>5, <2>1, Zenon DEF Now, Abs, AtFirst
<1>7. source \in ReadSources => Reaches(Now, source)
  BY <1>1, <1>6, StreamReads, Zenon DEF Reaches
<1> QED BY <1>1, <1>3, <1>4, <1>7, Zenon DEF ParserInv

\* Every step keeps the invariant: a step of the parser is a step of the machine.
LEMMA ParserInvStep == SInv /\ ParserInv /\ [Next]_vars => ParserInv'
<1> SUFFICES ASSUME SInv, ParserInv, [Next]_vars PROVE ParserInv'
  OBVIOUS
<1>0. Shaped(parser) /\ Outed(parsed)
  BY DEF ParserInv
<1>1. ASSUME UNCHANGED <<source, lines, parser, parsed>>, stage = "done" <=> stage' = "done"
      PROVE  ParserInv'
  <2>1. Now' = Now /\ source' = source /\ parser' = parser /\ parsed' = parsed
    BY <1>1 DEF Now, Abs, RestAt, Stream
  <2> QED BY <1>1, <2>1, Zenon DEF ParserInv, Reaches, Shaped, Outed
<1>2. CASE Scan
  <2>1. /\ UNCHANGED <<source, lines, parser, parsed>> /\ stage # "done" /\ stage' # "done"
    BY <1>2 DEF Scan, ScanTemplate, EndTemplates, ScanComponent, EndComponents
  <2> QED BY <1>1, <2>1
<1>3. CASE EndParser
  <2>1. /\ parser.mode = "top" /\ Peek = "eof" /\ stage = "parser" /\ stage' = "done"
        /\ UNCHANGED <<source, parser, parsed>>
    BY <1>3 DEF EndParser, Reading
  <2>2. AtEnd(Now)
    <3>1. Head(RestAt(parser.pos)) = Peek
      BY RestFacts DEF SInv
    <3> QED BY <2>1, <3>1, NowFields, Zenon DEF AtEnd
  <2>5. ASSUME source \in ReadSources PROVE Says(source, parsed)
    <3>1. PICK y : Leads(Now, y) /\ AtEnd(y) /\ Says(source, y.out)
      BY <2>1, <2>5, Zenon DEF ParserInv, Reaches
    <3>2. Now = y
      BY <2>2, <3>1, LeadsAfter
    <3> QED BY <3>1, <3>2, NowFields, Zenon
  <2> QED BY <1>0, <2>1, <2>5, Zenon DEF ParserInv, Shaped, Outed
<1>4. CASE (ParseTop \/ ParseBody \/ ParseBus) /\ ~EndParser
  <2>1. stage = "parser"
    BY <1>4 DEF ParseTop, ParseBody, ParseBus, TopDefinition, TopDirective, EatDirective, TopOther,
                Skip, SkipModifier, ExpectToken, ExpectedSeen, Statement, EndBlock, BusName,
                BusParameters, BusBody, BusField, BusFieldName, BusFieldRest, Reading
  <2>2. Ready
    BY <1>0, <2>1 DEF Ready
  <2>3. Linked
    BY <1>4, <2>2, ParserLinks
  <2>4. /\ stage' = stage /\ source' = source /\ Shaped(parser') /\ Outed(parsed')
        /\ ~AtEnd(Now) /\ Now' = Succ(Now)
    <3>1. Now' = Abs(parser', parsed')
      <4>1. Stream' = Stream
        BY <2>3 DEF Linked, Stream
      <4> QED BY <4>1 DEF Now, Abs, RestAt
    <3> QED BY <2>3, <3>1 DEF Linked
  <2>7. ASSUME source \in ReadSources PROVE Reaches(Now', source')
    <3>1. PICK y : Leads(Now, y) /\ AtEnd(y) /\ Says(source, y.out)
      BY <2>1, <2>7, Zenon DEF ParserInv, Reaches
    <3>2. Leads(Succ(Now), y)
      BY <2>4, <3>1, LeadsAfter
    <3> QED BY <2>4, <3>1, <3>2, Zenon DEF Reaches
  <2> QED BY <2>1, <2>4, <2>7, Zenon DEF ParserInv, Shaped, Outed
<1>5. CASE Done \/ UNCHANGED vars
  <2>1. UNCHANGED <<source, lines, parser, parsed, stage>>
    BY <1>5 DEF Done, vars
  <2> QED BY <1>1, <2>1
<1> QED BY <1>2, <1>3, <1>4, <1>5 DEF Next

\* In a source without a header or a `/*` in a string a definition the parser cannot
\* read takes no other template or function with it and adds none, and the buses are
\* all found if every definition is readable: what parse_program_with_buses returns is
\* what the source says, whatever number of definitions, modifiers, statements,
\* comments and other strings it has.
THEOREM DefinitionsAreKept == Spec => []DefinitionsSurvive
<1>1. SInv /\ ParserInv /\ [Next]_vars => ParserInv'
  BY ParserInvStep
<1>2. SInv /\ ParserInv => DefinitionsSurvive
  <2> SUFFICES ASSUME SInv, ParserInv, stage = "done", PlainStrings
               PROVE  DefinitionsAreParsed
    BY DEF DefinitionsSurvive
  <2>1. source \in ReadSources
    BY Zenon DEF PlainStrings, PlainDef, ReadSources, SInv, TextOK
  <2>2. Says(source, parsed)
    BY <2>1, Zenon DEF ParserInv
  <2> QED BY <2>2, Zenon DEF Says, TemplatesIn, FunctionsIn, BusesIn, Members, Fields,
                            DefinitionsAreParsed
<1>3. Init => ParserInv
  BY ParserInit
<1> QED BY <1>1, <1>2, <1>3, ReadersInvariant, PTL DEF Spec
=============================================================================
