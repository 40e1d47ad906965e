------------------------ MODULE SourceReaders_proofs ------------------------
(***************************************************************************)
(* The readers on any source, however many definitions it has: what its    *)
(* lines and tokens are, and that every reader stays within them.          *)
(***************************************************************************)
EXTENDS SourceReaders, FiniteSetTheorems, SequenceTheorems, NaturalsInduction, TLAPS

---------------------------------------------------------------------------
\* Induction.

\* The order of the naturals, as a relation.
Less == {p \in Nat \X Nat : p[1] < p[2]}

\* Every set of naturals has a least element.
LEMMA LessIsWellFounded == IsWellFoundedOn(Less, Nat)
<1>1. OpToRel(<, Nat) = Less
  BY Zenon DEF OpToRel, Less
<1> QED BY Zenon, <1>1, NatLessThanWellFounded

\* A set that has 0 and the successor of each of its elements has every natural.
LEMMA Induction ==
    ASSUME NEW S, 0 \in S, \A n \in Nat : n \in S => n + 1 \in S
    PROVE  \A n \in Nat : n \in S
<1> DEFINE T == {n \in Nat : n \notin S}
<1> SUFFICES ASSUME T # {} PROVE FALSE
  OBVIOUS
<1>1. T \subseteq Nat
  OBVIOUS
<1> HIDE DEF T
<1>2. PICK x \in T : \A y \in T : ~(<<y, x>> \in Less)
  BY <1>1, LessIsWellFounded, WFMin, Zenon
<1>3. x \in Nat /\ x \notin S
  BY <1>2 DEF T
<1>4. x # 0
  BY <1>3
<1>5. x - 1 \in Nat /\ (x - 1) + 1 = x
  BY <1>3, <1>4
<1>6. x - 1 \notin S
  BY <1>3, <1>5
<1>7. x - 1 \in T
  BY <1>5, <1>6 DEF T
<1>8. <<x - 1, x>> \in Less
  BY <1>3, <1>5 DEF Less
<1> QED BY <1>2, <1>7, <1>8

\* What FlattenSeq computes: each sequence is added to what those before it give.
LEMMA FlattenSteps ==
    ASSUME NEW T, NEW ss \in Seq(Seq(T))
    PROVE  \E f : /\ f[0] = <<>>
                  /\ \A n \in 1 .. Len(ss) : f[n] = f[n - 1] \o ss[n]
                  /\ FlattenSeq(ss) = f[Len(ss)]
<1> DEFINE N == Len(ss)
           Flat(f, n) == f = [i \in 1 .. n |-> IF i = 1 THEN ss[i] ELSE f[i - 1] \o ss[i]]
           S == {n \in Nat : n <= N => \E f : Flat(f, n)}
<1>0. N \in Nat /\ \A n \in 1 .. N : ss[n] \in Seq(T)
  OBVIOUS
<1>1. 0 \in S
  <2>1. Flat([i \in 1 .. 0 |-> <<>>], 0)
    OBVIOUS
  <2> QED BY <2>1
<1>2. \A n \in Nat : n \in S => n + 1 \in S
  <2> SUFFICES ASSUME NEW n \in Nat, n + 1 <= N, \E f : Flat(f, n) PROVE \E f : Flat(f, n + 1)
    <3> HIDE DEF Flat
    <3> QED BY <1>0
  <2>1. PICK f : Flat(f, n)
    OBVIOUS
  <2> DEFINE g == [i \in 1 .. n + 1 |->
                     IF i = n + 1 THEN IF i = 1 THEN ss[i] ELSE f[n] \o ss[i] ELSE f[i]]
  <2>2. \A i \in 1 .. n + 1 : g[i] = IF i = 1 THEN ss[i] ELSE g[i - 1] \o ss[i]
    <3> TAKE i \in 1 .. n + 1
    <3>1. CASE i = n + 1
      <4>1. i # 1 => i - 1 \in 1 .. n + 1 /\ i - 1 # n + 1 /\ i - 1 = n
        BY <3>1
      <4> QED BY <3>1, <4>1
    <3>2. CASE i # n + 1
      <4>1. i \in 1 .. n
        BY <3>2
      <4>2. f[i] = IF i = 1 THEN ss[i] ELSE f[i - 1] \o ss[i]
        BY <2>1, <4>1
      <4>3. i # 1 => i - 1 \in 1 .. n + 1 /\ i - 1 # n + 1
        BY <4>1
      <4> QED BY <3>2, <4>2, <4>3
    <3> QED BY <3>1, <3>2
  <2>3. g = [i \in 1 .. n + 1 |-> g[i]]
    OBVIOUS
  <2> HIDE DEF g
  <2>4. Flat(g, n + 1)
    BY <2>2, <2>3
  <2> QED BY <2>4
<1>3. N \in S
  <2> HIDE DEF S
  <2> QED BY <1>0, <1>1, <1>2, Induction
<1>4. \E f : Flat(f, N)
  <2> HIDE DEF Flat
  <2> QED BY <1>0, <1>3
<1> DEFINE h == CHOOSE f : Flat(f, N)
<1>5. Flat(h, N)
  BY <1>4
<1>6. FlattenSeq(ss) = IF N = 0 THEN ss ELSE h[N]
  BY DEF FlattenSeq
<1> HIDE DEF h
<1> DEFINE k == [i \in 0 .. N |-> IF i = 0 THEN <<>> ELSE h[i]]
<1>7. k[0] = <<>>
  BY <1>0
<1>8. \A n \in 1 .. N : k[n] = k[n - 1] \o ss[n]
  <2> TAKE n \in 1 .. N
  <2>1. h[n] = IF n = 1 THEN ss[n] ELSE h[n - 1] \o ss[n]
    BY <1>5
  <2>2. n - 1 \in 0 .. N /\ n \in 0 .. N /\ n # 0 /\ (n # 1 => n - 1 # 0)
    BY <1>0
  <2>3. k[n] = h[n] /\ k[n - 1] = IF n = 1 THEN <<>> ELSE h[n - 1]
    BY <2>2
  <2>4. <<>> \o ss[n] = ss[n]
    BY <1>0
  <2> QED BY <2>1, <2>3, <2>4
<1>9. FlattenSeq(ss) = k[N]
  BY <1>0, <1>6
<1> HIDE DEF k
<1> QED BY <1>7, <1>8, <1>9

\* What Lines computes: each definition is written after those before it.
LEMMA LinesSteps ==
    ASSUME NEW D, NEW defs \in Seq(D)
    PROVE  \E f : /\ f[0] = <<>>
                  /\ \A n \in 1 .. Len(defs) : f[n] = AddLines(f[n - 1], defs[n])
                  /\ Lines(defs) = f[Len(defs)]
<1> DEFINE N == Len(defs)
           UpTo(f, n) == f = [i \in 0 .. n |-> IF i = 0 THEN <<>> ELSE AddLines(f[i - 1], defs[i])]
           S == {n \in Nat : \E f : UpTo(f, n)}
<1>0. N \in Nat
  OBVIOUS
<1>1. 0 \in S
  <2>1. UpTo([i \in 0 .. 0 |-> <<>>], 0)
    OBVIOUS
  <2> QED BY <2>1
<1>2. \A n \in Nat : n \in S => n + 1 \in S
  <2> SUFFICES ASSUME NEW n \in Nat, \E f : UpTo(f, n) PROVE \E f : UpTo(f, n + 1)
    <3> HIDE DEF UpTo
    <3> QED OBVIOUS
  <2>1. PICK f : UpTo(f, n)
    OBVIOUS
  <2> DEFINE g == [i \in 0 .. n + 1 |-> IF i = n + 1 THEN AddLines(f[n], defs[i]) ELSE f[i]]
  <2>2. \A i \in 0 .. n + 1 : g[i] = IF i = 0 THEN <<>> ELSE AddLines(g[i - 1], defs[i])
    <3> TAKE i \in 0 .. n + 1
    <3>1. CASE i = n + 1
      <4>1. i # 0 /\ i - 1 \in 0 .. n + 1 /\ i - 1 # n + 1 /\ i - 1 = n
        BY <3>1
      <4> QED BY <3>1, <4>1
    <3>2. CASE i # n + 1
      <4>1. i \in 0 .. n
        BY <3>2
      <4>2. f[i] = IF i = 0 THEN <<>> ELSE AddLines(f[i - 1], defs[i])
        BY <2>1, <4>1
      <4>3. i # 0 => i - 1 \in 0 .. n + 1 /\ i - 1 # n + 1
        BY <4>1
      <4> QED BY <3>2, <4>2, <4>3
    <3> QED BY <3>1, <3>2
  <2>3. g = [i \in 0 .. n + 1 |-> g[i]]
    OBVIOUS
  <2> HIDE DEF g
  <2>4. UpTo(g, n + 1)
    BY <2>2, <2>3
  <2> QED BY <2>4
<1>3. N \in S
  <2> HIDE DEF S
  <2> QED BY <1>0, <1>1, <1>2, Induction
<1> DEFINE h == CHOOSE f : UpTo(f, N)
<1>4. UpTo(h, N)
  BY <1>3
<1>5. Lines(defs) = h[N]
  BY DEF Lines
<1> HIDE DEF h
<1>6. h[0] = <<>> /\ \A n \in 1 .. N : h[n] = AddLines(h[n - 1], defs[n])
  BY <1>0, <1>4
<1> QED BY <1>5, <1>6

---------------------------------------------------------------------------
\* The text of a source.

Token == Names \cup Words \cup Punctuation \cup {"a", "b", "c", "x", "w", "main", "B"}

\* A line has a token, and one that starts like a template header has a brace.
GoodText == {ts \in Seq(Token) :
               /\ ts # <<>>
               /\ ts[1] = "template" => \E i \in 1 .. Len(ts) : ts[i] = "{"}
GoodLine == [text : GoodText, code : Seq(Token \cup {"/*"})]

\* Without a `/*` in its code.
ReadLine == [text : GoodText, code : Seq(Token)]

LEMMA LinesHaveText ==
    /\ \A l \in GoodLine : l.text \in GoodText /\ l.code \in Seq(Token \cup {"/*"})
    /\ \A l \in ReadLine : l.text \in GoodText /\ l.code \in Seq(Token)
<1> DEFINE S == Seq(Token \cup {"/*"})
           R == Seq(Token)
<1>1. GoodLine = [text : GoodText, code : S] /\ ReadLine = [text : GoodText, code : R]
  BY DEF GoodLine, ReadLine
<1> HIDE DEF S, R
<1>2. /\ \A l \in GoodLine : l.text \in GoodText /\ l.code \in S
      /\ \A l \in ReadLine : l.text \in GoodText /\ l.code \in R
  BY <1>1
<1> QED BY <1>2 DEF S, R

LEMMA CommentIsNoToken == "/*" \notin Token
BY NamesAssumption DEF Token, Words, Punctuation, Modifiers

\* Flattening keeps the type of the elements.
LEMMA FlattenType ==
    ASSUME NEW T, NEW ss \in Seq(Seq(T))
    PROVE  FlattenSeq(ss) \in Seq(T)
<1>1. PICK f : /\ f[0] = <<>>
               /\ \A n \in 1 .. Len(ss) : f[n] = f[n - 1] \o ss[n]
               /\ FlattenSeq(ss) = f[Len(ss)]
  BY FlattenSteps
<1> DEFINE S == {n \in Nat : n <= Len(ss) => f[n] \in Seq(T)}
<1>2. Len(ss) \in Nat /\ \A n \in 1 .. Len(ss) : ss[n] \in Seq(T)
  OBVIOUS
<1>3. 0 \in S
  <2>1. f[0] \in Seq(T)
    BY <1>1
  <2> QED BY <2>1
<1>4. \A n \in Nat : n \in S => n + 1 \in S
  <2> SUFFICES ASSUME NEW n \in Nat, n \in S, n + 1 <= Len(ss) PROVE f[n + 1] \in Seq(T)
    OBVIOUS
  <2>1. f[n] \in Seq(T) /\ ss[n + 1] \in Seq(T)
    BY <1>2
  <2>2. n + 1 \in 1 .. Len(ss) /\ (n + 1) - 1 = n
    BY <1>2
  <2>3. f[n + 1] = f[n] \o ss[n + 1]
    BY <1>1, <2>2
  <2> QED BY <2>1, <2>3
<1> HIDE DEF S
<1>5. Len(ss) \in S
  BY <1>2, <1>3, <1>4, Induction
<1> QED BY <1>1, <1>2, <1>5 DEF S

LEMMA ReadIsGood == ReadLine \subseteq GoodLine /\ Seq(ReadLine) \subseteq Seq(GoodLine)
<1>1. Seq(Token) \subseteq Seq(Token \cup {"/*"})
  OBVIOUS
<1>2. ReadLine \subseteq GoodLine
  BY <1>1 DEF ReadLine, GoodLine
<1> QED BY <1>2

LEMMA LineIsRead ==
    ASSUME NEW ts \in GoodText
    PROVE  Line(ts) \in ReadLine /\ Comment(ts) \in ReadLine
<1>1. ts \in Seq(Token) /\ <<>> \in Seq(Token)
  BY Zenon, EmptySeq DEF GoodText
<1> QED BY <1>1 DEF Line, Comment, ReadLine

LEMMA LineIsGood ==
    ASSUME NEW ts \in GoodText
    PROVE  Line(ts) \in GoodLine /\ Comment(ts) \in GoodLine
BY LineIsRead, ReadIsGood

\* The tokens the fragments are written with.
LEMMA Tokens0 ==
    /\ \A t \in Names \cup Words \cup Punctuation \cup {"a", "b", "c", "x", "w", "main", "B"} :
          t \in Token
    /\ \A t \in {"stmt", "signal input", "signal", "for", "component", "bad", "log", "//",
                 "template", "function", "bus", "eof"} : t \in Words
    /\ \A t \in {"(", ")", "{", "}", "=", ";"} : t \in Punctuation
BY DEF Token, Words, Punctuation

\* Sequences given by their elements.
LEMMA Sequence1 ==
    ASSUME NEW T, NEW a \in T
    PROVE  /\ <<a>> \in Seq(T) /\ Len(<<a>>) = 1 /\ <<a>>[1] = a /\ <<a>> # <<>>
           /\ Len(<<a>>) > 0 /\ <<a>>[Len(<<a>>)] = a
OBVIOUS

LEMMA Sequence2 ==
    ASSUME NEW T, NEW a \in T, NEW b \in T
    PROVE  /\ <<a, b>> \in Seq(T) /\ Len(<<a, b>>) = 2 /\ <<a, b>> # <<>>
           /\ <<a, b>>[1] = a /\ <<a, b>>[2] = b
OBVIOUS

LEMMA Sequence3 ==
    ASSUME NEW T, NEW a \in T, NEW b \in T, NEW c \in T
    PROVE  /\ <<a, b, c>> \in Seq(T) /\ Len(<<a, b, c>>) = 3 /\ <<a, b, c>> # <<>>
           /\ <<a, b, c>>[1] = a /\ <<a, b, c>>[2] = b /\ <<a, b, c>>[3] = c
OBVIOUS

LEMMA Sequence4 ==
    ASSUME NEW T, NEW a \in T, NEW b \in T, NEW c \in T, NEW d \in T
    PROVE  /\ <<a, b, c, d>> \in Seq(T) /\ Len(<<a, b, c, d>>) = 4
           /\ <<a, b, c, d>>[1] = a /\ <<a, b, c, d>>[2] = b
           /\ <<a, b, c, d>>[3] = c /\ <<a, b, c, d>>[4] = d
           /\ Len(<<a, b, c, d>>) > 0 /\ <<a, b, c, d>>[Len(<<a, b, c, d>>)] = d
OBVIOUS

LEMMA Sequence5 ==
    ASSUME NEW T, NEW a \in T, NEW b \in T, NEW c \in T, NEW d \in T, NEW e \in T
    PROVE  /\ <<a, b, c, d, e>> \in Seq(T) /\ Len(<<a, b, c, d, e>>) = 5
           /\ <<a, b, c, d, e>>[1] = a /\ <<a, b, c, d, e>>[2] = b
           /\ <<a, b, c, d, e>>[3] = c /\ <<a, b, c, d, e>>[4] = d
           /\ <<a, b, c, d, e>>[5] = e /\ <<a, b, c, d, e>> # <<>>
           /\ 5 \in 1 .. Len(<<a, b, c, d, e>>)
OBVIOUS

LEMMA Sequence7 ==
    ASSUME NEW T, NEW a \in T, NEW b \in T, NEW c \in T, NEW d \in T, NEW e \in T,
           NEW f \in T, NEW g \in T
    PROVE  <<a, b, c, d, e, f, g>> \in Seq(T)
OBVIOUS

\* Two sequences, one behind the other.
LEMMA Joined ==
    ASSUME NEW T, NEW s \in Seq(T), NEW t \in Seq(T)
    PROVE  /\ s \o t \in Seq(T) /\ Len(s) \in Nat /\ Len(t) \in Nat
           /\ Len(s \o t) = Len(s) + Len(t)
           /\ \A i \in 1 .. Len(s) : (s \o t)[i] = s[i]
           /\ \A i \in 1 .. Len(t) : (s \o t)[Len(s) + i] = t[i]
OBVIOUS

\* A token behind a sequence is the last of the longer one.
LEMMA JoinedEnd ==
    ASSUME NEW T, NEW s \in Seq(T), NEW t \in Seq(T), NEW x, Len(t) > 0, t[Len(t)] = x
    PROVE  /\ s \o t \in Seq(T) /\ Len(s \o t) \in 1 .. Len(s \o t)
           /\ Len(s \o t) = Len(s) + Len(t) /\ (s \o t)[Len(s \o t)] = x /\ s \o t # <<>>
<1>1. /\ s \o t \in Seq(T) /\ Len(s) \in Nat /\ Len(t) \in Nat
      /\ Len(s \o t) = Len(s) + Len(t)
      /\ \A i \in 1 .. Len(t) : (s \o t)[Len(s) + i] = t[i]
  BY Joined
<1>2. Len(t) \in 1 .. Len(t)
  BY <1>1
<1> QED BY <1>1, <1>2

LEMMA PlainTextIsGood ==
    ASSUME NEW ts \in Seq(Token), ts # <<>>, ts[1] # "template"
    PROVE  ts \in GoodText
BY DEF GoodText

\* A text stays good when more is written behind it.
LEMMA LongerIsGood ==
    ASSUME NEW s \in GoodText, NEW t \in Seq(Token)
    PROVE  s \o t \in GoodText
<1>0. s \in Seq(Token) /\ s # <<>>
  BY Zenon DEF GoodText
<1>1. s \in Seq(Token) /\ s # <<>> /\ Len(s) \in Nat /\ Len(s) > 0
  BY <1>0
<1>2. /\ s \o t \in Seq(Token) /\ Len(s \o t) = Len(s) + Len(t)
      /\ \A i \in 1 .. Len(s) : (s \o t)[i] = s[i]
  BY <1>1
<1>3. s \o t # <<>> /\ (s \o t)[1] = s[1] /\ 1 .. Len(s) \subseteq 1 .. Len(s \o t)
  BY <1>1, <1>2
<1> QED BY <1>2, <1>3 DEF GoodText

LEMMA InstanceIsGood ==
    ASSUME NEW name \in Seq(Token), NEW template \in Token
    PROVE  Instance(name, template) \in GoodText
<1>1. <<"component">> \in Seq(Token) /\ <<"component">> # <<>> /\ <<"component">>[1] # "template"
  BY Tokens0, Sequence1
<1>2. <<"component">> \in GoodText
  BY <1>1, PlainTextIsGood
<1>3. <<"=", template, "(", ")", ";">> \in Seq(Token)
  BY Tokens0, Sequence5
<1> QED BY <1>2, <1>3, LongerIsGood DEF Instance

\* Every statement is written as good lines.
LEMMA FragmentLines ==
    ASSUME NEW f \in TemplateBody \cup {"field"}
    PROVE  Fragment(f) \in Seq(GoodLine) /\ (f # "comments" => Fragment(f) \in Seq(ReadLine))
<1>0. Fragment(f) \in Seq(ReadLine) => Fragment(f) \in Seq(GoodLine)
  BY ReadIsGood
<1>1. CASE f = "plain"
  <2>1. <<"stmt">> \in GoodText
    BY Tokens0, Sequence1, PlainTextIsGood
  <2> QED BY <1>0, <1>1, <2>1, LineIsRead, Sequence1 DEF Fragment
<1>2. CASE f \in {"input a", "input b"}
  <2>1. InputName(f) \in Token
    BY Tokens0 DEF InputName
  <2>2. <<"signal input", InputName(f)>> \in GoodText
    BY <2>1, Tokens0, Sequence2, PlainTextIsGood
  <2>3. Fragment(f) = <<Line(<<"signal input", InputName(f)>>)>>
    BY <1>2 DEF Fragment
  <2> QED BY <1>0, <2>2, <2>3, LineIsRead, Sequence1
<1>3. CASE f = "field"
  <2>1. <<"signal", "x", ";">> \in GoodText
    BY Tokens0, Sequence3, PlainTextIsGood
  <2> QED BY <1>0, <1>3, <2>1, LineIsRead, Sequence1 DEF Fragment
<1>4. CASE f = "loop"
  <2>1. <<"for", "{">> \in GoodText
    BY Tokens0, Sequence2, PlainTextIsGood
  <2>2. <<"stmt">> \in GoodText
    BY Tokens0, Sequence1, PlainTextIsGood
  <2>3. <<"}">> \in GoodText
    BY Tokens0, Sequence1, PlainTextIsGood
  <2> QED BY <1>0, <1>4, <2>1, <2>2, <2>3, LineIsRead, Sequence3 DEF Fragment
<1>5. CASE f = "part"
  <2>1. <<"c">> \in Seq(Token) /\ "B" \in Token
    BY Tokens0, Sequence1
  <2>2. Instance(<<"c">>, "B") \in GoodText
    BY <2>1, InstanceIsGood
  <2> QED BY <1>0, <1>5, <2>2, LineIsRead, Sequence1 DEF Fragment
<1>6. CASE f = "bad"
  <2>1. <<"bad">> \in GoodText
    BY Tokens0, Sequence1, PlainTextIsGood
  <2> QED BY <1>0, <1>6, <2>1, LineIsRead, Sequence1 DEF Fragment
<1>7. CASE f = "said"
  <2>1. <<"log">> \in GoodText
    BY Tokens0, Sequence1, PlainTextIsGood
  <2>2. <<"bad", "template", "w">> \in Seq(Token)
    BY Tokens0, Sequence3
  <2>3. [text |-> <<"log">>, code |-> <<"bad", "template", "w">>] \in ReadLine
    BY <2>1, <2>2 DEF ReadLine
  <2> QED BY <1>0, <1>7, <2>3, Sequence1 DEF Fragment
<1>8. CASE f = "opens"
  <2>1. <<"//", "{">> \in GoodText
    BY Tokens0, Sequence2, PlainTextIsGood
  <2> QED BY <1>0, <1>8, <2>1, LineIsRead, Sequence1 DEF Fragment
<1>9. CASE f = "closes"
  <2>1. <<"//", "}">> \in GoodText
    BY Tokens0, Sequence2, PlainTextIsGood
  <2> QED BY <1>0, <1>9, <2>1, LineIsRead, Sequence1 DEF Fragment
<1>10. CASE f = "defines"
  <2> DEFINE c == <<"bad", "template", "w", "(", ")", "{", "}">>
             l == [text |-> <<"log", "{", "}">>, code |-> c]
  <2>1. <<"log", "{", "}">> \in GoodText
    BY Tokens0, Sequence3, PlainTextIsGood
  <2>2. c \in Seq(Token)
    BY Tokens0, Sequence7
  <2>3. Fragment(f) = <<l>>
    BY <1>10 DEF Fragment
  <2>4. l \in ReadLine
    BY <2>1, <2>2 DEF ReadLine
  <2> QED BY <1>0, <2>3, <2>4, Sequence1
<1>11. CASE f = "comments"
  <2> DEFINE l == [text |-> <<"log">>, code |-> <<"bad", "/*">>]
  <2>1. <<"log">> \in GoodText
    BY Tokens0, Sequence1, PlainTextIsGood
  <2>2. <<"bad", "/*">> \in Seq(Token \cup {"/*"})
    BY Tokens0, Sequence2
  <2>3. Fragment(f) = <<l>>
    BY <1>11 DEF Fragment
  <2>4. l \in GoodLine
    BY <2>1, <2>2 DEF GoodLine
  <2> QED BY <1>11, <2>3, <2>4, Sequence1
<1>12. CASE f = "unbalanced"
  <2> DEFINE l == [text |-> <<"log", "}">>, code |-> <<"bad", "}">>]
  <2>1. <<"log", "}">> \in GoodText
    BY Tokens0, Sequence2, PlainTextIsGood
  <2>2. <<"bad", "}">> \in Seq(Token)
    BY Tokens0, Sequence2
  <2>3. Fragment(f) = <<l>>
    BY <1>12 DEF Fragment
  <2>4. l \in ReadLine
    BY <2>1, <2>2 DEF ReadLine
  <2> QED BY <1>0, <2>3, <2>4, Sequence1
<1> QED BY <1>0, <1>1, <1>2, <1>3, <1>4, <1>5, <1>6, <1>7, <1>8, <1>9, <1>10, <1>11, <1>12
   DEF TemplateBody, FunctionBody

\* What a definition with a body is made of.
Bodied == TemplateDefs \cup FunctionDefs \cup BusDefs

LEMMA BodiedParts ==
    ASSUME NEW d \in Bodied
    PROVE  /\ d.kind \in {"template", "function", "bus"} /\ d.name \in Names
           /\ d.mods \in Seq(Modifiers) /\ d.body \in Seq(TemplateBody \cup {"field"})
<1>1. CASE d \in TemplateDefs
  BY <1>1 DEF TemplateDefs
<1>2. CASE d \in FunctionDefs
  <2>1. d.body \in Seq(FunctionBody)
    BY <1>2 DEF FunctionDefs
  <2>0. d.kind = "function" /\ d.name \in Names /\ d.mods = <<>>
    BY <1>2 DEF FunctionDefs
  <2>2. FunctionBody \subseteq TemplateBody \cup {"field"}
    BY DEF TemplateBody
  <2>3. d.body \in Seq(TemplateBody \cup {"field"})
    BY <2>1, <2>2
  <2>4. d.mods \in Seq(Modifiers)
    BY <2>0
  <2> QED BY <2>0, <2>3, <2>4
<1>3. CASE d \in BusDefs
  <2>1. d.body \in Seq({"field"}) /\ d.mods = <<>>
    BY <1>3 DEF BusDefs
  <2>2. d.body \in Seq(TemplateBody \cup {"field"})
    BY <2>1
  <2> QED BY <1>3, <2>1, <2>2 DEF BusDefs
<1> QED BY <1>1, <1>2, <1>3 DEF Bodied

LEMMA HeaderIsGood ==
    ASSUME NEW d \in Bodied
    PROVE  Header(d) \in GoodText
<1> DEFINE k == <<d.kind>>
           e == <<d.name, "(", ")", "{">>
           m == d.mods
<1>1. k \in Seq(Token)
  BY BodiedParts, Tokens0, Sequence1
<1>2. e \in Seq(Token) /\ Len(e) > 0 /\ e[Len(e)] = "{"
  BY BodiedParts, Tokens0, Sequence4
<1>3. m \in Seq(Token)
  <2>1. Modifiers \subseteq Token
    BY DEF Token, Words
  <2> QED BY <2>1, BodiedParts
<1>4. Header(d) = (k \o m) \o e
  BY DEF Header
<1> HIDE DEF k, e, m
<1>5. k \o m \in Seq(Token)
  BY <1>1, <1>3, Joined
<1>6. /\ Header(d) \in Seq(Token) /\ Header(d) # <<>>
      /\ Len(Header(d)) \in 1 .. Len(Header(d)) /\ Header(d)[Len(Header(d))] = "{"
  BY <1>2, <1>4, <1>5, JoinedEnd, ZenonT(60)
<1> QED BY <1>6, Zenon DEF GoodText

LEMMA BodyIsGood ==
    ASSUME NEW d \in Bodied
    PROVE  /\ Body(d) \in Seq(GoodLine)
           /\ "comments" \notin Range(d.body) => Body(d) \in Seq(ReadLine)
<1> DEFINE ss == [i \in DOMAIN d.body |-> Fragment(d.body[i])]
<1>1. Len(d.body) \in Nat /\ DOMAIN d.body = 1 .. Len(d.body)
  BY BodiedParts
<1>2. \A i \in 1 .. Len(d.body) : d.body[i] \in TemplateBody \cup {"field"}
  BY BodiedParts
<1>3. \A i \in 1 .. Len(d.body) : Fragment(d.body[i]) \in Seq(GoodLine)
  BY <1>2, FragmentLines
<1>4. ss \in Seq(Seq(GoodLine))
  BY <1>1, <1>3
<1>5. ASSUME "comments" \notin Range(d.body) PROVE ss \in Seq(Seq(ReadLine))
  <2>1. \A i \in 1 .. Len(d.body) : d.body[i] # "comments"
    BY <1>1, <1>5 DEF Range
  <2>2. \A i \in 1 .. Len(d.body) : Fragment(d.body[i]) \in Seq(ReadLine)
    BY <1>2, <2>1, FragmentLines
  <2> QED BY <1>1, <2>2
<1> HIDE DEF ss
<1> QED BY <1>4, <1>5, FlattenType DEF Body, ss

\* No `/*` in a string of the definition.
NoComment(d) ==
    d.kind \in {"template", "function", "bus"} => "comments" \notin Range(d.body)

\* The lines of a source stay good, whatever definition is added to it.
LEMMA AddLinesIsGood ==
    ASSUME NEW d \in Definitions, NEW L, L = GoodLine \/ (L = ReadLine /\ NoComment(d)),
           NEW ls \in Seq(L), Glued(d) => ls # <<>>
    PROVE  AddLines(ls, d) \in Seq(L) /\ AddLines(ls, d) # <<>>
<1>a. \A t \in GoodText : Line(t) \in L /\ Comment(t) \in L
  BY LineIsGood, LineIsRead
<1>b. \A l \in L : l.text \in GoodText
  BY LinesHaveText
<1>c. d \in Bodied => Body(d) \in Seq(L)
  BY BodyIsGood, BodiedParts DEF NoComment
<1>0. <<"}">> \in GoodText
  BY Tokens0, Sequence1, PlainTextIsGood
<1>1. CASE d.kind \in {"main", "public"}
  <2>1. d.name \in Token
    BY <1>1, Tokens0 DEF Definitions, TemplateDefs, FunctionDefs, BusDefs, OtherDefs
  <2>2. <<"main">> \in Seq(Token) /\ <<"main", "{", "}">> \in Seq(Token)
    BY Tokens0, Sequence1, Sequence3
  <2>3. PICK t \in GoodText : AddLines(ls, d) = Append(ls, Line(t))
    BY <1>1, <2>1, <2>2, InstanceIsGood DEF AddLines
  <2>4. Line(t) \in L
    BY <1>a
  <2> QED BY <2>3, <2>4, AppendProperties
<1>2. CASE d.kind = "quoted"
  <2>1. d.name \in Token
    BY <1>2, Tokens0 DEF Definitions, TemplateDefs, FunctionDefs, BusDefs, OtherDefs
  <2> DEFINE t == <<"template", d.name, "(", ")", "{">>
  <2>2. t \in Seq(Token) /\ 5 \in 1 .. Len(t) /\ t[5] = "{" /\ t # <<>>
    BY <2>1, Tokens0, Sequence5
  <2>3. t \in GoodText
    <3> HIDE DEF t
    <3> QED BY <2>2, Zenon DEF GoodText
  <2>4. <<Comment(t), Comment(<<"}">>)>> \in Seq(L) /\ Len(<<Comment(t), Comment(<<"}">>)>>) = 2
    BY <1>0, <1>a, <2>3, Sequence2
  <2>5. AddLines(ls, d) = ls \o <<Comment(t), Comment(<<"}">>)>>
    BY <1>2 DEF AddLines
  <2> DEFINE two == <<Comment(t), Comment(<<"}">>)>>
  <2> HIDE DEF two
  <2>6. AddLines(ls, d) \in Seq(L) /\ Len(AddLines(ls, d)) = Len(ls) + 2 /\ Len(ls) \in Nat
    <3>1. two \in Seq(L) /\ Len(two) = 2 /\ AddLines(ls, d) = ls \o two
      BY <2>4, <2>5 DEF two
    <3>2. Len(ls \o two) = Len(ls) + Len(two) /\ Len(ls) \in Nat /\ ls \o two \in Seq(L)
      BY <3>1, Joined, Zenon
    <3> QED BY <3>1, <3>2
  <2> QED BY <2>6
<1>3. CASE d.kind \in {"template", "function", "bus"}
  <2>1. d \in Bodied
    BY <1>3 DEF Definitions, Bodied, OtherDefs
  <2> DEFINE b == Body(d)
             e == <<Line(<<"}">>)>>
  <2>2. b \in Seq(L) /\ e \in Seq(L) /\ Len(e) = 1
    BY <1>0, <1>a, <1>c, <2>1, Sequence1
  <2>3. PICK s \in Seq(L), t \in GoodText : AddLines(ls, d) = ((s \o <<Line(t)>>) \o b) \o e
    <3>1. CASE ~Glued(d)
      <4>1. AddLines(ls, d) = ((ls \o <<Line(Header(d))>>) \o b) \o e
        BY <1>3, <3>1 DEF AddLines
      <4> QED BY <2>1, <4>1, HeaderIsGood
    <3>2. CASE Glued(d)
      <4> DEFINE t == Last(ls).text \o Header(d)
      <4>1. AddLines(ls, d) = ((Front(ls) \o <<Line(t)>>) \o b) \o e
        BY <1>3, <3>2 DEF AddLines
      <4>2. ls # <<>>
        BY <3>2
      <4>3. Last(ls) \in L /\ Front(ls) \in Seq(L)
        <5>1. Len(ls) \in Nat /\ Len(ls) \in 1 .. Len(ls)
          BY <4>2
        <5>2. Last(ls) \in L
          BY <5>1 DEF Last
        <5>3. \A i \in 1 .. Len(ls) - 1 : ls[i] \in L
          BY <5>1
        <5>4. 1 \in Int /\ Len(ls) - 1 \in Int
          BY <5>1
        <5> QED BY <5>2, <5>3, <5>4, SubSeqProperties DEF Front
      <4>4. Last(ls).text \in GoodText /\ Header(d) \in Seq(Token)
        <5>1. Last(ls).text \in GoodText
          BY <4>3, <1>b
        <5>2. Header(d) \in Seq(Token)
          BY <2>1, HeaderIsGood, Zenon DEF GoodText
        <5> QED BY <5>1, <5>2
      <4>5. t \in GoodText
        BY <4>4, LongerIsGood
      <4> QED BY <4>1, <4>3, <4>5
    <3> QED BY <3>1, <3>2
  <2>4. <<Line(t)>> \in Seq(L)
    BY <1>a, Sequence1
  <2> HIDE DEF b, e
  <2>5. s \o <<Line(t)>> \in Seq(L)
    BY <2>4
  <2>6. (s \o <<Line(t)>>) \o b \in Seq(L)
    BY <2>2, <2>5
  <2>7. /\ AddLines(ls, d) \in Seq(L)
        /\ Len(AddLines(ls, d)) = Len((s \o <<Line(t)>>) \o b) + 1
    <3> DEFINE front == (s \o <<Line(t)>>) \o b
    <3> HIDE DEF front
    <3>1. front \in Seq(L) /\ AddLines(ls, d) = front \o e
      BY <2>3, <2>6 DEF front
    <3>2. front \o e \in Seq(L) /\ Len(front \o e) = Len(front) + Len(e)
      BY <2>2, <3>1, Joined
    <3> QED BY <2>2, <3>1, <3>2 DEF front
  <2>8. Len((s \o <<Line(t)>>) \o b) \in Nat
    BY <2>6
  <2> QED BY <2>7, <2>8
<1> QED BY <1>1, <1>2, <1>3 DEF Definitions, TemplateDefs, FunctionDefs, BusDefs, OtherDefs

LEMMA LinesAre ==
    ASSUME NEW s \in Sources, NEW L,
           L = GoodLine \/ (L = ReadLine /\ \A i \in DOMAIN s : NoComment(s[i]))
    PROVE  Lines(s) \in Seq(L)
<1>0. s \in Seq(Definitions) /\ \A i \in 1 .. Len(s) : Glued(s[i]) => i > 1
  BY SourcesAssumption
<1>1. PICK f : /\ f[0] = <<>>
               /\ \A n \in 1 .. Len(s) : f[n] = AddLines(f[n - 1], s[n])
               /\ Lines(s) = f[Len(s)]
  BY <1>0, LinesSteps
<1> DEFINE G(n) == f[n] \in Seq(L) /\ (n > 0 => f[n] # <<>>)
           S == {n \in Nat : n <= Len(s) => G(n)}
<1>2. Len(s) \in Nat /\ \A n \in 1 .. Len(s) : s[n] \in Definitions
  BY <1>0
<1>3. 0 \in S
  <2>1. f[0] \in Seq(L)
    BY <1>1
  <2> QED BY <2>1
<1>4. \A n \in Nat : n \in S => n + 1 \in S
  <2> SUFFICES ASSUME NEW n \in Nat, n \in S, n + 1 <= Len(s) PROVE G(n + 1)
    OBVIOUS
  <2>1. f[n] \in Seq(L) /\ (n > 0 => f[n] # <<>>)
    BY <1>2
  <2>2. n + 1 \in 1 .. Len(s) /\ (n + 1) - 1 = n
    BY <1>2
  <2>3. f[n + 1] = AddLines(f[n], s[n + 1]) /\ s[n + 1] \in Definitions
    BY <1>1, <1>2, <2>2
  <2>4. Glued(s[n + 1]) => f[n] # <<>>
    BY <1>0, <2>1, <2>2
  <2>5. L = GoodLine \/ (L = ReadLine /\ NoComment(s[n + 1]))
    BY <2>2, <1>0
  <2>6. f[n + 1] \in Seq(L) /\ f[n + 1] # <<>>
    BY <2>1, <2>3, <2>4, <2>5, AddLinesIsGood
  <2> QED BY <2>6
<1> HIDE DEF S
<1>5. Len(s) \in S
  BY <1>2, <1>3, <1>4, Induction
<1> QED BY <1>1, <1>2, <1>5 DEF S

LEMMA LinesAreGood ==
    ASSUME NEW s \in Sources
    PROVE  Lines(s) \in Seq(GoodLine)
BY LinesAre

\* What stands before and behind the first t of a text.
LEMMA FirstOf ==
    ASSUME NEW T, NEW ts \in Seq(T), NEW t, NEW n \in 1 .. Len(ts),
           ts[n] = t, \A i \in 1 .. n - 1 : ts[i] # t
    PROVE  /\ t \in Range(ts)
           /\ Before(ts, t) = SubSeq(ts, 1, n - 1)
           /\ After(ts, t) = SubSeq(ts, n + 1, Len(ts))
<1>1. t \in Range(ts)
  BY DEF Range
<1> DEFINE I == {i \in 1 .. Len(ts) : ts[i] = t}
<1>2. n \in I /\ I \subseteq Nat /\ \A i \in I : n <= i
  OBVIOUS
<1>3. SelectInSeq(ts, LAMBDA u : u = t) = IF I # {} THEN Min(I) ELSE 0
  BY DEF SelectInSeq
<1> HIDE DEF I
<1>4. Min(I) = n
  <2> DEFINE m == CHOOSE x \in I : \A y \in I : x =< y
  <2>1. m \in I /\ \A y \in I : m =< y
    BY <1>2
  <2>2. Min(I) = m
    BY Zenon DEF Min
  <2> HIDE DEF m
  <2>3. m =< n /\ n <= m /\ m \in Nat /\ n \in Nat
    BY <1>2, <2>1
  <2> QED BY <2>2, <2>3
<1>5. SelectInSeq(ts, LAMBDA u : u = t) = n
  BY <1>2, <1>3, <1>4
<1>6. Before(ts, t) = SubSeq(ts, 1, n - 1)
  BY <1>1, <1>5 DEF Before
<1>7. Len(SubSeq(ts, 1, n - 1)) = n - 1
  OBVIOUS
<1>8. After(ts, t) = SubSeq(ts, n + 1, Len(ts))
  BY <1>6, <1>7 DEF After
<1> QED BY <1>1, <1>6, <1>8

\* What is read of a text has no `/*`; a text without one is read as it is.
LEMMA UncommentedType ==
    ASSUME NEW ts \in Seq(Token \cup {"/*"})
    PROVE  /\ Uncommented(ts) \in Seq(Token)
           /\ ts \in Seq(Token) => Uncommented(ts) = ts
<1>1. CASE "/*" \notin Range(ts)
  <2>1. \A i \in 1 .. Len(ts) : ts[i] # "/*" /\ ts[i] \in Token \cup {"/*"}
    BY <1>1 DEF Range
  <2>2. ts \in Seq(Token)
    <3>1. ts = [i \in 1 .. Len(ts) |-> ts[i]] /\ Len(ts) \in Nat
      OBVIOUS
    <3> QED BY <2>1, <3>1
  <2> QED BY <1>1, <2>2 DEF Uncommented
<1>2. CASE "/*" \in Range(ts)
  <2> DEFINE I == {i \in 1 .. Len(ts) : ts[i] = "/*"}
  <2>1. I # {} /\ I \subseteq Nat
    BY <1>2 DEF Range
  <2>2. PICK n \in I : \A i \in I : ~(<<i, n>> \in Less)
    <3> HIDE DEF I
    <3> QED BY <2>1, LessIsWellFounded, WFMin, Zenon
  <2>3. n \in 1 .. Len(ts) /\ ts[n] = "/*" /\ Len(ts) \in Nat
    OBVIOUS
  <2>4. \A i \in 1 .. n - 1 : i \in 1 .. Len(ts) /\ ts[i] # "/*"
    <3> TAKE i \in 1 .. n - 1
    <3>1. i \in 1 .. Len(ts) /\ <<i, n>> \in Less
      BY <2>3 DEF Less
    <3> QED BY <2>2, <3>1
  <2>5. Uncommented(ts) = SubSeq(ts, 1, n - 1)
    BY <1>2, <2>3, <2>4, FirstOf DEF Uncommented
  <2>6. \A i \in 1 .. n - 1 : ts[i] \in Token
    <3>1. \A i \in 1 .. Len(ts) : ts[i] \in Token \cup {"/*"}
      OBVIOUS
    <3> QED BY <2>4, <3>1
  <2>7. SubSeq(ts, 1, n - 1) \in Seq(Token)
    BY <2>3, <2>6, SubSeqProperties
  <2>8. ts \notin Seq(Token)
    BY <2>3, CommentIsNoToken
  <2> QED BY <2>5, <2>7, <2>8
<1> QED BY <1>1, <1>2

\* The tokens of good lines end in eof.
LEMMA TokensOfLines ==
    ASSUME NEW ls \in Seq(GoodLine)
    PROVE  /\ Tokens(ls) \in Seq(Token)
           /\ Len(Tokens(ls)) > 0
           /\ Tokens(ls)[Len(Tokens(ls))] = "eof"
<1> DEFINE ss == [i \in DOMAIN ls |-> ls[i].code]
<1>1. DOMAIN ls = 1 .. Len(ls) /\ Len(ls) \in Nat /\ \A i \in 1 .. Len(ls) : ls[i] \in GoodLine
  OBVIOUS
<1>2. \A l \in GoodLine : l.code \in Seq(Token \cup {"/*"})
  <2> TAKE l \in GoodLine
  <2>1. l \in [text : GoodText, code : Seq(Token \cup {"/*"})]
    BY Zenon DEF GoodLine
  <2> QED BY <2>1
<1>3. ss \in Seq(Seq(Token \cup {"/*"}))
  BY <1>1, <1>2
<1> DEFINE t == Uncommented(FlattenSeq(ss))
           e == <<"eof">>
<1>4. t \in Seq(Token)
  BY <1>3, FlattenType, UncommentedType
<1>5. e \in Seq(Token) /\ Len(e) > 0 /\ e[Len(e)] = "eof"
  BY Tokens0, Sequence1
<1>6. Tokens(ls) = t \o e
  BY DEF Tokens
<1> HIDE DEF t, e
<1>7. /\ t \o e \in Seq(Token) /\ Len(t \o e) \in 1 .. Len(t \o e)
      /\ (t \o e)[Len(t \o e)] = "eof"
  BY <1>4, <1>5, JoinedEnd, ZenonT(60)
<1>8. Len(Tokens(ls)) > 0
  BY <1>6, <1>7
<1> QED BY <1>6, <1>7, <1>8, Zenon

---------------------------------------------------------------------------
\* Depth.

\* A set of positions has a last one.
LEMMA Greatest ==
    ASSUME NEW N \in Nat, NEW C, C \subseteq 1 .. N, C # {}
    PROVE  \E m \in C : \A i \in C : i <= m
<1> DEFINE T == {n \in Nat : N - n \in C}
<1>1. T \subseteq Nat
  OBVIOUS
<1>2. T # {}
  <2>1. PICK i \in C : TRUE
    OBVIOUS
  <2>2. N - i \in Nat /\ N - (N - i) = i
    BY <2>1
  <2>3. N - i \in T
    BY <2>1, <2>2
  <2> QED BY <2>3
<1> HIDE DEF T
<1>3. PICK x \in T : \A y \in T : ~(<<y, x>> \in Less)
  BY <1>1, <1>2, LessIsWellFounded, WFMin, Zenon
<1>4. x \in Nat /\ N - x \in C
  BY <1>3 DEF T
<1>5. \A i \in C : i <= N - x
  <2> SUFFICES ASSUME NEW i \in C, ~(i <= N - x) PROVE FALSE
    OBVIOUS
  <2>1. N - i \in Nat /\ N - (N - i) = i /\ N - i < x
    BY <1>4
  <2>2. N - i \in T
    BY <2>1 DEF T
  <2>3. <<N - i, x>> \in Less
    BY <1>4, <2>1 DEF Less
  <2> QED BY <1>3, <2>2, <2>3
<1> QED BY <1>4, <1>5

\* The tokens of a kind are finitely many.
LEMMA CountFacts ==
    ASSUME NEW T, NEW ts \in Seq(T), NEW t
    PROVE  /\ IsFiniteSet({i \in DOMAIN ts : ts[i] = t})
           /\ Count(ts, t) \in Nat
           /\ Count(ts, t) = 0 <=> \A i \in 1 .. Len(ts) : ts[i] # t
<1> DEFINE C == {i \in DOMAIN ts : ts[i] = t}
<1>1. DOMAIN ts = 1 .. Len(ts) /\ Len(ts) \in Nat
  OBVIOUS
<1>2. C \subseteq 1 .. Len(ts)
  BY <1>1
<1>3. IsFiniteSet(1 .. Len(ts))
  BY <1>1, FS_Interval
<1>4. IsFiniteSet(C)
  BY <1>2, <1>3, FS_Subset
<1>5. Count(ts, t) \in Nat
  BY <1>4, FS_CardinalityType DEF Count
<1>6. Count(ts, t) = 0 <=> C = {}
  BY <1>4, FS_EmptySet DEF Count
<1>7. C = {} <=> \A i \in 1 .. Len(ts) : ts[i] # t
  BY <1>1
<1> QED BY <1>4, <1>5, <1>6, <1>7

\* A part of a text has at most as many tokens of a kind as the whole.
LEMMA CountOfPart ==
    ASSUME NEW T, NEW ts \in Seq(T), NEW t, NEW m \in 1 .. Len(ts)
    PROVE  /\ Count(SubSeq(ts, 1, m), t) <= Count(ts, t)
           /\ (\A i \in 1 .. Len(ts) : ts[i] = t => i <= m) =>
                 Count(SubSeq(ts, 1, m), t) = Count(ts, t)
           /\ Count(SubSeq(ts, 1, m), t) \in Nat
<1> DEFINE C == {i \in DOMAIN ts : ts[i] = t}
           p == SubSeq(ts, 1, m)
           D == {i \in DOMAIN p : p[i] = t}
<1>1. DOMAIN ts = 1 .. Len(ts) /\ Len(ts) \in Nat
  OBVIOUS
<1>2. p \in Seq(T) /\ Len(p) = m /\ \A i \in 1 .. m : p[i] = ts[i]
  <2>1. \A i \in 1 .. m : ts[i] \in T
    BY <1>1
  <2>2. m \in Int /\ 1 \in Int /\ 1 <= m /\ m - 1 + 1 = m
    BY <1>1
  <2> QED BY <2>1, <2>2, SubSeqProperties
<1>3. DOMAIN p = 1 .. m
  BY <1>2
<1>4. D = {i \in 1 .. m : ts[i] = t}
  BY <1>2, <1>3
<1>5. D \subseteq C
  BY <1>1, <1>4
<1>6. IsFiniteSet(C)
  BY CountFacts
<1>7. Count(p, t) <= Count(ts, t) /\ Count(p, t) \in Nat
  <2>1. Count(ts, t) = Cardinality(C) /\ Count(p, t) = Cardinality(D)
    BY Zenon DEF Count
  <2>2. Count(p, t) \in Nat
    BY <1>2, CountFacts, Zenon
  <2> HIDE DEF C, D
  <2>3. Cardinality(D) <= Cardinality(C)
    BY <1>5, <1>6, FS_Subset, Zenon
  <2> QED BY <2>1, <2>2, <2>3, Zenon
<1>8. (\A i \in 1 .. Len(ts) : ts[i] = t => i <= m) => D = C
  BY <1>1, <1>4
<1> QED BY <1>7, <1>8 DEF Count

\* When the depth is positive behind every closing token, it is so in the end.
LEMMA DepthStays ==
    ASSUME NEW T, NEW ts \in Seq(T), NEW d \in Nat, NEW o, NEW c,
           d > 0 \/ \E i \in 1 .. Len(ts) : ts[i] = o,
           \A i \in 1 .. Len(ts) : ts[i] = c =>
               ~(d + Count(SubSeq(ts, 1, i), o) - Count(SubSeq(ts, 1, i), c) <= 0)
    PROVE  d + Count(ts, o) - Count(ts, c) \in Nat /\ d + Count(ts, o) - Count(ts, c) > 0
<1> DEFINE C == {i \in 1 .. Len(ts) : ts[i] = c}
<1>1. DOMAIN ts = 1 .. Len(ts) /\ Len(ts) \in Nat
  OBVIOUS
<1>2. Count(ts, o) \in Nat /\ Count(ts, c) \in Nat
  BY CountFacts
<1>3. CASE C = {}
  <2>1. Count(ts, c) = 0
    BY <1>3, CountFacts
  <2>2. d = 0 => Count(ts, o) # 0
    <3>1. (\E i \in 1 .. Len(ts) : ts[i] = o) => Count(ts, o) # 0
      BY CountFacts, Zenon
    <3>2. d = 0 => ~(d > 0)
      OBVIOUS
    <3> QED BY <3>1, <3>2, Zenon
  <2>3. \A x, y \in Nat : (x = 0 => y # 0) => x + y - 0 \in Nat /\ x + y - 0 > 0
    OBVIOUS
  <2> QED BY <1>2, <2>1, <2>2, <2>3, Zenon
<1>4. CASE C # {}
  <2>1. PICK m \in C : \A i \in C : i <= m
    BY <1>1, <1>4, Greatest
  <2>2. m \in 1 .. Len(ts) /\ ts[m] = c
    OBVIOUS
  <2> DEFINE p == SubSeq(ts, 1, m)
  <2>3. Count(p, c) = Count(ts, c)
    BY <2>1, <2>2, CountOfPart
  <2>4. Count(p, o) <= Count(ts, o) /\ Count(p, o) \in Nat
    BY <2>2, CountOfPart
  <2>5. ~(d + Count(p, o) - Count(p, c) <= 0)
    BY <2>2
  <2> HIDE DEF p
  <2> QED BY <1>2, <2>3, <2>4, <2>5
<1> QED BY <1>3, <1>4

\* A template that a line does not close is still open behind it: the depth of
\* its braces is positive.
LEMMA StaysOpen ==
    ASSUME NEW T, NEW ts \in Seq(T), NEW d \in Nat, ~Closes(d, ts),
           d > 0 \/ \E i \in 1 .. Len(ts) : ts[i] = "{"
    PROVE  DepthAfter(d, ts) \in Nat /\ DepthAfter(d, ts) > 0
<1>1. DOMAIN ts = 1 .. Len(ts)
  BY Zenon, LenProperties
<1>2. \A i \in 1 .. Len(ts) : ts[i] = "}" =>
         ~(d + Count(SubSeq(ts, 1, i), "{") - Count(SubSeq(ts, 1, i), "}") <= 0)
  BY <1>1, Zenon DEF Closes, DepthAfter
<1> QED BY <1>2, DepthStays, Zenon DEF DepthAfter

---------------------------------------------------------------------------
\* The inductive invariant of the readers' types.

\* Within a template some brace of it is open, and outside nothing is kept.
GoodCurrent(c) ==
    /\ c = [name |-> c.name, inputs |-> c.inputs, depth |-> c.depth]
    /\ c.depth \in Nat
    /\ c.name = <<>> => c = Outside
    /\ c.name # <<>> => c.depth > 0

ScanOK ==
    /\ stage \in {"templates", "components", "parser", "done"}
    /\ at \in 1 .. (Len(lines) + 1)
    /\ GoodCurrent(current)
    /\ at = 1 \/ stage \in {"parser", "done"} => current = Outside

\* The parser has a place, a mode and a depth.
Placed(p) == {"pos", "mode", "depth"} \subseteq DOMAIN p

\* Every brace or parenthesis the parser counts is a token it has passed.
GoodParser(p) ==
    /\ Placed(p)
    /\ p.pos \in 1 .. Len(Stream)
    /\ p.depth \in 0 .. p.pos
    /\ p.mode \in {"fields", "field name", "field rest"} => p.depth > 0

TextOK == source \in Sources /\ lines = Lines(source)
SInv == TextOK /\ ScanOK /\ GoodParser(parser)

LEMMA TextFacts ==
    ASSUME TextOK
    PROVE  /\ lines \in Seq(GoodLine) /\ Len(lines) \in Nat
           /\ Len(Stream) \in Nat /\ Len(Stream) > 0 /\ Stream[Len(Stream)] = "eof"
           /\ \A i \in 1 .. Len(lines) : lines[i].text \in GoodText
<1>1. lines \in Seq(GoodLine)
  BY LinesAreGood DEF TextOK
<1>2. Len(lines) \in Nat /\ \A i \in 1 .. Len(lines) : lines[i] \in GoodLine
  BY <1>1
<1>3. \A l \in GoodLine : l.text \in GoodText
  BY LinesHaveText
<1>4. Stream \in Seq(Token) /\ Len(Stream) > 0 /\ Stream[Len(Stream)] = "eof"
  BY <1>1, TokensOfLines, Zenon DEF Stream
<1>5. Len(Stream) \in Nat
  BY <1>4, LenProperties, Zenon
<1>6. \A i \in 1 .. Len(lines) : lines[i].text \in GoodText
  BY <1>2, <1>3
<1> QED BY <1>1, <1>2, <1>4, <1>5, <1>6, Zenon

\* bump goes on and stays within the stream.
LEMMA BumpedFacts ==
    ASSUME TextOK, GoodParser(parser), NEW n \in {1, 2}
    PROVE  /\ Bumped(n) \in 1 .. Len(Stream) /\ parser.pos <= Bumped(n)
           /\ Peek # "eof" => parser.pos + 1 <= Bumped(n)
           /\ parser.pos \in Nat /\ Bumped(n) \in Nat
<1>1. Len(Stream) \in Nat
  BY TextFacts, Zenon
<1>2. Peek # "eof" => parser.pos # Len(Stream)
  BY TextFacts, Zenon DEF Peek
<1>3. parser.pos \in 1 .. Len(Stream)
  BY DEF GoodParser
<1> QED BY <1>1, <1>2, <1>3 DEF Bumped

\* A template is entered on a line with an opening brace.
LEMMA EnteredFacts ==
    ASSUME GoodCurrent(current), Text \in GoodText, NEW m
    PROVE  LET c == Entered(Opening(m))
           IN  /\ c = [name |-> c.name, inputs |-> c.inputs, depth |-> c.depth]
               /\ c.depth \in Nat
               /\ c.name = <<>> => c = Outside
               /\ c.name # <<>> => c.depth > 0 \/ \E i \in 1 .. Len(Text) : Text[i] = "{"
<1> DEFINE c == Entered(Opening(m))
<1>1. CASE Inside
  <2>1. c = current
    BY <1>1, Zenon DEF Entered
  <2> QED BY <1>1, <2>1, Zenon DEF GoodCurrent
<1>2. CASE ~Inside
  <2>1. c = [Outside EXCEPT !.name = Opening(m)]
    BY <1>2, Zenon DEF Entered
  <2>2. c = [name |-> Opening(m), inputs |-> <<>>, depth |-> 0]
    BY <2>1 DEF Outside
  <2>3. CASE Opening(m) = <<>>
    BY <2>2, <2>3 DEF Outside
  <2>4. CASE Opening(m) # <<>>
    <3>1. Head(Text) = "template"
      BY <1>2, <2>4, Zenon DEF Opening
    <3>2. Text \in Seq(Token) /\ Text # <<>>
      BY Zenon DEF GoodText
    <3>3. Head(Text) = Text[1]
      BY <3>2
    <3>4. \E i \in 1 .. Len(Text) : Text[i] = "{"
      BY <3>1, <3>3, Zenon DEF GoodText
    <3>5. c.name = Opening(m) /\ c.inputs = <<>> /\ c.depth = 0 /\ 0 \in Nat
      BY <2>2
    <3>6. c = [name |-> c.name, inputs |-> c.inputs, depth |-> c.depth]
      BY <2>2, <3>5
    <3> QED BY <2>4, <3>4, <3>5, <3>6, Zenon
  <2> QED BY <2>3, <2>4
<1> QED BY <1>1, <1>2

LEMMA CurrentFields ==
    ASSUME NEW r, NEW a, NEW b, NEW x, r = [name |-> a, inputs |-> b, depth |-> x]
    PROVE  /\ r.name = a /\ r.inputs = b /\ r.depth = x
           /\ r = [name |-> r.name, inputs |-> r.inputs, depth |-> r.depth]
OBVIOUS

\* Behind a line a template is left or some brace of it is still open.
LEMMA LeftFacts ==
    ASSUME Text \in GoodText, NEW c,
           c = [name |-> c.name, inputs |-> c.inputs, depth |-> c.depth],
           c.depth \in Nat, c.name # <<>>, ~Closes(c.depth, Text),
           c.depth > 0 \/ \E i \in 1 .. Len(Text) : Text[i] = "{"
    PROVE  GoodCurrent(Left(c))
<1>1. Text \in Seq(Token)
  BY Zenon DEF GoodText
<1>2. DepthAfter(c.depth, Text) \in Nat /\ DepthAfter(c.depth, Text) > 0
  BY <1>1, StaysOpen, Zenon
<1> DEFINE n == DepthAfter(c.depth, Text)
<1>3. Left(c) = [c EXCEPT !.depth = n]
  BY Zenon DEF Left
<1> HIDE DEF n
<1> DEFINE l == Left(c)
           nm == c.name
           ip == c.inputs
<1>4. l = [name |-> nm, inputs |-> ip, depth |-> n] /\ nm # <<>>
  BY <1>3
<1>5. n \in Nat /\ n > 0
  BY <1>2 DEF n
<1> HIDE DEF l, nm, ip
<1>6. /\ l.name = nm /\ l.depth = n
      /\ l = [name |-> l.name, inputs |-> l.inputs, depth |-> l.depth]
  BY <1>4, CurrentFields
<1>7. GoodCurrent(l)
  BY <1>4, <1>5, <1>6, Zenon DEF GoodCurrent
<1> QED BY <1>7 DEF l

\* A step of the parser keeps the text and the scanners' state.
LEMMA ParsesKeeps ==
    ASSUME SInv, NEW p, Parses(p), GoodParser(p)
    PROVE  SInv'
<1>1. UNCHANGED <<source, lines, stage, at, current>> /\ parser' = p
  BY Zenon DEF Parses
<1>2. TextOK' /\ ScanOK'
  BY <1>1 DEF SInv, TextOK, ScanOK, GoodCurrent
<1>3. Stream' = Stream
  BY <1>1 DEF Stream
<1>4. GoodParser(parser)'
  BY <1>1, <1>3 DEF GoodParser, Placed
<1> QED BY <1>2, <1>4 DEF SInv

\* The readers start within the text.
LEMMA SInit == Init => SInv
<1> SUFFICES ASSUME Init PROVE SInv
  OBVIOUS
<1>1. TextOK
  BY DEF Init, TextOK
<1>2. Len(lines) \in Nat /\ Len(Stream) \in Nat /\ Len(Stream) > 0
  BY <1>1, TextFacts, Zenon
<1>3. ScanOK
  BY <1>2 DEF Init, ScanOK, GoodCurrent, Outside
<1>4. GoodParser(parser)
  <2>1. parser = [pos |-> 1, mode |-> "top", kind |-> "", name |-> "", members |-> <<>>,
                  expected |-> <<>>, depth |-> 0]
    BY DEF Init, Start
  <2>2. Placed(parser) /\ parser.pos = 1 /\ parser.mode = "top" /\ parser.depth = 0
    BY <2>1 DEF Placed
  <2>3. 1 \in 1 .. Len(Stream) /\ 0 \in 0 .. 1
    BY <1>2
  <2>4. parser.mode \notin {"fields", "field name", "field rest"}
    BY <2>2
  <2> QED BY <2>2, <2>3, <2>4, Zenon DEF GoodParser
<1> QED BY <1>1, <1>3, <1>4 DEF SInv

\* A step of a line scanner.
LEMMA ScanStep == SInv /\ Scan => SInv'
<1> SUFFICES ASSUME SInv, Scan PROVE SInv'
  OBVIOUS
<1>0. TextOK /\ ScanOK /\ GoodCurrent(current)
  BY DEF SInv, ScanOK
<1>1. Len(lines) \in Nat /\ \A i \in 1 .. Len(lines) : lines[i].text \in GoodText
  BY <1>0, TextFacts, Zenon
<1>2. UNCHANGED <<source, lines, parser>>
  BY DEF Scan, ScanTemplate, EndTemplates, ScanComponent, EndComponents
<1>3. TextOK' /\ GoodParser(parser)'
  BY <1>2 DEF SInv, TextOK, GoodParser, Placed, Stream
<1>4. ASSUME at <= Len(lines) PROVE Text \in GoodText
  BY <1>0, <1>1, <1>4 DEF ScanOK, Text
<1>5. ASSUME at <= Len(lines), at' = at + 1, UNCHANGED <<lines, stage>>,
             stage \in {"templates", "components"}, GoodCurrent(current')
      PROVE  ScanOK'
  <2>1. at \in Nat /\ at >= 1
    BY <1>0 DEF ScanOK
  <2> QED BY <1>0, <1>1, <1>5, <2>1 DEF ScanOK, GoodCurrent
<1>6. GoodCurrent(Outside)
  BY DEF GoodCurrent, Outside
<1>7. CASE ScanTemplate
  <2>1. at <= Len(lines) /\ Text \in GoodText
    BY <1>4, <1>7 DEF ScanTemplate
  <2> DEFINE e == Entered(Opening(Unmodified(Tail(Text))))
             c == IF e.name # <<>> /\ Head(Text) = "signal input"
                  THEN [e EXCEPT !.inputs = Append(@, Text[2])] ELSE e
             opened == \E i \in 1 .. Len(Text) : Text[i] = "{"
  <2>2. /\ e = [name |-> e.name, inputs |-> e.inputs, depth |-> e.depth]
        /\ e.depth \in Nat
        /\ e.name = <<>> => e = Outside
        /\ e.name # <<>> => e.depth > 0 \/ opened
    BY <1>0, <2>1, EnteredFacts, Zenon
  <2>3. /\ current' = IF c.name # <<>> /\ Closes(c.depth, Text) THEN Outside
                      ELSE IF c.name = <<>> THEN c ELSE Left(c)
    BY <1>7 DEF ScanTemplate
  <2> HIDE DEF e, opened
  <2>4. /\ c = [name |-> c.name, inputs |-> c.inputs, depth |-> c.depth]
        /\ c.depth \in Nat
        /\ c.name = <<>> => c = Outside
        /\ c.name # <<>> => c.depth > 0 \/ opened
    <3>1. CASE e.name # <<>> /\ Head(Text) = "signal input"
      <4> DEFINE x == Append(e.inputs, Text[2])
      <4>1. c = [e EXCEPT !.inputs = x]
        BY <3>1
      <4> HIDE DEF x
      <4>2. c = [name |-> e.name, inputs |-> x, depth |-> e.depth]
        BY <2>2, <4>1
      <4> HIDE DEF c
      <4>3. c.name = e.name /\ c.inputs = x /\ c.depth = e.depth
        BY <4>2
      <4> QED BY <2>2, <3>1, <4>2, <4>3, Zenon
    <3>2. CASE ~(e.name # <<>> /\ Head(Text) = "signal input")
      BY <2>2, <3>2, Zenon
    <3> QED BY <3>1, <3>2
  <2> HIDE DEF c
  <2>5. GoodCurrent(current')
    <3>1. CASE c.name # <<>> /\ Closes(c.depth, Text)
      BY <1>6, <2>3, <3>1, Zenon
    <3>2. CASE c.name = <<>>
      BY <1>6, <2>3, <2>4, <3>2, Zenon
    <3>3. CASE c.name # <<>> /\ ~Closes(c.depth, Text)
      <4>1. GoodCurrent(Left(c))
        BY <2>1, <2>4, <3>3, LeftFacts, Zenon DEF opened
      <4> QED BY <2>3, <3>3, <4>1, Zenon
    <3> QED BY <3>1, <3>2, <3>3, Zenon
  <2>6. at' = at + 1 /\ UNCHANGED <<lines, stage>> /\ stage \in {"templates", "components"}
    BY <1>7 DEF ScanTemplate
  <2>7. ScanOK'
    BY <1>5, <2>1, <2>5, <2>6, Zenon
  <2> QED BY <1>3, <2>7 DEF SInv
<1>8. CASE ScanComponent
  <2>1. at <= Len(lines) /\ Text \in GoodText
    BY <1>4, <1>8 DEF ScanComponent
  <2> DEFINE c == Entered(Opening(Tail(Text)))
             opened == \E i \in 1 .. Len(Text) : Text[i] = "{"
  <2>2. /\ c = [name |-> c.name, inputs |-> c.inputs, depth |-> c.depth]
        /\ c.depth \in Nat
        /\ c.name = <<>> => c = Outside
        /\ c.name # <<>> => c.depth > 0 \/ opened
    BY <1>0, <2>1, EnteredFacts, Zenon
  <2>3. current' = IF c.name = <<>> \/ Closes(c.depth, Text) THEN Outside ELSE Left(c)
    BY <1>8 DEF ScanComponent
  <2> HIDE DEF c, opened
  <2>4. GoodCurrent(current')
    <3>1. CASE c.name = <<>> \/ Closes(c.depth, Text)
      BY <1>6, <2>3, <3>1, Zenon
    <3>2. CASE c.name # <<>> /\ ~Closes(c.depth, Text)
      <4>1. GoodCurrent(Left(c))
        BY <2>1, <2>2, <3>2, LeftFacts, Zenon DEF opened
      <4> QED BY <2>3, <3>2, <4>1, Zenon
    <3> QED BY <3>1, <3>2, Zenon
  <2>5. at' = at + 1 /\ UNCHANGED <<lines, stage>> /\ stage \in {"templates", "components"}
    BY <1>8 DEF ScanComponent
  <2>6. ScanOK'
    BY <1>5, <2>1, <2>4, <2>5, Zenon
  <2> QED BY <1>3, <2>6 DEF SInv
<1>9. CASE EndTemplates
  <2>1. at' = 1 /\ current' = Outside /\ stage' = "components" /\ lines' = lines
    BY <1>9 DEF EndTemplates
  <2>2. ScanOK'
    BY <1>1, <1>6, <2>1 DEF ScanOK
  <2> QED BY <1>3, <2>2 DEF SInv
<1>10. CASE EndComponents
  <2>1. at' = at /\ current' = Outside /\ stage' = "parser" /\ lines' = lines
    BY <1>10 DEF EndComponents
  <2>2. ScanOK'
    BY <1>0, <1>6, <2>1 DEF ScanOK
  <2> QED BY <1>3, <2>2 DEF SInv
<1> QED BY <1>7, <1>8, <1>9, <1>10 DEF Scan

LEMMA PlacedIsGood ==
    ASSUME NEW p, Placed(p), NEW pos \in 1 .. Len(Stream), NEW depth \in 0 .. pos,
           p.pos = pos, p.depth = depth,
           p.mode \in {"fields", "field name", "field rest"} => depth > 0
    PROVE  GoodParser(p)
BY Zenon DEF GoodParser

\* A step of the parser: it goes on by one or two tokens or stays, and a brace it
\* counts is a token it goes past.
LEMMA ParserStep == SInv /\ (ParseTop \/ ParseBody \/ ParseBus) => SInv'
<1> SUFFICES ASSUME SInv, ParseTop \/ ParseBody \/ ParseBus PROVE SInv'
  OBVIOUS
<1>1. TextOK /\ GoodParser(parser) /\ Placed(parser)
  BY DEF SInv, GoodParser
<1> DEFINE one == Bumped(1)
           two == Bumped(2)
           pos == parser.pos
           depth == parser.depth
<1>2. /\ one \in 1 .. Len(Stream) /\ pos <= one
      /\ two \in 1 .. Len(Stream) /\ pos <= two
      /\ Peek # "eof" => pos + 1 <= one /\ pos + 1 <= two
      /\ pos \in Nat /\ one \in Nat /\ two \in Nat
      /\ pos \in 1 .. Len(Stream) /\ depth \in 0 .. pos
  BY <1>1, BumpedFacts, Zenon DEF GoodParser
<1>3. parser.mode \in {"fields", "field name", "field rest"} => depth > 0
  BY <1>1, Zenon DEF GoodParser
<1> HIDE DEF one, two, pos, depth
<1>4. /\ depth \in 0 .. pos /\ depth \in 0 .. one /\ depth \in 0 .. two
      /\ 1 \in 0 .. one /\ 0 \in 0 .. one /\ 1 \in 0 .. pos
      /\ Peek # "eof" => depth + 1 \in 0 .. one /\ depth + 1 \in 0 .. two
      /\ depth > 0 => depth - 1 \in 0 .. one
      /\ depth > 0 /\ depth # 1 => depth - 1 > 0
      /\ depth > 1 => depth > 0 /\ depth # 1
      /\ depth + 1 > 0 /\ 1 > 0
  BY <1>2
<1>5. CASE TopDefinition
  <2> DEFINE p1 == [Start EXCEPT !.pos = Bumped(1), !.kind = "template", !.mode = "modifiers",
                                 !.expected = <<>>, !.depth = 0]
             p2 == [Start EXCEPT !.pos = Bumped(1), !.kind = "function", !.mode = "expect",
                                 !.expected = <<"name", "(", ")", "{">>, !.depth = 1]
             p3 == [Start EXCEPT !.pos = Bumped(1), !.kind = "bus", !.mode = "bus name",
                                 !.expected = <<>>, !.depth = 0]
  <2>1. \/ Parses(p1)
        \/ Parses(p2)
        \/ Parses(p3)
    BY <1>5 DEF TopDefinition, Reads, depth, Begin
  <2>2. Placed(p1) /\ p1.pos = one /\ p1.depth = 0 /\ p1.mode = "modifiers"
    BY <1>1 DEF Placed, one, two, pos, depth, Start
  <2>3. GoodParser(p1)
    <3>1. p1.mode \notin {"fields", "field name", "field rest"}
      BY <2>2
    <3> HIDE DEF p1
    <3> QED BY <1>2, <1>4, <2>2, <3>1, PlacedIsGood, Zenon
  <2>4. Placed(p2) /\ p2.pos = one /\ p2.depth = 1 /\ p2.mode = "expect"
    BY <1>1 DEF Placed, one, two, pos, depth, Start
  <2>5. GoodParser(p2)
    <3>1. p2.mode \notin {"fields", "field name", "field rest"}
      BY <2>4
    <3> HIDE DEF p2
    <3> QED BY <1>2, <1>4, <2>4, <3>1, PlacedIsGood, Zenon
  <2>6. Placed(p3) /\ p3.pos = one /\ p3.depth = 0 /\ p3.mode = "bus name"
    BY <1>1 DEF Placed, one, two, pos, depth, Start
  <2>7. GoodParser(p3)
    <3>1. p3.mode \notin {"fields", "field name", "field rest"}
      BY <2>6
    <3> HIDE DEF p3
    <3> QED BY <1>2, <1>4, <2>6, <3>1, PlacedIsGood, Zenon
  <2> HIDE DEF p1, p2, p3
  <2> QED BY <2>1, <2>3, <2>5, <2>7, ParsesKeeps, Zenon
<1>6. CASE TopDirective
  <2> DEFINE p == [parser EXCEPT !.mode = "eat"]
  <2>1. Parses(p)
    BY <1>6 DEF TopDirective, Reads, depth
  <2>2. Placed(p) /\ p.pos = pos /\ p.depth = depth /\ p.mode = "eat"
    BY <1>1 DEF Placed, one, two, pos, depth
  <2>3. GoodParser(p)
    <3>1. p.mode \notin {"fields", "field name", "field rest"}
      BY <2>2
    <3> HIDE DEF p
    <3> QED BY <1>2, <1>4, <2>2, <3>1, PlacedIsGood, Zenon
  <2> HIDE DEF p
  <2> QED BY <2>1, <2>3, ParsesKeeps, Zenon
<1>7. CASE EatDirective
  <2> DEFINE p1 == [parser EXCEPT !.pos = IF Peek = ";" THEN Bumped(1) ELSE @,
                                  !.mode = "top"]
             p2 == [parser EXCEPT !.pos = Bumped(1)]
  <2>1. \/ Parses(p1)
        \/ Parses(p2)
    BY <1>7 DEF EatDirective, Reads, depth
  <2>2. Placed(p1) /\ p1.pos = (IF Peek = ";" THEN one ELSE pos) /\ p1.depth = depth /\ p1.mode = "top"
    BY <1>1 DEF Placed, one, two, pos, depth
  <2>3. GoodParser(p1)
    <3>1. p1.mode \notin {"fields", "field name", "field rest"}
      BY <2>2
    <3> HIDE DEF p1
    <3> QED BY <1>2, <1>4, <2>2, <3>1, PlacedIsGood, Zenon
  <2>4. Placed(p2) /\ p2.pos = one /\ p2.depth = depth /\ p2.mode = parser.mode
    BY <1>1 DEF Placed, one, two, pos, depth
  <2>5. GoodParser(p2)
    <3> HIDE DEF p2
    <3> QED BY <1>2, <1>3, <1>4, <2>4, PlacedIsGood, Zenon
  <2> HIDE DEF p1, p2
  <2> QED BY <2>1, <2>3, <2>5, ParsesKeeps, Zenon
<1>8. CASE TopOther
  <2> DEFINE p == [parser EXCEPT !.pos = Bumped(1)]
  <2>1. Parses(p)
    BY <1>8 DEF TopOther, Reads, depth
  <2>2. Placed(p) /\ p.pos = one /\ p.depth = depth /\ p.mode = parser.mode
    BY <1>1 DEF Placed, one, two, pos, depth
  <2>3. GoodParser(p)
    <3> HIDE DEF p
    <3> QED BY <1>2, <1>3, <1>4, <2>2, PlacedIsGood, Zenon
  <2> HIDE DEF p
  <2> QED BY <2>1, <2>3, ParsesKeeps, Zenon
<1>9. CASE Skip
  <2> DEFINE p1 == [parser EXCEPT !.mode = "top"]
             p2 == [parser EXCEPT !.pos = Bumped(1)]
  <2>1. \/ Parses(p1)
        \/ Parses(p2)
    BY <1>9 DEF Skip, Reads, depth
  <2>2. Placed(p1) /\ p1.pos = pos /\ p1.depth = depth /\ p1.mode = "top"
    BY <1>1 DEF Placed, one, two, pos, depth
  <2>3. GoodParser(p1)
    <3>1. p1.mode \notin {"fields", "field name", "field rest"}
      BY <2>2
    <3> HIDE DEF p1
    <3> QED BY <1>2, <1>4, <2>2, <3>1, PlacedIsGood, Zenon
  <2>4. Placed(p2) /\ p2.pos = one /\ p2.depth = depth /\ p2.mode = parser.mode
    BY <1>1 DEF Placed, one, two, pos, depth
  <2>5. GoodParser(p2)
    <3> HIDE DEF p2
    <3> QED BY <1>2, <1>3, <1>4, <2>4, PlacedIsGood, Zenon
  <2> HIDE DEF p1, p2
  <2> QED BY <2>1, <2>3, <2>5, ParsesKeeps, Zenon
<1>10. CASE SkipModifier
  <2> DEFINE p1 == [parser EXCEPT !.pos = Bumped(1)]
             p2 == [parser EXCEPT !.mode = "expect", !.expected = <<"name", "(", ")", "{">>, !.depth = 1]
  <2>1. \/ Parses(p1)
        \/ Parses(p2)
    BY <1>10 DEF SkipModifier, Reads, depth
  <2>2. Placed(p1) /\ p1.pos = one /\ p1.depth = depth /\ p1.mode = parser.mode
    BY <1>1 DEF Placed, one, two, pos, depth
  <2>3. GoodParser(p1)
    <3> HIDE DEF p1
    <3> QED BY <1>2, <1>3, <1>4, <2>2, PlacedIsGood, Zenon
  <2>4. Placed(p2) /\ p2.pos = pos /\ p2.depth = 1 /\ p2.mode = "expect"
    BY <1>1 DEF Placed, one, two, pos, depth
  <2>5. GoodParser(p2)
    <3>1. p2.mode \notin {"fields", "field name", "field rest"}
      BY <2>4
    <3> HIDE DEF p2
    <3> QED BY <1>2, <1>4, <2>4, <3>1, PlacedIsGood, Zenon
  <2> HIDE DEF p1, p2
  <2> QED BY <2>1, <2>3, <2>5, ParsesKeeps, Zenon
<1>11. CASE ExpectToken
  <2> DEFINE p1 == [parser EXCEPT !.pos = Bumped(1), !.expected = Tail(@),
                                  !.name = IF Head(parser.expected) = "name" THEN Peek ELSE @]
             p2 == [parser EXCEPT !.expected = Tail(@)]
             p3 == [parser EXCEPT !.mode = "skip"]
  <2>1. \/ Parses(p1)
        \/ Parses(p2)
        \/ Parses(p3)
    BY <1>11 DEF ExpectToken, Reads, depth, Fails
  <2>2. Placed(p1) /\ p1.pos = one /\ p1.depth = depth /\ p1.mode = parser.mode
    BY <1>1 DEF Placed, one, two, pos, depth
  <2>3. GoodParser(p1)
    <3> HIDE DEF p1
    <3> QED BY <1>2, <1>3, <1>4, <2>2, PlacedIsGood, Zenon
  <2>4. Placed(p2) /\ p2.pos = pos /\ p2.depth = depth /\ p2.mode = parser.mode
    BY <1>1 DEF Placed, one, two, pos, depth
  <2>5. GoodParser(p2)
    <3> HIDE DEF p2
    <3> QED BY <1>2, <1>3, <1>4, <2>4, PlacedIsGood, Zenon
  <2>6. Placed(p3) /\ p3.pos = pos /\ p3.depth = depth /\ p3.mode = "skip"
    BY <1>1 DEF Placed, one, two, pos, depth
  <2>7. GoodParser(p3)
    <3>1. p3.mode \notin {"fields", "field name", "field rest"}
      BY <2>6
    <3> HIDE DEF p3
    <3> QED BY <1>2, <1>4, <2>6, <3>1, PlacedIsGood, Zenon
  <2> HIDE DEF p1, p2, p3
  <2> QED BY <2>1, <2>3, <2>5, <2>7, ParsesKeeps, Zenon
<1>12. CASE ExpectedSeen
  <2> DEFINE p == [parser EXCEPT !.mode = "body"]
  <2>1. Parses(p)
    BY <1>12 DEF ExpectedSeen, Reads, depth
  <2>2. Placed(p) /\ p.pos = pos /\ p.depth = depth /\ p.mode = "body"
    BY <1>1 DEF Placed, one, two, pos, depth
  <2>3. GoodParser(p)
    <3>1. p.mode \notin {"fields", "field name", "field rest"}
      BY <2>2
    <3> HIDE DEF p
    <3> QED BY <1>2, <1>4, <2>2, <3>1, PlacedIsGood, Zenon
  <2> HIDE DEF p
  <2> QED BY <2>1, <2>3, ParsesKeeps, Zenon
<1>13. CASE Statement
  <2> DEFINE p1 == [parser EXCEPT !.pos = Bumped(1)]
             p2 == [parser EXCEPT !.pos = Bumped(2), !.depth = @ + 1]
             p3 == [parser EXCEPT !.pos = Bumped(2),
                                  !.members = IF parser.depth = 1
                                              THEN Append(@, Stream[parser.pos + 1]) ELSE @]
             p4 == [parser EXCEPT !.pos = Bumped(1), !.mode = "expect",
                                  !.expected = <<"part", "=", "part", "(", ")", ";">>]
             p5 == [parser EXCEPT !.mode = "skip"]
  <2>1. \/ Parses(p1)
        \/ Peek # "eof" /\ Parses(p2)
        \/ Parses(p3)
        \/ Parses(p4)
        \/ Parses(p5)
    BY <1>13 DEF Statement, Reads, depth, Fails
  <2>2. Placed(p1) /\ p1.pos = one /\ p1.depth = depth /\ p1.mode = parser.mode
    BY <1>1 DEF Placed, one, two, pos, depth
  <2>3. GoodParser(p1)
    <3> HIDE DEF p1
    <3> QED BY <1>2, <1>3, <1>4, <2>2, PlacedIsGood, Zenon
  <2>4. Placed(p2) /\ p2.pos = two /\ p2.depth = depth + 1 /\ p2.mode = parser.mode
    BY <1>1 DEF Placed, one, two, pos, depth
  <2>5. Peek # "eof" => GoodParser(p2)
    <3> HIDE DEF p2
    <3> QED BY <1>2, <1>3, <1>4, <2>4, PlacedIsGood, Zenon
  <2>6. Placed(p3) /\ p3.pos = two /\ p3.depth = depth /\ p3.mode = parser.mode
    BY <1>1 DEF Placed, one, two, pos, depth
  <2>7. GoodParser(p3)
    <3> HIDE DEF p3
    <3> QED BY <1>2, <1>3, <1>4, <2>6, PlacedIsGood, Zenon
  <2>8. Placed(p4) /\ p4.pos = one /\ p4.depth = depth /\ p4.mode = "expect"
    BY <1>1 DEF Placed, one, two, pos, depth
  <2>9. GoodParser(p4)
    <3>1. p4.mode \notin {"fields", "field name", "field rest"}
      BY <2>8
    <3> HIDE DEF p4
    <3> QED BY <1>2, <1>4, <2>8, <3>1, PlacedIsGood, Zenon
  <2>10. Placed(p5) /\ p5.pos = pos /\ p5.depth = depth /\ p5.mode = "skip"
    BY <1>1 DEF Placed, one, two, pos, depth
  <2>11. GoodParser(p5)
    <3>1. p5.mode \notin {"fields", "field name", "field rest"}
      BY <2>10
    <3> HIDE DEF p5
    <3> QED BY <1>2, <1>4, <2>10, <3>1, PlacedIsGood, Zenon
  <2> HIDE DEF p1, p2, p3, p4, p5
  <2> QED BY <2>1, <2>3, <2>5, <2>7, <2>9, <2>11, ParsesKeeps, Zenon
<1>14. CASE EndBlock
  <2> DEFINE p1 == [parser EXCEPT !.pos = Bumped(1), !.depth = @ - 1]
             p2 == Finish
  <2>1. \/ depth > 1 /\ Parses(p1)
        \/ Parses(p2)
    BY <1>14 DEF EndBlock, Reads, depth
  <2>2. Placed(p1) /\ p1.pos = one /\ p1.depth = depth - 1 /\ p1.mode = parser.mode
    BY <1>1 DEF Placed, one, two, pos, depth
  <2>3. depth > 1 => GoodParser(p1)
    <3> HIDE DEF p1
    <3> QED BY <1>2, <1>3, <1>4, <2>2, PlacedIsGood, Zenon
  <2>4. Placed(p2) /\ p2.pos = one /\ p2.depth = depth /\ p2.mode = "top"
    BY <1>1 DEF Placed, one, two, pos, depth, Finish
  <2>5. GoodParser(p2)
    <3>1. p2.mode \notin {"fields", "field name", "field rest"}
      BY <2>4
    <3> HIDE DEF p2
    <3> QED BY <1>2, <1>4, <2>4, <3>1, PlacedIsGood, Zenon
  <2> HIDE DEF p1, p2
  <2> QED BY <2>1, <2>3, <2>5, ParsesKeeps, Zenon
<1>15. CASE BusName
  <2> DEFINE p1 == [parser EXCEPT !.pos = Bumped(1), !.name = Peek, !.mode = "parens"]
             p2 == [parser EXCEPT !.mode = "top"]
  <2>1. \/ Parses(p1)
        \/ Parses(p2)
    BY <1>15 DEF BusName, Reads, depth
  <2>2. Placed(p1) /\ p1.pos = one /\ p1.depth = depth /\ p1.mode = "parens"
    BY <1>1 DEF Placed, one, two, pos, depth
  <2>3. GoodParser(p1)
    <3>1. p1.mode \notin {"fields", "field name", "field rest"}
      BY <2>2
    <3> HIDE DEF p1
    <3> QED BY <1>2, <1>4, <2>2, <3>1, PlacedIsGood, Zenon
  <2>4. Placed(p2) /\ p2.pos = pos /\ p2.depth = depth /\ p2.mode = "top"
    BY <1>1 DEF Placed, one, two, pos, depth
  <2>5. GoodParser(p2)
    <3>1. p2.mode \notin {"fields", "field name", "field rest"}
      BY <2>4
    <3> HIDE DEF p2
    <3> QED BY <1>2, <1>4, <2>4, <3>1, PlacedIsGood, Zenon
  <2> HIDE DEF p1, p2
  <2> QED BY <2>1, <2>3, <2>5, ParsesKeeps, Zenon
<1>16. CASE BusParameters
  <2> DEFINE p1 == [parser EXCEPT !.pos = Bumped(1), !.depth = @ + 1]
             p2 == [parser EXCEPT !.pos = Bumped(1), !.depth = @ - 1,
                                  !.mode = IF parser.depth = 1 THEN "bus body" ELSE @]
             p3 == [parser EXCEPT !.mode = "bus body"]
             p4 == [parser EXCEPT !.pos = Bumped(1)]
  <2>1. \/ Peek # "eof" /\ Parses(p1)
        \/ depth > 0 /\ parser.mode = "parens" /\ Parses(p2)
        \/ Parses(p3)
        \/ Parses(p4)
    BY <1>16 DEF BusParameters, Reads, depth, Reading
  <2>2. Placed(p1) /\ p1.pos = one /\ p1.depth = depth + 1 /\ p1.mode = parser.mode
    BY <1>1 DEF Placed, one, two, pos, depth
  <2>3. Peek # "eof" => GoodParser(p1)
    <3> HIDE DEF p1
    <3> QED BY <1>2, <1>3, <1>4, <2>2, PlacedIsGood, Zenon
  <2>4. Placed(p2) /\ p2.pos = one /\ p2.depth = depth - 1 /\ p2.mode = (IF depth = 1 THEN "bus body" ELSE parser.mode)
    BY <1>1 DEF Placed, one, two, pos, depth
  <2>5. depth > 0 /\ parser.mode = "parens" => GoodParser(p2)
    <3> HIDE DEF p2
    <3> QED BY <1>2, <1>3, <1>4, <2>4, PlacedIsGood, Zenon
  <2>6. Placed(p3) /\ p3.pos = pos /\ p3.depth = depth /\ p3.mode = "bus body"
    BY <1>1 DEF Placed, one, two, pos, depth
  <2>7. GoodParser(p3)
    <3>1. p3.mode \notin {"fields", "field name", "field rest"}
      BY <2>6
    <3> HIDE DEF p3
    <3> QED BY <1>2, <1>4, <2>6, <3>1, PlacedIsGood, Zenon
  <2>8. Placed(p4) /\ p4.pos = one /\ p4.depth = depth /\ p4.mode = parser.mode
    BY <1>1 DEF Placed, one, two, pos, depth
  <2>9. GoodParser(p4)
    <3> HIDE DEF p4
    <3> QED BY <1>2, <1>3, <1>4, <2>8, PlacedIsGood, Zenon
  <2> HIDE DEF p1, p2, p3, p4
  <2> QED BY <2>1, <2>3, <2>5, <2>7, <2>9, ParsesKeeps, Zenon
<1>17. CASE BusBody
  <2> DEFINE p1 == [parser EXCEPT !.pos = Bumped(1), !.depth = 1, !.mode = "fields"]
             p2 == [parser EXCEPT !.mode = "top"]
  <2>1. \/ Parses(p1)
        \/ Parses(p2)
    BY <1>17 DEF BusBody, Reads, depth
  <2>2. Placed(p1) /\ p1.pos = one /\ p1.depth = 1 /\ p1.mode = "fields"
    BY <1>1 DEF Placed, one, two, pos, depth
  <2>3. GoodParser(p1)
    <3> HIDE DEF p1
    <3> QED BY <1>2, <1>3, <1>4, <2>2, PlacedIsGood, Zenon
  <2>4. Placed(p2) /\ p2.pos = pos /\ p2.depth = depth /\ p2.mode = "top"
    BY <1>1 DEF Placed, one, two, pos, depth
  <2>5. GoodParser(p2)
    <3>1. p2.mode \notin {"fields", "field name", "field rest"}
      BY <2>4
    <3> HIDE DEF p2
    <3> QED BY <1>2, <1>4, <2>4, <3>1, PlacedIsGood, Zenon
  <2> HIDE DEF p1, p2
  <2> QED BY <2>1, <2>3, <2>5, ParsesKeeps, Zenon
<1>18. CASE BusField
  <2> DEFINE p1 == [parser EXCEPT !.mode = "top"]
             p2 == Finish
             p3 == [parser EXCEPT !.pos = Bumped(1), !.depth = IF Peek = "{" THEN @ + 1 ELSE @ - 1]
             p4 == [parser EXCEPT !.pos = Bumped(1), !.mode = "field name"]
             p5 == [parser EXCEPT !.pos = Bumped(1)]
  <2>1. \/ Parses(p1)
        \/ Parses(p2)
        \/ (Peek = "{" \/ depth # 1) /\ Peek # "eof" /\ parser.mode = "fields" /\ Parses(p3)
        \/ parser.mode = "fields" /\ Parses(p4)
        \/ Parses(p5)
    BY <1>18 DEF BusField, Reads, depth, Reading
  <2>2. Placed(p1) /\ p1.pos = pos /\ p1.depth = depth /\ p1.mode = "top"
    BY <1>1 DEF Placed, one, two, pos, depth
  <2>3. GoodParser(p1)
    <3>1. p1.mode \notin {"fields", "field name", "field rest"}
      BY <2>2
    <3> HIDE DEF p1
    <3> QED BY <1>2, <1>4, <2>2, <3>1, PlacedIsGood, Zenon
  <2>4. Placed(p2) /\ p2.pos = one /\ p2.depth = depth /\ p2.mode = "top"
    BY <1>1 DEF Placed, one, two, pos, depth, Finish
  <2>5. GoodParser(p2)
    <3>1. p2.mode \notin {"fields", "field name", "field rest"}
      BY <2>4
    <3> HIDE DEF p2
    <3> QED BY <1>2, <1>4, <2>4, <3>1, PlacedIsGood, Zenon
  <2>6. Placed(p3) /\ p3.pos = one /\ p3.depth = (IF Peek = "{" THEN depth + 1 ELSE depth - 1) /\ p3.mode = parser.mode
    BY <1>1 DEF Placed, one, two, pos, depth
  <2>7. (Peek = "{" \/ depth # 1) /\ Peek # "eof" /\ parser.mode = "fields" => GoodParser(p3)
    <3> HIDE DEF p3
    <3> QED BY <1>2, <1>3, <1>4, <2>6, PlacedIsGood, Zenon
  <2>8. Placed(p4) /\ p4.pos = one /\ p4.depth = depth /\ p4.mode = "field name"
    BY <1>1 DEF Placed, one, two, pos, depth
  <2>9. parser.mode = "fields" => GoodParser(p4)
    <3> HIDE DEF p4
    <3> QED BY <1>2, <1>3, <1>4, <2>8, PlacedIsGood, Zenon
  <2>10. Placed(p5) /\ p5.pos = one /\ p5.depth = depth /\ p5.mode = parser.mode
    BY <1>1 DEF Placed, one, two, pos, depth
  <2>11. GoodParser(p5)
    <3> HIDE DEF p5
    <3> QED BY <1>2, <1>3, <1>4, <2>10, PlacedIsGood, Zenon
  <2> HIDE DEF p1, p2, p3, p4, p5
  <2> QED BY <2>1, <2>3, <2>5, <2>7, <2>9, <2>11, ParsesKeeps, Zenon
<1>19. CASE BusFieldName
  <2> DEFINE p1 == [parser EXCEPT !.pos = Bumped(1), !.members = Append(@, Peek),
                                  !.mode = "field rest"]
             p2 == [parser EXCEPT !.mode = "fields"]
  <2>1. \/ parser.mode = "field name" /\ Parses(p1)
        \/ parser.mode = "field name" /\ Parses(p2)
    BY <1>19 DEF BusFieldName, Reads, depth, Reading
  <2>2. Placed(p1) /\ p1.pos = one /\ p1.depth = depth /\ p1.mode = "field rest"
    BY <1>1 DEF Placed, one, two, pos, depth
  <2>3. parser.mode = "field name" => GoodParser(p1)
    <3> HIDE DEF p1
    <3> QED BY <1>2, <1>3, <1>4, <2>2, PlacedIsGood, Zenon
  <2>4. Placed(p2) /\ p2.pos = pos /\ p2.depth = depth /\ p2.mode = "fields"
    BY <1>1 DEF Placed, one, two, pos, depth
  <2>5. parser.mode = "field name" => GoodParser(p2)
    <3> HIDE DEF p2
    <3> QED BY <1>2, <1>3, <1>4, <2>4, PlacedIsGood, Zenon
  <2> HIDE DEF p1, p2
  <2> QED BY <2>1, <2>3, <2>5, ParsesKeeps, Zenon
<1>20. CASE BusFieldRest
  <2> DEFINE p1 == [parser EXCEPT !.pos = IF Peek = ";" THEN Bumped(1) ELSE @,
                                  !.mode = "fields"]
             p2 == [parser EXCEPT !.pos = Bumped(1)]
  <2>1. \/ parser.mode = "field rest" /\ Parses(p1)
        \/ Parses(p2)
    BY <1>20 DEF BusFieldRest, Reads, depth, Reading
  <2>2. Placed(p1) /\ p1.pos = (IF Peek = ";" THEN one ELSE pos) /\ p1.depth = depth /\ p1.mode = "fields"
    BY <1>1 DEF Placed, one, two, pos, depth
  <2>3. parser.mode = "field rest" => GoodParser(p1)
    <3> HIDE DEF p1
    <3> QED BY <1>2, <1>3, <1>4, <2>2, PlacedIsGood, Zenon
  <2>4. Placed(p2) /\ p2.pos = one /\ p2.depth = depth /\ p2.mode = parser.mode
    BY <1>1 DEF Placed, one, two, pos, depth
  <2>5. GoodParser(p2)
    <3> HIDE DEF p2
    <3> QED BY <1>2, <1>3, <1>4, <2>4, PlacedIsGood, Zenon
  <2> HIDE DEF p1, p2
  <2> QED BY <2>1, <2>3, <2>5, ParsesKeeps, Zenon
<1>21. CASE EndParser
  <2>1. UNCHANGED <<source, lines, at, current, parser>> /\ stage' = "done" /\ stage = "parser"
    BY <1>21 DEF EndParser, Reading
  <2>2. TextOK' /\ ScanOK'
    BY <2>1 DEF SInv, TextOK, ScanOK, GoodCurrent
  <2>3. GoodParser(parser)'
    BY <2>1 DEF SInv, GoodParser, Placed, Stream
  <2> QED BY <2>2, <2>3 DEF SInv
<1> QED BY <1>5, <1>6, <1>7, <1>8, <1>9, <1>10, <1>11, <1>12, <1>13, <1>14, <1>15, <1>16, <1>17, <1>18, <1>19, <1>20, <1>21 DEF ParseTop, ParseBody, ParseBus

LEMMA SStep == SInv /\ [Next]_vars => SInv'
<1> SUFFICES ASSUME SInv, [Next]_vars PROVE SInv'
  OBVIOUS
<1>1. CASE Scan
  BY <1>1, ScanStep
<1>2. CASE ParseTop \/ ParseBody \/ ParseBus
  BY <1>2, ParserStep
<1>3. CASE UNCHANGED vars
  <2>1. UNCHANGED <<source, lines, stage, at, current, parser>>
    BY <1>3 DEF vars
  <2> QED BY <2>1 DEF SInv, TextOK, ScanOK, GoodCurrent, GoodParser, Placed, Stream
<1> QED BY <1>1, <1>2, <1>3 DEF Next, Done

\* The invariant of the readers' types holds in every state.
THEOREM ReadersInvariant == Spec => []SInv
BY SInit, SStep, PTL DEF Spec

LEMMA SInvImpliesTypeOK == SInv => TypeOK
<1> SUFFICES ASSUME SInv PROVE TypeOK
  OBVIOUS
<1>1. /\ stage \in {"templates", "components", "parser", "done"}
      /\ at \in 1 .. (Len(lines) + 1)
      /\ at = 1 \/ stage \in {"parser", "done"} => current = Outside
  BY DEF SInv, ScanOK
<1>2. current # Outside => current.name # <<>> /\ current.depth > 0
  BY DEF SInv, ScanOK, GoodCurrent
<1>3. Stream \in Seq(Token) /\ Len(Stream) \in Nat
  BY LinesAreGood, TokensOfLines, LenProperties, Zenon DEF SInv, TextOK, Stream
<1>4. parser.pos \in 1 .. Len(Stream) /\ parser.depth \in 0 .. parser.pos
  BY Zenon DEF SInv, GoodParser
<1>5. parser.pos \in DOMAIN Stream /\ parser.depth \in 0 .. Len(Stream)
  BY <1>3, <1>4
<1> QED BY <1>1, <1>2, <1>5 DEF TypeOK

\* The readers stay within the text and the stream of any source, and a template a
\* line scanner is in has a brace open.
THEOREM TypeCorrect == Spec => []TypeOK
BY ReadersInvariant, SInvImpliesTypeOK, PTL
=============================================================================
