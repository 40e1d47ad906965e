------------------------ MODULE LineScanners_proofs -------------------------
(***************************************************************************)
(* What the two line scanners find in a tidy source, however many          *)
(* definitions it has and whatever stands in their bodies.  A run over the *)
(* lines of a part of the text is put together with the run over the next  *)
(* (Scans): a line, a fragment of a body, a body, a definition, a source.  *)
(* The scanners' steps follow such a run, which is their invariant.        *)
(***************************************************************************)
EXTENDS SourceReaders_proofs

---------------------------------------------------------------------------
\* Where the tokens of a text stand.

\* Depths, with the braces counted.
LEMMA Sums == \A d \in Nat : d + 0 - 0 = d /\ d + 1 - 0 = d + 1 /\ d + 0 - 1 = d - 1
OBVIOUS

\* A text without braces leaves the depth as it is.
LEMMA Braceless ==
    ASSUME NEW T, NEW ts \in Seq(T), NEW d \in Nat,
           \A i \in 1 .. Len(ts) : ts[i] # "{" /\ ts[i] # "}"
    PROVE  ~Closes(d, ts) /\ DepthAfter(d, ts) = d
<1>1. Count(ts, "{") = 0 /\ Count(ts, "}") = 0
  BY CountFacts, Zenon
<1>2. DepthAfter(d, ts) = d + 0 - 0
  BY <1>1, Zenon DEF DepthAfter
<1>3. DOMAIN ts = 1 .. Len(ts)
  BY LenProperties, Zenon
<1>4. ~Closes(d, ts)
  BY <1>3, Zenon DEF Closes
<1> QED BY <1>2, <1>4, Sums, Zenon

\* A text with one opening brace leaves it one higher.
LEMMA OneOpening ==
    ASSUME NEW T, NEW ts \in Seq(T), NEW d \in Nat, NEW n \in 1 .. Len(ts), ts[n] = "{",
           \A i \in 1 .. Len(ts) : (i # n => ts[i] # "{") /\ ts[i] # "}"
    PROVE  ~Closes(d, ts) /\ DepthAfter(d, ts) = d + 1
<1>1. Count(ts, "}") = 0
  BY CountFacts, Zenon
<1>2. DOMAIN ts = 1 .. Len(ts)
  BY LenProperties, Zenon
<1>3. {i \in DOMAIN ts : ts[i] = "{"} = {n}
  BY <1>2, Zenon
<1>4. Count(ts, "{") = 1
  BY <1>3, FS_Singleton, Zenon DEF Count
<1>5. DepthAfter(d, ts) = d + 1 - 0
  BY <1>1, <1>4, Zenon DEF DepthAfter
<1>6. ~Closes(d, ts)
  BY <1>2, Zenon DEF Closes
<1> QED BY <1>5, <1>6, Sums, Zenon

\* A text of one token.
LEMMA OneToken ==
    ASSUME NEW T, NEW t \in T
    PROVE  /\ <<t>> \in Seq(T) /\ Len(<<t>>) = 1 /\ DOMAIN <<t>> = {1} /\ <<t>>[1] = t
           /\ SubSeq(<<t>>, 1, 1) = <<t>> /\ 1 .. Len(<<t>>) = {1}
<1>1. <<t>> \in Seq(T) /\ Len(<<t>>) = 1 /\ <<t>>[1] = t
  OBVIOUS
<1>2. 1 .. Len(<<t>>) = {1}
  BY <1>1
<1>3. DOMAIN <<t>> = 1 .. Len(<<t>>)
  BY <1>1, LenProperties, Zenon
<1> DEFINE s == <<t>>
           p == SubSeq(s, 1, 1)
<1>4. p = s
  <2> HIDE DEF s
  <2>1. s \in Seq(T) /\ Len(s) = 1 /\ s[1] = t
    BY <1>1 DEF s
  <2>2. p \in Seq(T) /\ Len(p) = 1 /\ p[1] = s[1]
    <3>1. \A i \in 1 .. 1 : s[i] \in T
      BY <2>1
    <3> QED BY <2>1, <3>1, SubSeqProperties
  <2> HIDE DEF p
  <2>3. p = [i \in 1 .. 1 |-> p[i]] /\ s = [i \in 1 .. 1 |-> s[i]]
    BY <2>1, <2>2
  <2>4. \A i \in 1 .. 1 : p[i] = s[i]
    BY <2>2
  <2> QED BY <2>3, <2>4, Zenon
<1> QED BY <1>1, <1>2, <1>3, <1>4

\* A closing brace ends what has no other brace open.
LEMMA OneClosing ==
    ASSUME NEW d \in Nat
    PROVE  /\ DepthAfter(d, <<"}">>) = d - 1
           /\ Closes(d, <<"}">>) <=> d - 1 <= 0
<1> DEFINE ts == <<"}">>
<1> DEFINE T == {"}"}
<1>0. "}" \in T
  OBVIOUS
<1> HIDE DEF T
<1>1. /\ ts \in Seq(T) /\ Len(ts) = 1 /\ DOMAIN ts = {1} /\ ts[1] = "}"
      /\ SubSeq(ts, 1, 1) = ts
  BY <1>0, OneToken, Zenon
<1>2. {i \in DOMAIN ts : ts[i] = "}"} = {1}
  BY <1>1
<1>3. Count(ts, "}") = 1
  BY <1>2, FS_Singleton, Zenon DEF Count
<1>4. \A i \in 1 .. Len(ts) : ts[i] # "{"
  <2>1. 1 .. Len(ts) = {1} /\ ts[1] # "{"
    BY <1>0, <1>1, OneToken, Zenon
  <2> HIDE DEF ts
  <2> QED BY <2>1, Zenon
<1>5. Count(ts, "{") = 0
  BY <1>1, <1>4, CountFacts, Zenon
<1>6. DepthAfter(d, ts) = d + 0 - 1
  BY <1>3, <1>5, Zenon DEF DepthAfter
<1>7. Closes(d, ts) <=> DepthAfter(d, ts) <= 0
  <2> HIDE DEF ts
  <2> QED BY <1>1, Zenon DEF Closes
<1> HIDE DEF ts
<1>8. DepthAfter(d, ts) = d - 1
  BY <1>6, Sums, Zenon
<1> QED BY <1>7, <1>8 DEF ts

---------------------------------------------------------------------------
\* One line.

Scanners == {"templates", "components"}

Within(name, inputs, depth) == [name |-> name, inputs |-> inputs, depth |-> depth]

\* What scanner k is in on a line of text ts when it comes to it with c.
HeaderName(k, ts) ==
    Before(IF k = "templates" THEN Unmodified(Tail(ts)) ELSE Tail(ts), "(")
InOn(k, c, ts) ==
    IF c.name # <<>> THEN c
    ELSE Within(IF Head(ts) = "template" THEN HeaderName(k, ts) ELSE <<>>, <<>>, 0)
On(k, c, ts) ==
    LET in == InOn(k, c, ts)
    IN IF k = "templates" /\ in.name # <<>> /\ Head(ts) = "signal input"
       THEN Within(in.name, Append(in.inputs, ts[2]), in.depth) ELSE in

\* What it is in behind that line.
Behind(k, c, ts) ==
    LET on == On(k, c, ts)
    IN IF on.name = <<>> \/ Closes(on.depth, ts) THEN Outside
       ELSE Within(on.name, on.inputs, DepthAfter(on.depth, ts))

\* What it finds on that line.
FoundIn(ts, parent) ==
    IF Head(ts) = "component" /\ "=" \in Range(ts) /\ "(" \in Range(After(ts, "="))
    THEN LET raw == Before(Tail(ts), "=")
             name == IF "{" \in Range(raw) THEN Before(raw, "{") ELSE raw
             template == Before(After(ts, "="), "(")
         IN IF name = <<>> \/ template = <<>> THEN <<>>
            ELSE <<[name |-> name, template |-> template, parent |-> parent]>>
    ELSE <<>>

Finds(k, c, ts) ==
    LET on == On(k, c, ts)
    IN IF k = "components" THEN FoundIn(ts, on.name)
       ELSE IF on.name # <<>> /\ Closes(on.depth, ts)
            THEN <<[name |-> on.name, inputs |-> on.inputs]>> ELSE <<>>

\* A line that keeps the template open.
Kept(name, inputs, depth, ts) == Within(name, inputs, DepthAfter(depth, ts))

\* What is found where a template is closed.
Closed(k, name, inputs) ==
    IF k = "components" THEN <<>> ELSE <<[name |-> name, inputs |-> inputs]>>

\* The fields of what a scanner is in.
LEMMA WithinFields ==
    ASSUME NEW n, NEW ins, NEW d
    PROVE  /\ Within(n, ins, d).name = n /\ Within(n, ins, d).inputs = ins
           /\ Within(n, ins, d).depth = d
BY DEF Within

\* Outside, as the same record.
LEMMA OutsideIs == Outside = Within(<<>>, <<>>, 0) /\ Outside.name = <<>>
BY DEF Outside, Within

\* Outside of any template a line that is neither a header nor a component changes
\* nothing.
LEMMA OutsideLine ==
    ASSUME NEW k \in Scanners, NEW ts, Head(ts) # "template", Head(ts) # "component"
    PROVE  Behind(k, Outside, ts) = Outside /\ Finds(k, Outside, ts) = <<>>
<1>1. InOn(k, Outside, ts) = Outside
  BY OutsideIs, Zenon DEF InOn
<1>2. On(k, Outside, ts) = Outside
  BY <1>1, OutsideIs, Zenon DEF On
<1>3. Behind(k, Outside, ts) = Outside
  BY <1>2, OutsideIs, Zenon DEF Behind
<1>4. FoundIn(ts, Outside.name) = <<>>
  BY Zenon DEF FoundIn
<1>5. Finds(k, Outside, ts) = <<>>
  BY <1>2, <1>4, OutsideIs, Zenon DEF Finds
<1> QED BY <1>3, <1>5

\* Within a template a line that is no input leaves what is known of it.
LEMMA OnLine ==
    ASSUME NEW k \in Scanners, NEW ts, NEW c, c.name # <<>>,
           k = "components" \/ Head(ts) # "signal input"
    PROVE  On(k, c, ts) = c
<1>1. InOn(k, c, ts) = c
  BY Zenon DEF InOn
<1>2. "components" # "templates"
  OBVIOUS
<1> QED BY <1>1, <1>2, Zenon DEF On

\* A line that does not close the template changes its depth only.
LEMMA InsideLine ==
    ASSUME NEW k \in Scanners, NEW ts, NEW n, NEW ins, NEW d, n # <<>>,
           k = "components" \/ Head(ts) # "signal input", ~Closes(d, ts)
    PROVE  /\ Behind(k, Within(n, ins, d), ts) = Kept(n, ins, d, ts)
           /\ k = "components" => Finds(k, Within(n, ins, d), ts) = FoundIn(ts, n)
           /\ k # "components" => Finds(k, Within(n, ins, d), ts) = <<>>
<1> DEFINE c == Within(n, ins, d)
<1>1. c.name = n /\ c.inputs = ins /\ c.depth = d
  BY DEF Within
<1> HIDE DEF c
<1>3. On(k, c, ts) = c
  BY <1>1, OnLine, Zenon
<1> DEFINE e == DepthAfter(d, ts)
<1>4. Behind(k, c, ts) = Within(n, ins, e)
  BY <1>1, <1>3, Zenon DEF Behind
<1>5. /\ k = "components" => Finds(k, c, ts) = FoundIn(ts, n)
      /\ k # "components" => Finds(k, c, ts) = <<>>
  BY <1>1, <1>3, Zenon DEF Finds
<1> QED BY <1>4, <1>5, Zenon DEF c, Kept

\* A line that closes the template.
LEMMA ClosingLine ==
    ASSUME NEW k \in Scanners, NEW ts, NEW n, NEW ins, NEW d, n # <<>>,
           k = "components" \/ Head(ts) # "signal input", Closes(d, ts), Head(ts) # "component"
    PROVE  /\ Behind(k, Within(n, ins, d), ts) = Outside
           /\ Finds(k, Within(n, ins, d), ts) = Closed(k, n, ins)
<1> DEFINE c == Within(n, ins, d)
<1>1. c.name = n /\ c.inputs = ins /\ c.depth = d
  BY DEF Within
<1> HIDE DEF c
<1>2. On(k, c, ts) = c
  BY <1>1, OnLine, Zenon
<1>3. Behind(k, c, ts) = Outside
  BY <1>1, <1>2, Zenon DEF Behind
<1>4. FoundIn(ts, n) = <<>>
  BY Zenon DEF FoundIn
<1>5. Finds(k, c, ts) = Closed(k, n, ins)
  BY <1>1, <1>2, <1>4, Zenon DEF Finds, Closed
<1> QED BY <1>3, <1>5, Zenon DEF c

\* The line of an input.
LEMMA InputLine ==
    ASSUME NEW ts, NEW n, NEW ins, NEW d, n # <<>>, Head(ts) = "signal input",
           ~Closes(d, ts), DepthAfter(d, ts) = d
    PROVE  /\ Behind("templates", Within(n, ins, d), ts) = Within(n, Append(ins, ts[2]), d)
           /\ Finds("templates", Within(n, ins, d), ts) = <<>>
<1> DEFINE c == Within(n, ins, d)
           x == Append(ins, ts[2])
           e == Within(n, x, d)
<1>1. c.name = n /\ c.inputs = ins /\ c.depth = d /\ e.name = n /\ e.inputs = x /\ e.depth = d
  BY DEF Within
<1>2. e = Within(c.name, Append(c.inputs, ts[2]), c.depth) /\ e = Within(e.name, e.inputs, d)
  BY <1>1, Zenon
<1> HIDE DEF c, e, x
<1>5. InOn("templates", c, ts) = c
  BY <1>1, Zenon DEF InOn
<1>6. On("templates", c, ts) = e
  BY <1>1, <1>2, <1>5, Zenon DEF On
<1>7. Behind("templates", c, ts) = e
  BY <1>1, <1>2, <1>6, Zenon DEF Behind
<1>8. "templates" # "components"
  OBVIOUS
<1>9. Finds("templates", c, ts) = <<>>
  BY <1>1, <1>6, <1>8, Zenon DEF Finds
<1> QED BY <1>7, <1>9, Zenon DEF c, e, x

\* A header.
LEMMA HeaderLine ==
    ASSUME NEW k \in Scanners, NEW ts, Head(ts) = "template", HeaderName(k, ts) # <<>>,
           ~Closes(0, ts), DepthAfter(0, ts) = 1
    PROVE  /\ Behind(k, Outside, ts) = Within(HeaderName(k, ts), <<>>, 1)
           /\ Finds(k, Outside, ts) = <<>>
<1> DEFINE n == HeaderName(k, ts)
           c == Within(n, <<>>, 0)
<1>1. c.name = n /\ c.inputs = <<>> /\ c.depth = 0
  BY DEF Within
<1>3. InOn(k, Outside, ts) = c
  BY OutsideIs, Zenon DEF InOn
<1>4. "template" # "signal input" /\ "template" # "component"
  OBVIOUS
<1> HIDE DEF c
<1>5. On(k, Outside, ts) = c
  BY <1>3, <1>4, Zenon DEF On
<1>6. Behind(k, Outside, ts) = Within(n, <<>>, 1)
  BY <1>1, <1>5, Zenon DEF Behind
<1>7. FoundIn(ts, n) = <<>>
  BY <1>4, Zenon DEF FoundIn
<1>8. Finds(k, Outside, ts) = <<>>
  BY <1>1, <1>5, <1>7, Zenon DEF Finds
<1> QED BY <1>6, <1>8

---------------------------------------------------------------------------
\* Many lines.

\* What a line scanner can find, with or without a parent.
Finding == [name : Seq(Token), inputs : Seq(Token)]
           \cup [name : Seq(Token), template : Seq(Token), parent : Seq(Token)]

\* Over the lines ls scanner k comes from c to e and finds x: r is what it is in
\* behind each line, o what it has found by then.
Runs(k, ls, c, e, x, r, o) ==
    /\ o \in [0 .. Len(ls) -> Seq(Finding)]
    /\ r[0] = c /\ r[Len(ls)] = e
    /\ o[0] = <<>> /\ o[Len(ls)] = x
    /\ \A n \in 1 .. Len(ls) :
          /\ r[n] = Behind(k, r[n - 1], ls[n].text)
          /\ Finds(k, r[n - 1], ls[n].text) \in Seq(Finding)
          /\ o[n] = o[n - 1] \o Finds(k, r[n - 1], ls[n].text)
Scans(k, ls, c, e, x) == \E r, o : Runs(k, ls, c, e, x, r, o)

\* Over no line nothing is found.
LEMMA NoLine ==
    ASSUME NEW k, NEW c
    PROVE  Scans(k, <<>>, c, c, <<>>)
<1> DEFINE r == [n \in 0 .. 0 |-> c]
           o == [n \in 0 .. 0 |-> <<>>]
<1>1. <<>> \in Seq(Finding) /\ Len(<<>>) = 0
  OBVIOUS
<1>2. Runs(k, <<>>, c, c, <<>>, r, o)
  BY <1>1 DEF Runs
<1> QED BY <1>2, Zenon DEF Scans

\* A run over one line is that line.
LEMMA OneLine ==
    ASSUME NEW k, NEW c, NEW e, NEW x \in Seq(Finding), NEW l,
           Behind(k, c, l.text) = e, Finds(k, c, l.text) = x
    PROVE  Scans(k, <<l>>, c, e, x)
<1> DEFINE ls == <<l>>
           r == [n \in 0 .. 1 |-> IF n = 0 THEN c ELSE e]
           o == [n \in 0 .. 1 |-> IF n = 0 THEN <<>> ELSE x]
<1>1. Len(ls) = 1 /\ ls[1] = l
  OBVIOUS
<1> HIDE DEF ls
<1>2. r[0] = c /\ r[1] = e /\ o[0] = <<>> /\ o[1] = x
  OBVIOUS
<1>3. o \in [0 .. 1 -> Seq(Finding)]
  OBVIOUS
<1>4. <<>> \o x = x
  OBVIOUS
<1> HIDE DEF r, o
<1>5. \A n \in 1 .. 1 : /\ r[n] = Behind(k, r[n - 1], ls[n].text)
                        /\ Finds(k, r[n - 1], ls[n].text) \in Seq(Finding)
                        /\ o[n] = o[n - 1] \o Finds(k, r[n - 1], ls[n].text)
  <2>1. 1 .. 1 = {1} /\ 1 - 1 = 0
    OBVIOUS
  <2>2. /\ r[1] = Behind(k, r[0], ls[1].text)
        /\ Finds(k, r[0], ls[1].text) \in Seq(Finding)
        /\ o[1] = o[0] \o Finds(k, r[0], ls[1].text)
    BY <1>1, <1>2, <1>4, Zenon
  <2> QED BY <2>1, <2>2
<1>6. Runs(k, ls, c, e, x, r, o)
  BY <1>1, <1>2, <1>3, <1>5, Zenon DEF Runs
<1> QED BY <1>6, Zenon DEF Scans, ls

\* Joining is associative.
LEMMA Associative ==
    ASSUME NEW T, NEW s \in Seq(T), NEW t \in Seq(T), NEW u \in Seq(T)
    PROVE  (s \o t) \o u = s \o (t \o u)
OBVIOUS

\* One part of the lines behind another.
LEMMA MoreLines ==
    ASSUME NEW k, NEW L, NEW ls \in Seq(L), NEW ms \in Seq(L), NEW c, NEW e, NEW f, NEW x, NEW y,
           Scans(k, ls, c, e, x), Scans(k, ms, e, f, y)
    PROVE  Scans(k, ls \o ms, c, f, x \o y)
<1> DEFINE N == Len(ls)
           M == Len(ms)
           ns == ls \o ms
<1>1. PICK r1, o1 : Runs(k, ls, c, e, x, r1, o1)
  BY Zenon DEF Scans
<1>2. PICK r2, o2 : Runs(k, ms, e, f, y, r2, o2)
  BY Zenon DEF Scans
<1> DEFINE r == [n \in 0 .. N + M |-> IF n <= N THEN r1[n] ELSE r2[n - N]]
           o == [n \in 0 .. N + M |-> IF n <= N THEN o1[n] ELSE x \o o2[n - N]]
<1>3. N \in Nat /\ M \in Nat /\ Len(ns) = N + M
  OBVIOUS
<1>4. /\ \A n \in 1 .. N : ns[n] = ls[n]
      /\ \A n \in 1 .. M : ns[N + n] = ms[n]
  OBVIOUS
<1>5. /\ o1 \in [0 .. N -> Seq(Finding)] /\ o2 \in [0 .. M -> Seq(Finding)]
      /\ r1[0] = c /\ r1[N] = e /\ r2[0] = e /\ r2[M] = f
      /\ o1[0] = <<>> /\ o1[N] = x /\ o2[0] = <<>> /\ o2[M] = y
  BY <1>1, <1>2, Zenon DEF Runs
<1>6. \A n \in 1 .. N : /\ r1[n] = Behind(k, r1[n - 1], ls[n].text)
                        /\ Finds(k, r1[n - 1], ls[n].text) \in Seq(Finding)
                        /\ o1[n] = o1[n - 1] \o Finds(k, r1[n - 1], ls[n].text)
  BY <1>1, Zenon DEF Runs
<1>7. \A n \in 1 .. M : /\ r2[n] = Behind(k, r2[n - 1], ms[n].text)
                        /\ Finds(k, r2[n - 1], ms[n].text) \in Seq(Finding)
                        /\ o2[n] = o2[n - 1] \o Finds(k, r2[n - 1], ms[n].text)
  BY <1>2, Zenon DEF Runs
<1> HIDE DEF N, M, ns
<1>8. x \in Seq(Finding) /\ x \o o2[0] = x
  <2>1. N \in 0 .. N
    BY <1>3
  <2>2. x \in Seq(Finding)
    BY <1>5, <2>1
  <2> QED BY <1>5, <2>2
<1>9. /\ \A n \in 0 .. N : r[n] = r1[n] /\ o[n] = o1[n]
      /\ \A n \in 0 .. M : r[N + n] = r2[n] /\ o[N + n] = x \o o2[n]
  <2>1. \A n \in 0 .. N : r[n] = r1[n] /\ o[n] = o1[n]
    BY <1>3
  <2>2. ASSUME NEW n \in 0 .. M PROVE r[N + n] = r2[n] /\ o[N + n] = x \o o2[n]
    <3>1. CASE n = 0
      <4>1. N + n = N /\ N \in 0 .. N + M /\ N <= N
        BY <1>3, <3>1
      <4>2. r[N] = r1[N] /\ o[N] = o1[N]
        BY <4>1
      <4> QED BY <1>5, <1>8, <3>1, <4>1, <4>2, Zenon
    <3>2. CASE n # 0
      <4>1. N + n \in 0 .. N + M /\ ~(N + n <= N) /\ (N + n) - N = n
        BY <1>3, <3>2
      <4>2. r[N + n] = r2[(N + n) - N] /\ o[N + n] = x \o o2[(N + n) - N]
        BY <4>1
      <4> HIDE DEF r, o
      <4> QED BY <4>1, <4>2, Zenon
    <3> QED BY <3>1, <3>2
  <2> QED BY <2>1, <2>2
<1>10. o \in [0 .. N + M -> Seq(Finding)]
  <2> SUFFICES ASSUME NEW n \in 0 .. N + M PROVE o[n] \in Seq(Finding)
    OBVIOUS
  <2>1. CASE n <= N
    <3>1. n \in 0 .. N
      BY <1>3, <2>1
    <3> QED BY <1>5, <1>9, <3>1
  <2>2. CASE ~(n <= N)
    <3>1. n - N \in 0 .. M /\ N + (n - N) = n
      BY <1>3, <2>2
    <3>2. o2[n - N] \in Seq(Finding) /\ o[n] = x \o o2[n - N]
      BY <1>5, <1>9, <3>1
    <3> HIDE DEF o
    <3> QED BY <1>8, <3>2, Joined, Zenon
  <2> QED BY <2>1, <2>2
<1> HIDE DEF r, o
<1>11. ASSUME NEW n \in 1 .. N + M
       PROVE  /\ r[n] = Behind(k, r[n - 1], ns[n].text)
              /\ Finds(k, r[n - 1], ns[n].text) \in Seq(Finding)
              /\ o[n] = o[n - 1] \o Finds(k, r[n - 1], ns[n].text)
  <2>1. CASE n <= N
    <3>1. n \in 1 .. N /\ n \in 0 .. N /\ n - 1 \in 0 .. N
      BY <1>3, <2>1
    <3> QED BY <1>4, <1>6, <1>9, <3>1, Zenon
  <2>2. CASE ~(n <= N)
    <3> DEFINE m == n - N
    <3>1. m \in 1 .. M /\ m \in 0 .. M /\ m - 1 \in 0 .. M /\ N + m = n /\ N + (m - 1) = n - 1
      BY <1>3, <2>2
    <3> HIDE DEF m
    <3> DEFINE z == Finds(k, r2[m - 1], ms[m].text)
    <3>2. /\ r[n] = r2[m] /\ o[n] = x \o o2[m]
          /\ r[n - 1] = r2[m - 1] /\ o[n - 1] = x \o o2[m - 1] /\ ns[n] = ms[m]
      BY <1>4, <1>9, <3>1, Zenon
    <3>3. r2[m] = Behind(k, r2[m - 1], ms[m].text) /\ o2[m] = o2[m - 1] \o z
      BY <1>7, <3>1, Zenon
    <3>4. o2[m - 1] \in Seq(Finding)
      BY <1>5, <3>1
    <3>5. z \in Seq(Finding)
      BY <1>7, <3>1, Zenon
    <3>6. x \o (o2[m - 1] \o z) = (x \o o2[m - 1]) \o z
      <4> DEFINE a == o2[m - 1]
      <4>1. x \in Seq(Finding) /\ a \in Seq(Finding) /\ z \in Seq(Finding)
        BY <1>8, <3>4, <3>5
      <4> HIDE DEF a, z
      <4>2. x \o (a \o z) = (x \o a) \o z
        BY <4>1, SMTT(30)
      <4> QED BY <4>2 DEF a
    <3> QED BY <3>2, <3>3, <3>5, <3>6, Zenon
  <2> QED BY <2>1, <2>2
<1>12. r[0] = c /\ r[N + M] = f /\ o[0] = <<>> /\ o[N + M] = x \o y
  <2>1. 0 \in 0 .. N /\ M \in 0 .. M
    BY <1>3
  <2> QED BY <1>5, <1>9, <2>1, Zenon
<1>13. Runs(k, ns, c, f, x \o y, r, o)
  BY <1>3, <1>10, <1>11, <1>12, Zenon DEF Runs
<1> QED BY <1>13, Zenon DEF Scans, ns

---------------------------------------------------------------------------
\* The texts a definition is written with.

\* What stands before and behind the token where two texts are joined.
LEMMA JoinedCut ==
    ASSUME NEW T, NEW s \in Seq(T), NEW u \in Seq(T), NEW t, Len(u) > 0, u[1] = t,
           \A i \in 1 .. Len(s) : s[i] # t
    PROVE  t \in Range(s \o u) /\ Before(s \o u, t) = s /\ After(s \o u, t) = Tail(u)
<1> DEFINE v == s \o u
           n == Len(s)
           m == Len(u)
<1>1. /\ v \in Seq(T) /\ n \in Nat /\ m \in Nat /\ Len(v) = n + m
      /\ \A i \in 1 .. n : v[i] = s[i]
      /\ \A i \in 1 .. m : v[n + i] = u[i]
  BY Joined
<1>2. n + 1 \in 1 .. Len(v) /\ (n + 1) - 1 = n /\ n + 1 + 1 = n + 2
  BY <1>1
<1>3. v[n + 1] = t
  BY <1>1
<1>4. SubSeq(v, 1, n) = s
  OBVIOUS
<1>5. SubSeq(v, n + 2, n + m) = Tail(u)
  OBVIOUS
<1> HIDE DEF v, n, m
<1> DEFINE q == n + 1
<1>6. \A i \in 1 .. q - 1 : v[i] # t
  BY <1>1, <1>2 DEF n
<1>8. v \in Seq(T) /\ q \in 1 .. Len(v) /\ v[q] = t /\ q - 1 = n /\ q + 1 = n + 2
  BY <1>1, <1>2, <1>3
<1> HIDE DEF q
<1>7. /\ t \in Range(v)
      /\ Before(v, t) = SubSeq(v, 1, q - 1)
      /\ After(v, t) = SubSeq(v, q + 1, Len(v))
  BY <1>6, <1>8, FirstOf, Zenon
<1> QED BY <1>1, <1>2, <1>4, <1>5, <1>7, <1>8, Zenon DEF v

\* What a text may hold that leaves the depth as it is.
Plain == Token \ {"{", "}"}

\* The tokens that open or close nothing.
LEMMA PlainTokens ==
    /\ \A t \in Plain : t \in Token
    /\ \A t \in Names \cup Modifiers : t \in Plain
    /\ \A t \in {"stmt", "signal input", "signal", "for", "component", "bad", "log", "template",
                 "function", "bus", "(", ")", "=", ";", "a", "b", "c", "x", "main", "B"} :
          t \in Plain
    /\ \A t \in Names : t \notin {"(", "=", "component", "signal input", "template"} \cup Modifiers
BY NamesAssumption DEF Plain, Token, Words, Punctuation, Modifiers

\* A text of plain tokens closes nothing and leaves the depth as it is.
LEMMA PlainText ==
    ASSUME NEW ts \in Seq(Plain), NEW d \in Nat
    PROVE  ~Closes(d, ts) /\ DepthAfter(d, ts) = d
<1>1. \A x \in Plain : x # "{" /\ x # "}"
  BY DEF Plain
<1>2. \A i \in 1 .. Len(ts) : ts[i] \in Plain
  BY ElementOfSeq, Zenon
<1>3. \A i \in 1 .. Len(ts) : ts[i] # "{" /\ ts[i] # "}"
  BY <1>1, <1>2, Zenon
<1> QED BY <1>3, Braceless, Zenon

\* A sequence over fewer elements is one over more.
LEMMA WiderSeq ==
    ASSUME NEW S, NEW T, S \subseteq T, NEW s \in Seq(S)
    PROVE  s \in Seq(T)
OBVIOUS

\* A text that ends in its only brace.
LEMMA OpeningText ==
    ASSUME NEW s \in Seq(Plain), NEW d \in Nat
    PROVE  ~Closes(d, s \o <<"{">>) /\ DepthAfter(d, s \o <<"{">>) = d + 1
<1> DEFINE T == Plain \cup {"{"}
           e == <<"{">>
           ts == s \o e
<1>1. s \in Seq(T)
  <2>1. Plain \subseteq T
    OBVIOUS
  <2> HIDE DEF T
  <2> QED BY <2>1, WiderSeq, Zenon
<1>2. e \in Seq(T) /\ Len(e) = 1 /\ e[1] = "{"
  OBVIOUS
<1>3. \A i \in 1 .. Len(s) : s[i] \in Plain
  BY ElementOfSeq, Zenon
<1>4. Plain \cap {"{", "}"} = {} /\ "{" # "}"
  BY DEF Plain
<1> HIDE DEF T, e
<1>5. /\ ts \in Seq(T) /\ Len(s) \in Nat /\ Len(ts) = Len(s) + Len(e)
      /\ \A i \in 1 .. Len(s) : ts[i] = s[i]
      /\ \A i \in 1 .. Len(e) : ts[Len(s) + i] = e[i]
  <2>1. e \in Seq(T)
    BY <1>2
  <2> QED BY <1>1, <2>1, Joined
<1> DEFINE n == Len(s) + 1
<1>10. Len(e) = 1
  BY <1>2
<1>6. n \in 1 .. Len(ts) /\ ts[n] = "{" /\ \A i \in 1 .. Len(ts) : i # n => i \in 1 .. Len(s)
  <2> HIDE DEF ts
  <2>1. 1 \in 1 .. Len(e) /\ n = Len(s) + 1 /\ Len(ts) = n /\ n \in Nat /\ n > 0
    BY <1>5, <1>10
  <2>2. ts[n] = e[1]
    BY <1>5, <2>1
  <2>3. \A i \in 1 .. Len(ts) : i # n => i \in 1 .. Len(s)
    BY <1>5, <2>1
  <2>4. n \in 1 .. Len(ts)
    BY <2>1
  <2> QED BY <1>2, <2>2, <2>3, <2>4, Zenon
<1> HIDE DEF ts, n
<1>7. \A i \in 1 .. Len(ts) : (i # n => ts[i] # "{") /\ ts[i] # "}"
  BY <1>3, <1>4, <1>5, <1>6, Zenon
<1>8. ~Closes(d, ts) /\ DepthAfter(d, ts) = d + 1
  BY <1>5, <1>6, <1>7, OneOpening, Zenon
<1> QED BY <1>8 DEF ts, e

\* The first token of a longer text.
LEMMA HeadOfJoined ==
    ASSUME NEW T, NEW a \in T, NEW s \in Seq(T)
    PROVE  Head(<<a>> \o s) = a /\ Tail(<<a>> \o s) = s
OBVIOUS

\* A text of five tokens, as its parts.
LEMMA FiveTokens ==
    ASSUME NEW T
    PROVE  \A a, b, c, d, e \in T :
              /\ Tail(<<a, b, c, d, e>>) = <<b>> \o <<c, d, e>>
              /\ Len(<<a, b, c, d, e>>) > 0 /\ <<a, b, c, d, e>>[1] = a
              /\ <<a, b, c, d, e>> \in Seq(T)
              /\ <<c, d, e>> \in Seq(T) /\ Len(<<c, d, e>>) > 0 /\ <<c, d, e>>[1] = c
OBVIOUS

\* A text of one token has no other.
LEMMA OneOther ==
    ASSUME NEW T, NEW a \in T, NEW t, t # a
    PROVE  /\ \A i \in 1 .. Len(<<a>>) : <<a>>[i] # t
           /\ t \notin Range(<<a>>) /\ <<a>> # <<>> /\ <<a>> \in Seq(T)
<1>1. DOMAIN <<a>> = {1} /\ 1 .. Len(<<a>>) = {1} /\ <<a>>[1] = a /\ <<a>> # <<>> /\ <<a>> \in Seq(T)
  BY OneToken, Sequence1, Zenon
<1> QED BY <1>1, Zenon DEF Range

\* What a component line is cut into.
LEMMA ComponentCut ==
    ASSUME NEW name \in Seq(Token), NEW t \in Token, t # "(",
           \A i \in 1 .. Len(name) : name[i] # "="
    PROVE  LET ts == Instance(name, t)
           IN  /\ Head(ts) = "component" /\ "=" \in Range(ts)
               /\ Before(Tail(ts), "=") = name
               /\ "(" \in Range(After(ts, "="))
               /\ Before(After(ts, "="), "(") = <<t>>
<1> DEFINE k == <<"component">>
           u == <<"=", t, "(", ")", ";">>
           w == <<"(", ")", ";">>
           v == <<t>> \o w
           ts == (k \o name) \o u
<1>0. /\ "component" \in Token /\ "=" \in Token /\ "(" \in Token /\ ")" \in Token /\ ";" \in Token
      /\ "=" # "component"
  BY Tokens0
<1>1. Instance(name, t) = ts
  BY DEF Instance
<1>2. k \in Seq(Token) /\ \A i \in 1 .. Len(k) : k[i] # "="
  BY <1>0, OneOther, Zenon
<1>3. /\ Tail(u) = v /\ Len(u) > 0 /\ u[1] = "=" /\ u \in Seq(Token)
      /\ w \in Seq(Token) /\ Len(w) > 0 /\ w[1] = "("
  <2> DEFINE P(f, g, h, i, j) ==
               /\ Tail(<<f, g, h, i, j>>) = <<g>> \o <<h, i, j>>
               /\ Len(<<f, g, h, i, j>>) > 0 /\ <<f, g, h, i, j>>[1] = f
               /\ <<f, g, h, i, j>> \in Seq(Token)
               /\ <<h, i, j>> \in Seq(Token) /\ Len(<<h, i, j>>) > 0 /\ <<h, i, j>>[1] = h
  <2>1. \A f, g, h, i, j \in Token : P(f, g, h, i, j)
    BY FiveTokens, Zenon
  <2> HIDE DEF P
  <2>2. P("=", t, "(", ")", ";")
    BY <1>0, <2>1, Zenon
  <2> QED BY <2>2 DEF P
<1>5. <<t>> \in Seq(Token) /\ \A i \in 1 .. Len(<<t>>) : <<t>>[i] # "("
  BY OneOther, Zenon
<1> HIDE DEF u, w
<1>6. Head(ts) = "component" /\ Tail(ts) = name \o u
  <2>1. name \o u \in Seq(Token)
    BY <1>3, Joined, Zenon
  <2>2. ts = k \o (name \o u)
    <3> HIDE DEF k
    <3> QED BY <1>2, <1>3, SMTT(30)
  <2> DEFINE z == name \o u
  <2> HIDE DEF z, ts
  <2>3. z \in Seq(Token) /\ ts = k \o z
    BY <2>1, <2>2 DEF z
  <2>4. Head(ts) = "component" /\ Tail(ts) = z
    BY <1>0, <2>3, HeadOfJoined, Zenon
  <2> QED BY <2>4 DEF z
<1>7. Before(Tail(ts), "=") = name
  BY <1>3, <1>6, JoinedCut, ZenonT(120)
<1> HIDE DEF k
<1>8. k \o name \in Seq(Token) /\ \A i \in 1 .. Len(k \o name) : (k \o name)[i] # "="
  <2> DEFINE z == k \o name
  <2>1. /\ z \in Seq(Token) /\ Len(k) \in Nat /\ Len(name) \in Nat /\ Len(z) = Len(k) + Len(name)
        /\ \A i \in 1 .. Len(k) : z[i] = k[i]
        /\ \A i \in 1 .. Len(name) : z[Len(k) + i] = name[i]
    BY <1>2, Joined
  <2> HIDE DEF z
  <2>2. \A i \in 1 .. Len(z) : i \in 1 .. Len(k) \/ \E j \in 1 .. Len(name) : i = Len(k) + j
    <3> SUFFICES ASSUME NEW i \in 1 .. Len(z), i \notin 1 .. Len(k)
                 PROVE  \E j \in 1 .. Len(name) : i = Len(k) + j
      OBVIOUS
    <3>1. i - Len(k) \in 1 .. Len(name) /\ i = Len(k) + (i - Len(k))
      BY <2>1
    <3> QED BY <3>1
  <2>3. \A i \in 1 .. Len(z) : z[i] # "="
    BY <1>2, <2>1, <2>2, Zenon
  <2> QED BY <2>1, <2>3 DEF z
<1>9. "=" \in Range(ts) /\ After(ts, "=") = Tail(u)
  BY <1>3, <1>8, JoinedCut, Zenon
<1>10. "(" \in Range(v) /\ Before(v, "(") = <<t>>
  BY <1>3, <1>5, JoinedCut, Zenon
<1> QED BY <1>1, <1>3, <1>6, <1>7, <1>9, <1>10, Zenon

\* The components that are found on a line.
LEMMA ComponentFound ==
    ASSUME NEW name \in Seq(Token), NEW t \in Token, t # "(", NEW c, c # <<>>, NEW parent,
           \A i \in 1 .. Len(name) : name[i] # "=",
           "{" \notin Range(name) => c = name,
           "{" \in Range(name) => c = Before(name, "{")
    PROVE  /\ Head(Instance(name, t)) = "component"
           /\ FoundIn(Instance(name, t), parent) =
                 <<[name |-> c, template |-> <<t>>, parent |-> parent]>>
<1> DEFINE ts == Instance(name, t)
<1>1. /\ Head(ts) = "component" /\ "=" \in Range(ts)
      /\ Before(Tail(ts), "=") = name
      /\ "(" \in Range(After(ts, "="))
      /\ Before(After(ts, "="), "(") = <<t>>
  BY ComponentCut, Zenon
<1>2. <<t>> # <<>> /\ name # <<>>
  <2>1. <<t>> # <<>>
    OBVIOUS
  <2>2. name # <<>>
    <3> SUFFICES ASSUME name = <<>> PROVE FALSE
      OBVIOUS
    <3>1. Range(<<>>) = {}
      BY DEF Range
    <3> QED BY <3>1, Zenon
  <2> QED BY <2>1, <2>2
<1> HIDE DEF ts
<1>3. FoundIn(ts, parent) = <<[name |-> c, template |-> <<t>>, parent |-> parent]>>
  BY <1>1, <1>2, Zenon DEF FoundIn
<1> QED BY <1>1, <1>3, Zenon DEF ts

\* A text of three tokens, as its parts.
LEMMA ThreeTokens ==
    ASSUME NEW T
    PROVE  \A a, b, c \in T : /\ <<a, b, c>> = <<a>> \o <<b, c>>
                              /\ <<b, c>> \in Seq(T) /\ Len(<<b, c>>) > 0 /\ <<b, c>>[1] = b
OBVIOUS

\* At most one modifier: none or one.
LEMMA AtMostOne == \A n \in Nat : n <= 1 => n = 0 \/ n = 1
OBVIOUS

\* What is joined with an element is not empty.
LEMMA NotEmpty ==
    ASSUME NEW T, NEW s \in Seq(T), NEW t \in Seq(T), Len(s) = 1
    PROVE  s \o t # <<>> /\ t \o s # <<>>
OBVIOUS

\* The main component is found under its name, annotated or not.
LEMMA MainFound ==
    ASSUME NEW t \in Names, NEW name \in {<<"main">>, <<"main", "{", "}">>}, NEW parent
    PROVE  /\ Head(Instance(name, t)) = "component"
           /\ FoundIn(Instance(name, t), parent) =
                 <<[name |-> <<"main">>, template |-> <<t>>, parent |-> parent]>>
<1>0. /\ "main" \in Token /\ "{" \in Token /\ "}" \in Token /\ t \in Token /\ t # "("
      /\ "main" # "=" /\ "main" # "{" /\ "{" # "=" /\ "}" # "="
  BY PlainTokens, Tokens0
<1>1. /\ \A i \in 1 .. Len(<<"main">>) : <<"main">>[i] # "=" /\ <<"main">>[i] # "{"
      /\ "{" \notin Range(<<"main">>) /\ <<"main">> # <<>> /\ <<"main">> \in Seq(Token)
  BY <1>0, OneOther, Zenon
<1>2. CASE name = <<"main">>
  <2>1. /\ Head(Instance(<<"main">>, t)) = "component"
        /\ FoundIn(Instance(<<"main">>, t), parent) =
              <<[name |-> <<"main">>, template |-> <<t>>, parent |-> parent]>>
    BY <1>0, <1>1, ComponentFound, ZenonT(60)
  <2> QED BY <1>2, <2>1, Zenon
<1>3. CASE name = <<"main", "{", "}">>
  <2> DEFINE s == <<"main">>
             u == <<"{", "}">>
  <2>1. <<"main", "{", "}">> = s \o u /\ u \in Seq(Token) /\ Len(u) > 0 /\ u[1] = "{"
    <3> DEFINE P(a, b, c) ==
                 /\ <<a, b, c>> = <<a>> \o <<b, c>>
                 /\ <<b, c>> \in Seq(Token) /\ Len(<<b, c>>) > 0 /\ <<b, c>>[1] = b
    <3>1. \A a, b, c \in Token : P(a, b, c)
      BY ThreeTokens, Zenon
    <3> HIDE DEF P
    <3>2. P("main", "{", "}")
      BY <1>0, <3>1, Zenon
    <3> QED BY <3>2, Zenon DEF P
  <2>2. name = s \o u
    BY <1>3, <2>1, Zenon
  <2>3. name \in Seq(Token) /\ \A i \in 1 .. Len(name) : name[i] # "="
    <3> DEFINE T == {x \in Token : x # "="}
    <3>1. "main" \in T /\ "{" \in T /\ "}" \in T
      BY <1>0
    <3> HIDE DEF T
    <3>2. name \in Seq(T)
      BY <1>3, <3>1, Sequence3, Zenon
    <3>3. T \subseteq Token /\ \A x \in T : x # "="
      BY DEF T
    <3>4. \A i \in 1 .. Len(name) : name[i] \in T
      BY <3>2, ElementOfSeq, Zenon
    <3>5. name \in Seq(Token)
      BY <3>2, <3>3, WiderSeq, Zenon
    <3> QED BY <3>3, <3>4, <3>5, Zenon
  <2> HIDE DEF s, u
  <2>4. s \in Seq(Token) /\ \A i \in 1 .. Len(s) : s[i] # "{"
    BY <1>1, Zenon DEF s
  <2>5. "{" \in Range(name) /\ Before(name, "{") = s
    BY <2>1, <2>2, <2>4, JoinedCut, Zenon
  <2>6. s = <<"main">> /\ s # <<>>
    BY <1>1, Zenon DEF s
  <2>7. "{" \in Range(name) /\ s = Before(name, "{")
    BY <2>5, Zenon
  <2> DEFINE F(c) == /\ Head(Instance(name, t)) = "component"
                     /\ FoundIn(Instance(name, t), parent) =
                           <<[name |-> c, template |-> <<t>>, parent |-> parent]>>
  <2>8. F(s)
    <3>1. /\ Head(Instance(name, t)) = "component"
          /\ FoundIn(Instance(name, t), parent) =
                <<[name |-> s, template |-> <<t>>, parent |-> parent]>>
      BY <1>0, <2>3, <2>6, <2>7, ComponentFound, ZenonT(120)
    <3> QED BY <3>1, Zenon
  <2> HIDE DEF F
  <2>9. F(<<"main">>)
    BY <2>6, <2>8, Zenon
  <2> QED BY <2>9 DEF F
<1> QED BY <1>2, <1>3

\* A part of a template is found under its name and leaves the depth as it is.
LEMMA PartFound ==
    ASSUME NEW parent, NEW d \in Nat
    PROVE  LET ts == Instance(<<"c">>, "B")
           IN  /\ Head(ts) = "component"
               /\ FoundIn(ts, parent) =
                     <<[name |-> <<"c">>, template |-> <<"B">>, parent |-> parent]>>
               /\ ~Closes(d, ts) /\ DepthAfter(d, ts) = d
<1> DEFINE ts == Instance(<<"c">>, "B")
<1>0. "c" \in Token /\ "B" \in Token /\ "B" # "(" /\ "c" # "=" /\ "{" # "c"
  BY Tokens0
<1>1. /\ \A i \in 1 .. Len(<<"c">>) : <<"c">>[i] # "="
      /\ "{" \notin Range(<<"c">>) /\ <<"c">> # <<>> /\ <<"c">> \in Seq(Token)
  BY <1>0, OneOther, Zenon
<1>2. /\ Head(ts) = "component"
      /\ FoundIn(ts, parent) = <<[name |-> <<"c">>, template |-> <<"B">>, parent |-> parent]>>
  BY <1>0, <1>1, ComponentFound, ZenonT(120)
<1>3. ts \in Seq(Plain)
  <2>0. "component" \in Plain /\ "c" \in Plain /\ "=" \in Plain /\ "B" \in Plain /\ "(" \in Plain
        /\ ")" \in Plain /\ ";" \in Plain
    BY PlainTokens
  <2> DEFINE s == <<"component">>
             r == <<"c">>
             u == <<"=", "B", "(", ")", ";">>
  <2>1. s \in Seq(Plain) /\ r \in Seq(Plain)
    BY <2>0, OneToken, Zenon
  <2>2. u \in Seq(Plain)
    BY <2>0, FiveTokens, Zenon
  <2>3. ts = (s \o r) \o u
    BY DEF Instance
  <2> HIDE DEF s, r, u, ts
  <2>4. s \o r \in Seq(Plain)
    BY <2>1, Joined, Zenon
  <2> QED BY <2>2, <2>3, <2>4, Joined, Zenon
<1>4. ~Closes(d, ts) /\ DepthAfter(d, ts) = d
  BY <1>3, PlainText, Zenon
<1> QED BY <1>2, <1>4

\* A text of four tokens, as its parts.
LEMMA FourTokens ==
    ASSUME NEW T
    PROVE  \A a, b, c, d \in T :
              /\ <<a, b, c, d>> = <<a>> \o <<b, c, d>>
              /\ <<a, b, c, d>> = <<a, b, c>> \o <<d>>
              /\ <<b, c, d>> \in Seq(T) /\ Len(<<b, c, d>>) > 0 /\ <<b, c, d>>[1] = b
              /\ <<a, b, c>> \in Seq(T)
              /\ <<a, b, c, d>> \in Seq(T)
OBVIOUS

\* A header opens one brace and gives the name of the template: with all its
\* modifiers for components, without the first of them for templates.
LEMMA HeaderFacts ==
    ASSUME NEW d \in Bodied
    PROVE  /\ Head(Header(d)) = d.kind
           /\ ~Closes(0, Header(d)) /\ DepthAfter(0, Header(d)) = 1
           /\ HeaderName("components", Header(d)) = d.mods \o <<d.name>>
           /\ Len(d.mods) <= 1 => HeaderName("templates", Header(d)) = <<d.name>>
           /\ d.mods \o <<d.name>> # <<>> /\ <<d.name>> # <<>>
<1> DEFINE k == <<d.kind>>
           m == d.mods
           n == <<d.name>>
           w == <<"(", ")", "{">>
           u == <<d.name, "(", ")">>
           v == <<d.name, "(", ")", "{">>
           e == <<"{">>
<1>0. /\ d.kind \in Plain /\ d.kind \in Token /\ d.name \in Plain /\ d.name \in Token
      /\ d.name # "(" /\ d.name \notin Modifiers /\ m \in Seq(Modifiers)
      /\ Modifiers \subseteq Plain /\ Plain \subseteq Token /\ \A x \in Modifiers : x # "("
      /\ "(" \in Plain /\ ")" \in Plain
      /\ "(" \in Token /\ ")" \in Token /\ "{" \in Token
  <2>1. d.kind \in {"template", "function", "bus"} /\ d.name \in Names /\ m \in Seq(Modifiers)
    BY BodiedParts, Zenon
  <2>2. \A x \in Modifiers : x # "("
    BY DEF Modifiers
  <2>3. Modifiers \subseteq Plain /\ Plain \subseteq Token
    BY PlainTokens, Zenon
  <2>4. d.kind \in Plain
    BY <2>1, PlainTokens
  <2>5. /\ d.name \in Plain /\ d.name # "(" /\ d.name \notin Modifiers
        /\ "(" \in Plain /\ ")" \in Plain /\ "(" \in Token /\ ")" \in Token /\ "{" \in Token
    BY <2>1, PlainTokens, Tokens0
  <2> QED BY <2>1, <2>2, <2>3, <2>4, <2>5, Zenon
<1>1. /\ v = n \o w /\ v = u \o e /\ w \in Seq(Token) /\ Len(w) > 0 /\ w[1] = "("
      /\ v \in Seq(Token)
  <2> DEFINE P(a, b, c, f) ==
               /\ <<a, b, c, f>> = <<a>> \o <<b, c, f>>
               /\ <<a, b, c, f>> = <<a, b, c>> \o <<f>>
               /\ <<b, c, f>> \in Seq(Token) /\ Len(<<b, c, f>>) > 0 /\ <<b, c, f>>[1] = b
               /\ <<a, b, c>> \in Seq(Token)
               /\ <<a, b, c, f>> \in Seq(Token)
  <2>1. \A a, b, c, f \in Token : P(a, b, c, f)
    BY FourTokens, Zenon
  <2> HIDE DEF P
  <2>2. P(d.name, "(", ")", "{")
    BY <1>0, <2>1, Zenon
  <2> QED BY <2>2 DEF P
<1>2. k \in Seq(Plain) /\ n \in Seq(Plain) /\ u \in Seq(Plain) /\ e \in Seq(Token) /\ n \in Seq(Token)
  <2>1. k \in Seq(Plain) /\ n \in Seq(Plain) /\ n \in Seq(Token) /\ e \in Seq(Token)
    BY <1>0, OneToken, Zenon
  <2>2. u \in Seq(Plain)
    BY <1>0, Sequence3, Zenon
  <2> QED BY <2>1, <2>2
<1>3. m \in Seq(Plain) /\ m \in Seq(Token) /\ \A i \in 1 .. Len(m) : m[i] # "("
  <2>1. \A i \in 1 .. Len(m) : m[i] \in Modifiers
    BY <1>0, ElementOfSeq, Zenon
  <2>2. m \in Seq(Plain)
    BY <1>0, WiderSeq, Zenon
  <2>3. m \in Seq(Token)
    BY <1>0, <2>2, WiderSeq, Zenon
  <2> QED BY <1>0, <2>1, <2>2, <2>3, Zenon
<1> DEFINE H == Header(d)
<1>4. H = (k \o m) \o v
  BY DEF Header
<1>5. n # <<>> /\ m \o n # <<>> /\ \A i \in 1 .. Len(n) : n[i] # "("
  <2>1. n # <<>> /\ \A i \in 1 .. Len(n) : n[i] # "("
    BY <1>0, OneOther, Zenon
  <2>2. m \o n # <<>>
    <3>1. Len(n) = 1
      BY <1>0, Sequence1, Zenon
    <3> DEFINE N == n
               M == m
    <3>2. M \in Seq(Token) /\ N \in Seq(Token) /\ Len(N) = 1
      BY <1>2, <1>3, <3>1
    <3> HIDE DEF N, M
    <3>3. Len(M) \in Nat /\ Len(N) \in Nat /\ Len(M \o N) = Len(M) + Len(N)
      BY <3>2, Joined, Zenon
    <3>4. Len(M \o N) # 0
      BY <3>2, <3>3
    <3>5. M \o N # <<>>
      BY <3>4
    <3> QED BY <3>5 DEF N, M
  <2> QED BY <2>1, <2>2, Zenon
<1> HIDE DEF k, m, n, w, u, v, e, H
<1>6. ~Closes(0, H) /\ DepthAfter(0, H) = 1
  <2>1. (k \o m) \o u \in Seq(Plain)
    BY <1>2, <1>3, Joined, Zenon
  <2>2. H = ((k \o m) \o u) \o e
    <3>1. k \in Seq(Token) /\ u \in Seq(Token)
      BY <1>0, <1>2, WiderSeq, Zenon
    <3>2. k \o m \in Seq(Token)
      BY <1>3, <3>1, Joined, Zenon
    <3>4. e \in Seq(Token)
      BY <1>2, Zenon
    <3>3. ((k \o m) \o u) \o e = (k \o m) \o (u \o e)
      BY <3>1, <3>2, <3>4, Associative, SMTT(30)
    <3> QED BY <1>1, <1>4, <3>3, Zenon
  <2> DEFINE z == (k \o m) \o u
  <2> HIDE DEF z
  <2>3. z \in Seq(Plain) /\ H = z \o <<"{">> /\ 0 \in Nat
    BY <2>1, <2>2 DEF z, e
  <2>4. ~Closes(0, H) /\ DepthAfter(0, H) = 0 + 1
    BY <2>3, OpeningText, Zenon
  <2> QED BY <2>4
<1>7. k \in Seq(Token) /\ m \o v \in Seq(Token) /\ H = k \o (m \o v)
  <2>1. k \in Seq(Token) /\ m \o v \in Seq(Token)
    BY <1>0, <1>1, <1>2, <1>3, WiderSeq, Joined, Zenon
  <2>2. m \in Seq(Token) /\ v \in Seq(Token) /\ k \in Seq(Token)
    BY <1>1, <1>3, <2>1, Zenon
  <2>3. (k \o m) \o v = k \o (m \o v)
    BY <2>2, Associative
  <2> QED BY <1>4, <2>1, <2>3, Zenon
<1>8. Head(H) = d.kind /\ Tail(H) = m \o v
  <2> DEFINE z == m \o v
             x == d.kind
  <2> HIDE DEF z, x
  <2>1. z \in Seq(Token) /\ x \in Token /\ H = <<x>> \o z
    BY <1>0, <1>7 DEF k, z, x
  <2>2. Head(H) = x /\ Tail(H) = z
    BY <2>1, HeadOfJoined, Zenon
  <2> QED BY <2>2 DEF z, x
<1>9. m \o v = (m \o n) \o w
  <2>1. m \in Seq(Token) /\ n \in Seq(Token) /\ w \in Seq(Token)
    BY <1>1, <1>2, <1>3, Zenon
  <2>2. (m \o n) \o w = m \o (n \o w)
    BY <2>1, Associative, SMTT(30)
  <2> QED BY <1>1, <2>2, Zenon
<1>10. m \o n \in Seq(Token) /\ \A i \in 1 .. Len(m \o n) : (m \o n)[i] # "("
  <2> DEFINE T == {x \in Token : x # "("}
             z == m \o n
  <2>0. \A x \in T : x \in Token /\ x # "("
    BY DEF T
  <2>1. n \in Seq(T)
    <3>1. d.name \in T
      BY <1>0
    <3> HIDE DEF T
    <3> QED BY <3>1, OneToken, Zenon DEF n
  <2>2. m \in Seq(T)
    <3>1. Modifiers \subseteq T
      BY <1>0
    <3> HIDE DEF T
    <3> QED BY <1>0, <3>1, WiderSeq, Zenon DEF m
  <2> HIDE DEF T
  <2>3. z \in Seq(T)
    BY <2>1, <2>2, Joined, Zenon
  <2> HIDE DEF z
  <2>4. \A i \in 1 .. Len(z) : z[i] # "("
    BY <2>0, <2>3, ElementOfSeq, Zenon
  <2>5. m \o n \in Seq(Token)
    BY <1>2, <1>3, Joined, Zenon
  <2> QED BY <2>4, <2>5 DEF z
<1>11. HeaderName("components", H) = m \o n
  <2>1. "components" # "templates"
    OBVIOUS
  <2>2. Before((m \o n) \o w, "(") = m \o n
    BY <1>1, <1>10, JoinedCut, Zenon
  <2> QED BY <1>8, <1>9, <2>1, <2>2, Zenon DEF HeaderName
<1>12. Before(v, "(") = n
  BY <1>1, <1>2, <1>5, JoinedCut, Zenon
<1>13. ASSUME Len(m) <= 1 PROVE HeaderName("templates", H) = n
  <2>1. Unmodified(m \o v) = v
    <3>1. CASE Len(m) = 0
      <4>1. m \o v = v
        <5>1. m = <<>>
          BY <1>3, <3>1
        <5> QED BY <1>1, <5>1
      <4>2. Head(v) \notin Modifiers
        <5>1. Head(v) = d.name
          <6> DEFINE x == d.name
          <6>1. x \in Token /\ v = <<x>> \o w
            BY <1>0, <1>1 DEF n
          <6> HIDE DEF x
          <6>2. Head(v) = x
            BY <1>1, <6>1, HeadOfJoined, Zenon
          <6> QED BY <6>2 DEF x
        <5> QED BY <1>0, <5>1, Zenon
      <4> QED BY <4>1, <4>2, Zenon DEF Unmodified
    <3>2. CASE Len(m) = 1
      <4> DEFINE x == m[1]
      <4>1. x \in Modifiers /\ x \in Token /\ m = <<x>>
        <5>1. x \in Modifiers /\ m = <<x>>
          <6>1. m \in Seq(Modifiers)
            BY <1>0 DEF m
          <6> QED BY <3>2, <6>1, SMTT(30)
        <5> QED BY <1>0, <5>1, Zenon
      <4> HIDE DEF x
      <4>2. Head(m \o v) = x /\ Tail(m \o v) = v
        BY <1>1, <4>1, HeadOfJoined, Zenon
      <4>3. m \o v # <<>>
        <5>1. m \in Seq(Token) /\ v \in Seq(Token)
          BY <1>1, <1>3, Zenon
        <5> QED BY <3>2, <5>1, NotEmpty, Zenon
      <4> QED BY <4>1, <4>2, <4>3, Zenon DEF Unmodified
    <3>3. Len(m) \in Nat
      BY <1>3, LenProperties, Zenon
    <3>4. Len(m) = 0 \/ Len(m) = 1
      BY <1>13, <3>3, AtMostOne, Zenon
    <3> QED BY <3>1, <3>2, <3>4, Zenon
  <2> QED BY <1>8, <1>12, <2>1, Zenon DEF HeaderName
<1> QED BY <1>5, <1>6, <1>8, <1>11, <1>13, Zenon DEF H, m, n

\* Joining with nothing.
LEMMA EmptyEnd ==
    ASSUME NEW T, NEW s \in Seq(T)
    PROVE  s \o <<>> = s /\ <<>> \o s = s
OBVIOUS

\* The parts of a text, one after the other.
LEMMA FlattenScans ==
    ASSUME NEW k, NEW L, NEW ss \in Seq(Seq(L)), NEW xs \in Seq(Seq(Finding)), NEW c,
           Len(xs) = Len(ss),
           \A i \in 1 .. Len(ss) : Scans(k, ss[i], c[i - 1], c[i], xs[i])
    PROVE  Scans(k, FlattenSeq(ss), c[0], c[Len(ss)], FlattenSeq(xs))
<1> DEFINE N == Len(ss)
<1>0. N \in Nat /\ \A n \in 1 .. N : ss[n] \in Seq(L)
  OBVIOUS
<1>1. PICK f : /\ f[0] = <<>>
               /\ \A n \in 1 .. Len(ss) : f[n] = f[n - 1] \o ss[n]
               /\ FlattenSeq(ss) = f[Len(ss)]
  BY FlattenSteps
<1>2. PICK g : /\ g[0] = <<>>
               /\ \A n \in 1 .. Len(xs) : g[n] = g[n - 1] \o xs[n]
               /\ FlattenSeq(xs) = g[Len(xs)]
  BY FlattenSteps
<1> DEFINE Good(n) == f[n] \in Seq(L) /\ Scans(k, f[n], c[0], c[n], g[n])
           S == {n \in Nat : n <= N => Good(n)}
<1>3. 0 \in S
  <2>1. <<>> \in Seq(L)
    OBVIOUS
  <2>2. Good(0)
    BY <1>1, <1>2, <2>1, NoLine, Zenon
  <2> QED BY <2>2
<1> HIDE DEF Good
<1>4. \A n \in Nat : n \in S => n + 1 \in S
  <2> SUFFICES ASSUME NEW n \in Nat, n \in S, n + 1 <= N PROVE Good(n + 1)
    OBVIOUS
  <2>1. n + 1 \in 1 .. N /\ (n + 1) - 1 = n /\ n <= N
    BY <1>0
  <2>2. Good(n)
    BY <2>1
  <2>3. ss[n + 1] \in Seq(L) /\ Scans(k, ss[n + 1], c[n], c[n + 1], xs[n + 1])
    <3>1. \A i \in 1 .. N : Scans(k, ss[i], c[i - 1], c[i], xs[i])
      OBVIOUS
    <3> HIDE DEF N
    <3> DEFINE m == n + 1
    <3>2. m \in 1 .. N /\ m - 1 = n
      BY <2>1
    <3> HIDE DEF m
    <3>3. ss[m] \in Seq(L) /\ Scans(k, ss[m], c[n], c[m], xs[m])
      BY <1>0, <3>1, <3>2, Zenon
    <3> QED BY <3>3 DEF m
  <2>4. f[n + 1] = f[n] \o ss[n + 1] /\ g[n + 1] = g[n] \o xs[n + 1]
    BY <1>1, <1>2, <2>1
  <2>5. f[n] \o ss[n + 1] \in Seq(L)
    BY <2>2, <2>3, Joined, Zenon DEF Good
  <2>6. Scans(k, f[n] \o ss[n + 1], c[0], c[n + 1], g[n] \o xs[n + 1])
    BY <2>2, <2>3, MoreLines, Zenon DEF Good
  <2> QED BY <2>4, <2>5, <2>6, Zenon DEF Good
<1> HIDE DEF S
<1>5. N \in S
  BY <1>0, <1>3, <1>4, Induction
<1>6. Good(N)
  BY <1>0, <1>5 DEF S
<1> QED BY <1>1, <1>2, <1>6 DEF Good

---------------------------------------------------------------------------
\* The body of a template.

\* Appending is joining with one element.
LEMMA AppendOne ==
    ASSUME NEW T, NEW s \in Seq(T), NEW x \in T
    PROVE  Append(s, x) = s \o <<x>>
OBVIOUS

\* Sequences are the same when their elements are.
LEMMA SameElements ==
    ASSUME NEW T, NEW s \in Seq(T), NEW t \in Seq(T), Len(s) = Len(t),
           \A i \in 1 .. Len(s) : s[i] = t[i]
    PROVE  s = t
OBVIOUS

\* Two lines, one after the other.
LEMMA PairJoined ==
    ASSUME NEW T, NEW a \in T, NEW b \in T
    PROVE  <<a>> \o <<b>> = <<a, b>> /\ <<a, b>> \in Seq(T)
<1> DEFINE s == <<a>>
           t == <<b>>
           u == <<a, b>>
<1>1. /\ s \in Seq(T) /\ t \in Seq(T) /\ u \in Seq(T) /\ Len(s) = 1 /\ Len(t) = 1 /\ Len(u) = 2
      /\ s[1] = u[1] /\ t[1] = u[2]
  OBVIOUS
<1> HIDE DEF s, t, u
<1> DEFINE v == s \o t
<1>2. /\ v \in Seq(T) /\ Len(s) \in Nat /\ Len(t) \in Nat
      /\ Len(v) = Len(s) + Len(t)
      /\ \A i \in 1 .. Len(s) : v[i] = s[i]
      /\ \A i \in 1 .. Len(t) : v[Len(s) + i] = t[i]
  <2>1. s \in Seq(T) /\ t \in Seq(T)
    BY <1>1
  <2> QED BY <2>1, Joined
<1> HIDE DEF v
<1>4. Len(v) = 2 /\ v[1] = u[1] /\ v[1 + 1] = u[2]
  BY <1>1, <1>2
<1>5. \A i \in 1 .. Len(v) : v[i] = u[i]
  BY <1>4
<1>3. v = u
  BY <1>1, <1>2, <1>4, <1>5, SameElements
<1> QED BY <1>1, <1>3 DEF s, t, u, v

\* Three lines, one after the other.
LEMMA ThreeJoined ==
    ASSUME NEW T, NEW a \in T, NEW b \in T, NEW c \in T
    PROVE  /\ <<a>> \in Seq(T) /\ <<b>> \in Seq(T) /\ <<c>> \in Seq(T)
           /\ <<b>> \o <<c>> \in Seq(T)
           /\ <<a>> \o (<<b>> \o <<c>>) = <<a, b, c>>
<1>1. <<b>> \o <<c>> = <<b, c>> /\ <<b, c>> \in Seq(T)
  BY PairJoined, Zenon
<1>2. <<a>> \in Seq(T) /\ <<b>> \in Seq(T) /\ <<c>> \in Seq(T)
  OBVIOUS
<1>3. <<a, b, c>> = <<a>> \o <<b, c>>
  BY ThreeTokens
<1> QED BY <1>1, <1>2, <1>3, Zenon

\* A line within a template that is neither an input nor a component.
LEMMA BodyLine ==
    ASSUME NEW k \in Scanners, NEW l, NEW n, NEW ins, NEW d, n # <<>>, NEW e,
           Head(l.text) \notin {"signal input", "component"}, ~Closes(d, l.text),
           DepthAfter(d, l.text) = e
    PROVE  Scans(k, <<l>>, Within(n, ins, d), Within(n, ins, e), <<>>)
<1> DEFINE c == Within(n, ins, d)
           ts == l.text
<1>0. Head(ts) # "signal input" /\ Head(ts) # "component"
  OBVIOUS
<1>1. /\ Behind(k, c, ts) = Kept(n, ins, d, ts)
      /\ k = "components" => Finds(k, c, ts) = FoundIn(ts, n)
      /\ k # "components" => Finds(k, c, ts) = <<>>
  BY <1>0, InsideLine, Zenon
<1>2. FoundIn(ts, n) = <<>>
  BY <1>0, Zenon DEF FoundIn
<1>3. Finds(k, c, ts) = <<>>
  BY <1>1, <1>2, Zenon
<1>4. <<>> \in Seq(Finding)
  BY EmptySeq, Zenon
<1>5. Behind(k, c, ts) = Within(n, ins, e)
  BY <1>1, Zenon DEF Kept
<1> QED BY <1>3, <1>4, <1>5, OneLine, Zenon

\* Where three tokens stand.
Placement(a, o, e, u) ==
    /\ Head(u) = a /\ SubSeq(u, 1, 3) = u
    /\ {i \in DOMAIN u : u[i] = o} = {2}
    /\ {i \in DOMAIN u : u[i] = e} = {3}

LEMMA Places ==
    ASSUME NEW T, NEW a \in T, NEW o \in T, NEW e \in T, a # o, a # e, o # e,
           NEW u, u = <<a, o, e>>
    PROVE  Placement(a, o, e, u)
<1> DEFINE p == SubSeq(u, 1, 3)
<1>1. u \in Seq(T) /\ Len(u) = 3 /\ u[1] = a /\ u[2] = o /\ u[3] = e /\ DOMAIN u = 1 .. 3
  OBVIOUS
<1>2. Head(u) = a
  OBVIOUS
<1>3. \A i \in 1 .. 3 : i = 1 \/ i = 2 \/ i = 3
  OBVIOUS
<1>4. {i \in DOMAIN u : u[i] = o} = {2} /\ {i \in DOMAIN u : u[i] = e} = {3}
  BY <1>1, <1>3
<1>5. p \in Seq(T) /\ Len(p) = 3 /\ \A i \in 1 .. 3 : p[i] = u[i]
  <2>1. \A i \in 1 .. 3 : u[i] \in T
    BY <1>1
  <2> QED BY <1>1, <2>1, SubSeqProperties
<1> HIDE DEF p
<1>6. p = u
  BY <1>1, <1>5, SameElements
<1> QED BY <1>2, <1>4, <1>6, Zenon DEF p, Placement

\* A pair of braces is one more and one less.
LEMMA PairSum == 1 + 1 - 1 = 1 /\ ~(1 <= 0)
OBVIOUS

\* A text with a pair of braces closes nothing within a template.
LEMMA BracesText ==
    ASSUME NEW braces, braces = <<"log", "{", "}">>
    PROVE  /\ ~Closes(1, braces) /\ DepthAfter(1, braces) = 1
           /\ Head(braces) = "log"
<1>1. /\ "log" \in Token /\ "{" \in Token /\ "}" \in Token
      /\ "log" # "{" /\ "log" # "}" /\ "{" # "}"
  BY Tokens0, Zenon
<1>2. /\ Head(braces) = "log"
      /\ {i \in DOMAIN braces : braces[i] = "{"} = {2}
      /\ {i \in DOMAIN braces : braces[i] = "}"} = {3}
      /\ SubSeq(braces, 1, 3) = braces
  <2>1. Placement("log", "{", "}", braces)
    BY <1>1, Places, Zenon
  <2> QED BY <2>1, Zenon DEF Placement
<1>3. Count(braces, "{") = 1 /\ Count(braces, "}") = 1
  BY <1>2, FS_Singleton, Zenon DEF Count
<1>4. DepthAfter(1, braces) = 1
  BY <1>3, PairSum, Zenon DEF DepthAfter
<1>5. ~Closes(1, braces)
  <2> SUFFICES ASSUME NEW i \in DOMAIN braces, braces[i] = "}"
               PROVE  ~(DepthAfter(1, SubSeq(braces, 1, i)) <= 0)
    BY Zenon DEF Closes
  <2>1. i = 3
    BY <1>2, Zenon
  <2> QED BY <1>2, <1>4, <2>1, PairSum, Zenon
<1> QED BY <1>2, <1>4, <1>5, Zenon

\* What a fragment of a body tells scanner k: an input, or a part of template n.
InputsOn(k, f) == Where(k = "templates" /\ f \in {"input a", "input b"}, InputName(f))
Part(parent) == [name |-> <<"c">>, template |-> <<"B">>, parent |-> parent]
PartsOn(k, n, f) == Where(k = "components" /\ f = "part", Part(n))

TidyBody == TemplateBody \ {"opens", "closes", "unbalanced"}

\* The type of a list of at most one item.
LEMMA WhereType ==
    ASSUME NEW T, NEW x, NEW p \in BOOLEAN, p => x \in T
    PROVE  Where(p, x) \in Seq(T)
BY DEF Where

\* The types of what a fragment tells a scanner.
LEMMA OnTypes ==
    ASSUME NEW k \in Scanners, NEW n \in Seq(Token), NEW f
    PROVE  InputsOn(k, f) \in Seq(Token) /\ PartsOn(k, n, f) \in Seq(Finding)
<1>1. "a" \in Token /\ "b" \in Token /\ "c" \in Token /\ "B" \in Token
  BY Tokens0
<1>2. InputName(f) \in Token
  BY <1>1, Zenon DEF InputName
<1>3. <<"c">> \in Seq(Token) /\ <<"B">> \in Seq(Token)
  BY <1>1, OneToken, Zenon
<1>4. Part(n) \in Finding
  BY <1>3 DEF Part, Finding
<1> QED BY <1>2, <1>4, WhereType, Zenon DEF InputsOn, PartsOn

\* A fragment of a body, within a template at depth one.
LEMMA FragmentScans ==
    ASSUME NEW k \in Scanners, NEW n \in Seq(Token), n # <<>>, NEW ins \in Seq(Token),
           NEW f \in TidyBody
    PROVE  Scans(k, Fragment(f), Within(n, ins, 1), Within(n, ins \o InputsOn(k, f), 1),
                 PartsOn(k, n, f))
<1>0. 1 \in Nat /\ 2 \in Nat /\ 1 + 1 = 2 /\ 2 - 1 = 1
  OBVIOUS
<1>1. ASSUME f \notin {"input a", "input b"}, f # "part"
      PROVE  InputsOn(k, f) = <<>> /\ PartsOn(k, n, f) = <<>> /\ ins \o InputsOn(k, f) = ins
  <2>1. InputsOn(k, f) = <<>> /\ PartsOn(k, n, f) = <<>>
    BY <1>1, Zenon DEF InputsOn, PartsOn, Where
  <2>2. ins \o <<>> = ins
    BY EmptyEnd, Zenon
  <2> QED BY <2>1, <2>2, Zenon
<1>2. ASSUME NEW l, NEW t \in {"stmt", "bad", "log"}, l.text = <<t>>, NEW d \in Nat
      PROVE  Scans(k, <<l>>, Within(n, ins, d), Within(n, ins, d), <<>>)
  <2>1. t \in Plain /\ t \notin {"signal input", "component"}
    BY PlainTokens
  <2>2. <<t>> \in Seq(Plain) /\ Head(<<t>>) = t
    <3>1. Head(<<t>>) = t
      OBVIOUS
    <3> QED BY <2>1, <3>1, OneToken, Zenon
  <2>3. ~Closes(d, <<t>>) /\ DepthAfter(d, <<t>>) = d
    BY <2>2, PlainText, Zenon
  <2> QED BY <1>2, <2>1, <2>2, <2>3, BodyLine, Zenon
<1>3. \A ts : Line(ts).text = ts
  BY DEF Line
<1>4. CASE f = "plain"
  <2>1. Fragment(f) = <<Line(<<"stmt">>)>>
    BY <1>4 DEF Fragment
  <2>2. f \notin {"input a", "input b"} /\ f # "part"
    BY <1>4
  <2> QED BY <1>0, <1>1, <1>2, <1>3, <2>1, <2>2, Zenon
<1>5. CASE f = "bad"
  <2>1. Fragment(f) = <<Line(<<"bad">>)>>
    BY <1>5 DEF Fragment
  <2>2. f \notin {"input a", "input b"} /\ f # "part"
    BY <1>5
  <2> QED BY <1>0, <1>1, <1>2, <1>3, <2>1, <2>2, Zenon
<1>6. CASE f = "said"
  <2> DEFINE l == [text |-> <<"log">>, code |-> <<"bad", "template", "w">>]
  <2>1. Fragment(f) = <<l>>
    BY <1>6 DEF Fragment
  <2>2. f \notin {"input a", "input b"} /\ f # "part" /\ l.text = <<"log">>
    BY <1>6
  <2> HIDE DEF l
  <2> QED BY <1>0, <1>1, <1>2, <2>1, <2>2, Zenon
<1>10. CASE f = "comments"
  <2> DEFINE l == [text |-> <<"log">>, code |-> <<"bad", "/*">>]
  <2>1. Fragment(f) = <<l>>
    BY <1>10 DEF Fragment
  <2>2. f \notin {"input a", "input b"} /\ f # "part" /\ l.text = <<"log">>
    BY <1>10
  <2> HIDE DEF l
  <2> QED BY <1>0, <1>1, <1>2, <2>1, <2>2, Zenon
<1>11. CASE f = "defines"
  <2> DEFINE l == [text |-> <<"log", "{", "}">>,
                   code |-> <<"bad", "template", "w", "(", ")", "{", "}">>]
  <2>1. Fragment(f) = <<l>>
    BY <1>11 DEF Fragment
  <2>2. f \notin {"input a", "input b"} /\ f # "part" /\ l.text = <<"log", "{", "}">>
    BY <1>11
  <2> HIDE DEF l
  <2>3. /\ ~Closes(1, l.text) /\ DepthAfter(1, l.text) = 1
        /\ Head(l.text) \notin {"signal input", "component"}
    <3>1. "log" \notin {"signal input", "component"}
      OBVIOUS
    <3> QED BY <2>2, <3>1, BracesText, Zenon
  <2>4. Scans(k, <<l>>, Within(n, ins, 1), Within(n, ins, 1), <<>>)
    BY <2>3, BodyLine, Zenon
  <2> QED BY <1>1, <2>1, <2>2, <2>4, Zenon
<1>7. CASE f = "loop"
  <2> DEFINE a == Line(<<"for", "{">>)
             b == Line(<<"stmt">>)
             e == Line(<<"}">>)
             one == Within(n, ins, 1)
             two == Within(n, ins, 2)
  <2>1. Fragment(f) = <<a, b, e>>
    BY <1>7 DEF Fragment
  <2>2. f \notin {"input a", "input b"} /\ f # "part"
    BY <1>7
  <2>3. Scans(k, <<a>>, one, two, <<>>)
    <3>1. "for" \in Plain /\ "for" \notin {"signal input", "component"}
      BY PlainTokens
    <3>2. <<"for">> \in Seq(Plain)
      BY <3>1, OneToken, Zenon
    <3>3. <<"for">> \o <<"{">> = <<"for", "{">>
      <4>1. "for" \in Token /\ "{" \in Token
        BY Tokens0
      <4> QED BY <4>1, PairJoined, Zenon
    <3>4. ~Closes(1, <<"for", "{">>) /\ DepthAfter(1, <<"for", "{">>) = 2
      BY <1>0, <3>2, <3>3, OpeningText, Zenon
    <3>5. Head(<<"for", "{">>) = "for"
      OBVIOUS
    <3> QED BY <1>3, <3>1, <3>4, <3>5, BodyLine, Zenon
  <2>4. Scans(k, <<b>>, two, two, <<>>)
    BY <1>0, <1>2, <1>3, Zenon
  <2>5. Scans(k, <<e>>, two, one, <<>>)
    <3>1. "}" \notin {"signal input", "component"} /\ Head(<<"}">>) = "}"
      OBVIOUS
    <3>2. DepthAfter(2, <<"}">>) = 1 /\ ~Closes(2, <<"}">>)
      <4>1. ~(1 <= 0)
        OBVIOUS
      <4> QED BY <1>0, <4>1, OneClosing, Zenon
    <3> QED BY <1>3, <3>1, <3>2, BodyLine, Zenon
  <2> HIDE DEF one, two
  <2>6. Scans(k, <<a, b, e>>, one, one, <<>>)
    <3> DEFINE L == {a, b, e}
    <3>1. a \in L /\ b \in L /\ e \in L
      OBVIOUS
    <3> HIDE DEF a, b, e, L
    <3>2. /\ <<a>> \in Seq(L) /\ <<b>> \in Seq(L) /\ <<e>> \in Seq(L)
          /\ <<b>> \o <<e>> \in Seq(L)
          /\ <<a>> \o (<<b>> \o <<e>>) = <<a, b, e>>
      BY <3>1, ThreeJoined, ZenonT(60)
    <3>5. <<>> \o (<<>> \o <<>>) = <<>>
      BY EmptyEnd, EmptySeq, Zenon
    <3>3. Scans(k, <<b>> \o <<e>>, two, one, <<>> \o <<>>)
      BY <2>4, <2>5, <3>2, MoreLines, Zenon
    <3>4. Scans(k, <<a>> \o (<<b>> \o <<e>>), one, one, <<>> \o (<<>> \o <<>>))
      BY <2>3, <3>2, <3>3, MoreLines, Zenon
    <3> QED BY <3>2, <3>4, <3>5, Zenon
  <2> QED BY <1>1, <2>1, <2>2, <2>6, Zenon DEF one
<1>8. CASE f = "part"
  <2> DEFINE ts == Instance(<<"c">>, "B")
             c == Within(n, ins, 1)
  <2>1. Fragment(f) = <<Line(ts)>>
    BY <1>8 DEF Fragment
  <2>2. /\ Head(ts) = "component" /\ FoundIn(ts, n) = <<Part(n)>>
        /\ ~Closes(1, ts) /\ DepthAfter(1, ts) = 1
    BY <1>0, PartFound, Zenon DEF Part
  <2>3. f \notin {"input a", "input b"} /\ "component" # "signal input"
    BY <1>8
  <2>4. InputsOn(k, f) = <<>> /\ ins \o <<>> = ins
    BY <2>3, EmptyEnd, Zenon DEF InputsOn, Where
  <2>5. PartsOn(k, n, f) = IF k = "components" THEN <<Part(n)>> ELSE <<>>
    BY <1>8, Zenon DEF PartsOn, Where
  <2> HIDE DEF ts
  <2>6. /\ Behind(k, c, ts) = Kept(n, ins, 1, ts)
        /\ k = "components" => Finds(k, c, ts) = FoundIn(ts, n)
        /\ k # "components" => Finds(k, c, ts) = <<>>
    BY <2>2, <2>3, InsideLine, Zenon
  <2>7. Behind(k, c, ts) = c /\ Finds(k, c, ts) = PartsOn(k, n, f)
    BY <2>2, <2>5, <2>6, Zenon DEF Kept
  <2>8. PartsOn(k, n, f) \in Seq(Finding)
    BY OnTypes, Zenon
  <2>9. Scans(k, <<Line(ts)>>, c, c, PartsOn(k, n, f))
    BY <1>3, <2>7, <2>8, OneLine, Zenon
  <2> QED BY <2>1, <2>4, <2>9, Zenon
<1>9. CASE f \in {"input a", "input b"}
  <2> DEFINE i == InputName(f)
             ts == <<"signal input", i>>
             c == Within(n, ins, 1)
  <2>1. Fragment(f) = <<Line(ts)>>
    BY <1>9 DEF Fragment
  <2>2. f # "part" /\ "signal input" # "component" /\ "templates" # "components"
    BY <1>9
  <2>3. i \in Plain /\ i \in Token /\ "signal input" \in Plain
    BY PlainTokens, Tokens0 DEF InputName
  <2>4. Head(ts) = "signal input" /\ ts[2] = i /\ ts \in Seq(Plain)
    <3> DEFINE P(x, y) == Head(<<x, y>>) = x /\ <<x, y>>[2] = y /\ <<x, y>> \in Seq(Plain)
    <3>1. \A x, y \in Plain : P(x, y)
      OBVIOUS
    <3> HIDE DEF P, i
    <3>2. P("signal input", i)
      BY <2>3, <3>1, Zenon
    <3> QED BY <3>2 DEF P
  <2>5. ~Closes(1, ts) /\ DepthAfter(1, ts) = 1
    BY <1>0, <2>4, PlainText, Zenon
  <2>6. PartsOn(k, n, f) = <<>> /\ <<>> \in Seq(Finding)
    BY <2>2, Zenon, EmptySeq DEF PartsOn, Where
  <2>7. InputsOn(k, f) = IF k = "templates" THEN <<i>> ELSE <<>>
    BY <1>9, Zenon DEF InputsOn, Where
  <2> HIDE DEF ts, i
  <2>8. CASE k = "templates"
    <3>1. Append(ins, i) = ins \o <<i>>
      BY <2>3, AppendOne, Zenon
    <3>4. /\ Behind("templates", c, ts) = Within(n, Append(ins, ts[2]), 1)
          /\ Finds("templates", c, ts) = <<>>
      BY <2>4, <2>5, InputLine, Zenon
    <3>2. Behind(k, c, ts) = Within(n, Append(ins, i), 1) /\ Finds(k, c, ts) = <<>>
      BY <2>4, <2>8, <3>4, Zenon
    <3>3. Scans(k, <<Line(ts)>>, c, Within(n, ins \o <<i>>, 1), <<>>)
      BY <1>3, <2>6, <3>1, <3>2, OneLine, Zenon
    <3> QED BY <2>1, <2>6, <2>7, <2>8, <3>3, Zenon
  <2>9. CASE k = "components"
    <3>1. ins \o <<>> = ins /\ InputsOn(k, f) = <<>>
      BY <2>2, <2>7, <2>9, EmptyEnd, Zenon
    <3>2. FoundIn(ts, n) = <<>>
      BY <2>2, <2>4, Zenon DEF FoundIn
    <3>5. /\ Behind(k, c, ts) = Kept(n, ins, 1, ts)
          /\ k = "components" => Finds(k, c, ts) = FoundIn(ts, n)
          /\ k # "components" => Finds(k, c, ts) = <<>>
      BY <2>5, <2>9, InsideLine, ZenonT(60)
    <3>3. Behind(k, c, ts) = c /\ Finds(k, c, ts) = <<>>
      BY <2>5, <2>9, <3>2, <3>5, Zenon DEF Kept
    <3>4. Scans(k, <<Line(ts)>>, c, c, <<>>)
      BY <1>3, <2>6, <3>3, OneLine, Zenon
    <3> QED BY <2>1, <2>6, <3>1, <3>4, Zenon
  <2> QED BY <2>8, <2>9, Zenon DEF Scanners
<1> QED BY <1>4, <1>5, <1>6, <1>7, <1>8, <1>9, <1>10, <1>11
   DEF TidyBody, TemplateBody, FunctionBody

\* Flattening, with the type of what it has at each step.
LEMMA FlattenTyped ==
    ASSUME NEW T, NEW ss \in Seq(Seq(T))
    PROVE  \E f : /\ f[0] = <<>>
                  /\ \A n \in 1 .. Len(ss) : f[n] = f[n - 1] \o ss[n]
                  /\ FlattenSeq(ss) = f[Len(ss)]
                  /\ \A n \in 0 .. Len(ss) : f[n] \in Seq(T)
<1>1. PICK f : /\ f[0] = <<>>
               /\ \A n \in 1 .. Len(ss) : f[n] = f[n - 1] \o ss[n]
               /\ FlattenSeq(ss) = f[Len(ss)]
  BY FlattenSteps
<1> DEFINE S == {n \in Nat : n <= Len(ss) => f[n] \in Seq(T)}
<1>2. Len(ss) \in Nat /\ \A n \in 1 .. Len(ss) : ss[n] \in Seq(T)
  OBVIOUS
<1>3. 0 \in S
  <2>1. f[0] \in Seq(T)
    BY <1>1
  <2> QED BY <2>1
<1>4. \A n \in Nat : n \in S => n + 1 \in S
  <2> SUFFICES ASSUME NEW n \in Nat, n \in S, n + 1 <= Len(ss) PROVE f[n + 1] \in Seq(T)
    OBVIOUS
  <2>1. f[n] \in Seq(T) /\ ss[n + 1] \in Seq(T)
    BY <1>2
  <2>2. n + 1 \in 1 .. Len(ss) /\ (n + 1) - 1 = n
    BY <1>2
  <2>3. f[n + 1] = f[n] \o ss[n + 1]
    BY <1>1, <2>2
  <2> QED BY <2>1, <2>3
<1> HIDE DEF S
<1>5. \A n \in Nat : n \in S
  BY <1>3, <1>4, Induction
<1>6. \A n \in 0 .. Len(ss) : f[n] \in Seq(T)
  BY <1>2, <1>5 DEF S
<1> QED BY <1>1, <1>6

\* Flattening what is empty.
LEMMA FlattenNothing ==
    ASSUME NEW N \in Nat, NEW ss, ss = [i \in 1 .. N |-> <<>>]
    PROVE  FlattenSeq(ss) = <<>>
<1>1. ss \in Seq(Seq({}))
  OBVIOUS
<1>2. FlattenSeq(ss) \in Seq({})
  BY <1>1, FlattenType, Zenon
<1> DEFINE t == FlattenSeq(ss)
<1> HIDE DEF t
<1>3. \A u \in Seq({}) : u = <<>>
  OBVIOUS
<1> QED BY <1>2, <1>3, Zenon

\* All that a body has.
LEMMA BodyScans ==
    ASSUME NEW k \in Scanners, NEW n \in Seq(Token), n # <<>>, NEW b \in Seq(TidyBody)
    PROVE  Scans(k, FlattenSeq([i \in DOMAIN b |-> Fragment(b[i])]),
                 Within(n, <<>>, 1),
                 Within(n, FlattenSeq([i \in DOMAIN b |-> InputsOn(k, b[i])]), 1),
                 FlattenSeq([i \in DOMAIN b |-> PartsOn(k, n, b[i])]))
<1> DEFINE N == Len(b)
           ss == [i \in DOMAIN b |-> Fragment(b[i])]
           is == [i \in DOMAIN b |-> InputsOn(k, b[i])]
           xs == [i \in DOMAIN b |-> PartsOn(k, n, b[i])]
<1>0. N \in Nat /\ DOMAIN b = 1 .. N /\ \A i \in 1 .. N : b[i] \in TidyBody
  OBVIOUS
<1>1. ss \in Seq(Seq(GoodLine)) /\ Len(ss) = N /\ \A i \in 1 .. N : ss[i] = Fragment(b[i])
  <2>1. \A i \in 1 .. N : Fragment(b[i]) \in Seq(GoodLine)
    <3>1. TidyBody \subseteq TemplateBody \cup {"field"}
      BY DEF TidyBody
    <3> QED BY <1>0, <3>1, FragmentLines
  <2> QED BY <1>0, <2>1
<1>2. is \in Seq(Seq(Token)) /\ Len(is) = N /\ \A i \in 1 .. N : is[i] = InputsOn(k, b[i])
  <2>1. \A i \in 1 .. N : InputsOn(k, b[i]) \in Seq(Token)
    BY OnTypes, Zenon
  <2> QED BY <1>0, <2>1
<1>3. xs \in Seq(Seq(Finding)) /\ Len(xs) = N /\ \A i \in 1 .. N : xs[i] = PartsOn(k, n, b[i])
  <2>1. \A i \in 1 .. N : PartsOn(k, n, b[i]) \in Seq(Finding)
    BY OnTypes, Zenon
  <2> QED BY <1>0, <2>1
<1> HIDE DEF ss, is, xs, N
<1>4. PICK h : /\ h[0] = <<>>
               /\ \A i \in 1 .. N : h[i] = h[i - 1] \o is[i]
               /\ FlattenSeq(is) = h[N]
               /\ \A i \in 0 .. N : h[i] \in Seq(Token)
  BY <1>2, FlattenTyped
<1> DEFINE c == [i \in 0 .. N |-> Within(n, h[i], 1)]
<1>5. \A i \in 1 .. N : Scans(k, ss[i], c[i - 1], c[i], xs[i])
  <2> SUFFICES ASSUME NEW i \in 1 .. N PROVE Scans(k, ss[i], c[i - 1], c[i], xs[i])
    OBVIOUS
  <2>1. i \in 0 .. N /\ i - 1 \in 0 .. N
    BY <1>0
  <2>2. c[i] = Within(n, h[i], 1) /\ c[i - 1] = Within(n, h[i - 1], 1)
    BY <2>1
  <2>3. h[i] = h[i - 1] \o InputsOn(k, b[i]) /\ h[i - 1] \in Seq(Token)
    BY <1>2, <1>4, <2>1, Zenon
  <2>4. b[i] \in TidyBody
    BY <1>0
  <2> HIDE DEF c
  <2>5. Scans(k, Fragment(b[i]), Within(n, h[i - 1], 1),
              Within(n, h[i - 1] \o InputsOn(k, b[i]), 1), PartsOn(k, n, b[i]))
    BY <2>3, <2>4, FragmentScans, Zenon
  <2> QED BY <1>1, <1>3, <2>2, <2>3, <2>5, Zenon
<1>6. c[0] = Within(n, <<>>, 1) /\ c[N] = Within(n, FlattenSeq(is), 1)
  BY <1>0, <1>4
<1> HIDE DEF c
<1>7. Scans(k, FlattenSeq(ss), c[0], c[N], FlattenSeq(xs))
  BY <1>1, <1>3, <1>5, FlattenScans, Zenon
<1> QED BY <1>6, <1>7, Zenon DEF ss, is, xs

---------------------------------------------------------------------------
\* Outside of templates.

\* A line outside of any template, neither header nor component.
LEMMA OutsideScan ==
    ASSUME NEW k \in Scanners, NEW l, Head(l.text) # "template", Head(l.text) # "component"
    PROVE  Scans(k, <<l>>, Outside, Outside, <<>>)
<1>1. Behind(k, Outside, l.text) = Outside /\ Finds(k, Outside, l.text) = <<>>
  BY OutsideLine, Zenon
<1>2. <<>> \in Seq(Finding)
  BY EmptySeq, Zenon
<1> QED BY <1>1, <1>2, OneLine, Zenon

\* What a function or a bus has in its body.
PlainBody == {"plain", "loop", "bad", "said", "defines", "comments", "field"}

\* A fragment of the body of a function or a bus.
LEMMA OutsideFragment ==
    ASSUME NEW k \in Scanners, NEW f \in PlainBody
    PROVE  Scans(k, Fragment(f), Outside, Outside, <<>>)
<1>1. \A t : Head(<<t>>) = t
  OBVIOUS
<1>2. \A ts : Line(ts).text = ts
  BY DEF Line
<1>3. /\ "stmt" # "template" /\ "stmt" # "component" /\ "bad" # "template" /\ "bad" # "component"
      /\ "log" # "template" /\ "log" # "component" /\ "}" # "template" /\ "}" # "component"
  OBVIOUS
<1>4. CASE f = "plain"
  <2>1. Fragment(f) = <<Line(<<"stmt">>)>>
    BY <1>4 DEF Fragment
  <2> QED BY <1>1, <1>2, <1>3, <2>1, OutsideScan, Zenon
<1>5. CASE f = "bad"
  <2>1. Fragment(f) = <<Line(<<"bad">>)>>
    BY <1>5 DEF Fragment
  <2> QED BY <1>1, <1>2, <1>3, <2>1, OutsideScan, Zenon
<1>6. CASE f = "said"
  <2> DEFINE l == [text |-> <<"log">>, code |-> <<"bad", "template", "w">>]
  <2>1. Fragment(f) = <<l>> /\ l.text = <<"log">>
    BY <1>6 DEF Fragment
  <2> HIDE DEF l
  <2> QED BY <1>1, <1>3, <2>1, OutsideScan, Zenon
<1>9. CASE f = "comments"
  <2> DEFINE l == [text |-> <<"log">>, code |-> <<"bad", "/*">>]
  <2>1. Fragment(f) = <<l>> /\ l.text = <<"log">>
    BY <1>9 DEF Fragment
  <2> HIDE DEF l
  <2> QED BY <1>1, <1>3, <2>1, OutsideScan, Zenon
<1>10. CASE f = "defines"
  <2> DEFINE l == [text |-> <<"log", "{", "}">>,
                   code |-> <<"bad", "template", "w", "(", ")", "{", "}">>]
  <2>1. Fragment(f) = <<l>> /\ l.text = <<"log", "{", "}">>
    BY <1>10 DEF Fragment
  <2> HIDE DEF l
  <2>2. Head(l.text) # "template" /\ Head(l.text) # "component"
    BY <1>3, <2>1, BracesText, Zenon
  <2> QED BY <2>1, <2>2, OutsideScan, Zenon
<1>7. CASE f = "field"
  <2> DEFINE l == Line(<<"signal", "x", ";">>)
  <2>1. Fragment(f) = <<l>>
    BY <1>7 DEF Fragment
  <2>2. Head(l.text) # "template" /\ Head(l.text) # "component"
    BY DEF Line
  <2> HIDE DEF l
  <2> QED BY <2>1, <2>2, OutsideScan, Zenon
<1>8. CASE f = "loop"
  <2> DEFINE a == Line(<<"for", "{">>)
             b == Line(<<"stmt">>)
             e == Line(<<"}">>)
  <2>1. Fragment(f) = <<a, b, e>>
    BY <1>8 DEF Fragment
  <2>2. Head(a.text) # "template" /\ Head(a.text) # "component"
    BY DEF Line
  <2>3. /\ Scans(k, <<a>>, Outside, Outside, <<>>)
        /\ Scans(k, <<b>>, Outside, Outside, <<>>)
        /\ Scans(k, <<e>>, Outside, Outside, <<>>)
    <3>1. Scans(k, <<a>>, Outside, Outside, <<>>)
      BY <2>2, OutsideScan, Zenon
    <3>2. Scans(k, <<b>>, Outside, Outside, <<>>)
      BY <1>1, <1>2, <1>3, OutsideScan, Zenon
    <3>3. Scans(k, <<e>>, Outside, Outside, <<>>)
      BY <1>1, <1>2, <1>3, OutsideScan, Zenon
    <3> QED BY <3>1, <3>2, <3>3
  <2> DEFINE L == {a, b, e}
  <2>4. a \in L /\ b \in L /\ e \in L
    OBVIOUS
  <2> HIDE DEF a, b, e, L
  <2>5. /\ <<a>> \in Seq(L) /\ <<b>> \in Seq(L) /\ <<e>> \in Seq(L)
        /\ <<b>> \o <<e>> \in Seq(L)
        /\ <<a>> \o (<<b>> \o <<e>>) = <<a, b, e>>
    BY <2>4, ThreeJoined, Zenon
  <2>6. <<>> \o (<<>> \o <<>>) = <<>>
    BY EmptyEnd, EmptySeq, Zenon
  <2>7. Scans(k, <<b>> \o <<e>>, Outside, Outside, <<>> \o <<>>)
    BY <2>3, <2>5, MoreLines, Zenon
  <2>8. Scans(k, <<a>> \o (<<b>> \o <<e>>), Outside, Outside, <<>> \o (<<>> \o <<>>))
    BY <2>3, <2>5, <2>7, MoreLines, Zenon
  <2> QED BY <2>1, <2>5, <2>6, <2>8, Zenon
<1> QED BY <1>4, <1>5, <1>6, <1>7, <1>8, <1>9, <1>10 DEF PlainBody

\* The body of a function or a bus.
LEMMA OutsideBody ==
    ASSUME NEW k \in Scanners, NEW b \in Seq(PlainBody)
    PROVE  Scans(k, FlattenSeq([i \in DOMAIN b |-> Fragment(b[i])]), Outside, Outside, <<>>)
<1> DEFINE N == Len(b)
           ss == [i \in DOMAIN b |-> Fragment(b[i])]
           xs == [i \in 1 .. N |-> <<>>]
           c == [i \in 0 .. N |-> Outside]
<1>0. N \in Nat /\ DOMAIN b = 1 .. N /\ \A i \in 1 .. N : b[i] \in PlainBody
  OBVIOUS
<1>1. ss \in Seq(Seq(GoodLine)) /\ Len(ss) = N /\ \A i \in 1 .. N : ss[i] = Fragment(b[i])
  <2>1. \A i \in 1 .. N : Fragment(b[i]) \in Seq(GoodLine)
    <3>1. PlainBody \subseteq TemplateBody \cup {"field"}
      BY DEF PlainBody, TemplateBody, FunctionBody
    <3> QED BY <1>0, <3>1, FragmentLines
  <2> QED BY <1>0, <2>1
<1>2. xs \in Seq(Seq(Finding)) /\ Len(xs) = N /\ \A i \in 1 .. N : xs[i] = <<>>
  BY <1>0
<1>3. FlattenSeq(xs) = <<>>
  BY <1>0, FlattenNothing, Zenon
<1>4. c[0] = Outside /\ c[N] = Outside /\ \A i \in 1 .. N : c[i] = Outside /\ c[i - 1] = Outside
  BY <1>0
<1> HIDE DEF ss, xs, c, N
<1>5. \A i \in 1 .. N : Scans(k, ss[i], c[i - 1], c[i], xs[i])
  BY <1>0, <1>1, <1>2, <1>4, OutsideFragment, Zenon
<1>6. Scans(k, FlattenSeq(ss), c[0], c[N], FlattenSeq(xs))
  BY <1>1, <1>2, <1>5, FlattenScans, Zenon
<1> QED BY <1>3, <1>4, <1>6, Zenon DEF ss

---------------------------------------------------------------------------
\* A definition, and a source.

TidyDef(d) ==
    /\ d.kind # "quoted"
    /\ d.kind \notin {"main", "public"} =>
         ~d.glued /\ Range(d.body) \cap {"opens", "closes", "unbalanced"} = {}

\* The lines of a definition that starts on a line of its own.
DefLines(d) ==
    CASE d.kind = "main" -> <<Line(Instance(<<"main">>, d.name))>>
      [] d.kind = "public" -> <<Line(Instance(<<"main", "{", "}">>, d.name))>>
      [] OTHER -> (<<Line(Header(d))>> \o Body(d)) \o <<Line(<<"}">>)>>

\* What a definition has for each of the scanners; the parent of a component is the
\* name of the template with its modifiers.
TemplateOf(d) == Where(d.kind = "template", [name |-> <<d.name>>, inputs |-> Inputs(d)])
PartsOf(d) ==
    IF d.kind \in {"main", "public"}
    THEN <<[name |-> <<"main">>, template |-> <<d.name>>, parent |-> <<>>]>>
    ELSE IF d.kind # "template" THEN <<>>
    ELSE FlattenSeq([i \in DOMAIN d.body |->
             Where(d.body[i] = "part", Part(d.mods \o <<d.name>>))])
FoundOf(k, d) == IF k = "templates" THEN TemplateOf(d) ELSE PartsOf(d)

\* What the kinds of a definition say of it.
LEMMA KindsOf ==
    ASSUME NEW d \in Definitions
    PROVE  /\ d.kind \in {"template", "function", "bus", "main", "public", "quoted"}
           /\ d.name \in Names
           /\ d.kind \in {"template", "function", "bus"} => d \in Bodied
           /\ d.kind = "template" => d.body \in Seq(TemplateBody)
           /\ d.kind = "function" => d.body \in Seq(FunctionBody)
           /\ d.kind = "bus" => d.body \in Seq({"field"})
<1>1. CASE d \in TemplateDefs
  BY <1>1 DEF TemplateDefs, Bodied
<1>2. CASE d \in FunctionDefs
  BY <1>2 DEF FunctionDefs, Bodied
<1>3. CASE d \in BusDefs
  BY <1>3 DEF BusDefs, Bodied
<1>4. CASE d \in OtherDefs
  BY <1>4 DEF OtherDefs
<1> QED BY <1>1, <1>2, <1>3, <1>4 DEF Definitions

\* The elements of a sequence and its type.
LEMMA RangeIn ==
    ASSUME NEW S, NEW T, NEW b \in Seq(S)
    PROVE  Range(b) \subseteq S /\ (Range(b) \subseteq T => b \in Seq(T))
<1>1. \A i \in 1 .. Len(b) : b[i] \in S /\ b[i] \in Range(b)
  BY DEF Range
<1>2. b = [i \in 1 .. Len(b) |-> b[i]] /\ Len(b) \in Nat /\ DOMAIN b = 1 .. Len(b)
  OBVIOUS
<1>3. Range(b) \subseteq S
  BY <1>1, <1>2 DEF Range
<1>4. ASSUME Range(b) \subseteq T PROVE b \in Seq(T)
  <2>1. \A i \in 1 .. Len(b) : b[i] \in T
    BY <1>1, <1>4
  <2> QED BY <1>2, <2>1
<1> QED BY <1>3, <1>4

Regrouped(s, t, u, v) == ((s \o t) \o u) \o v = s \o ((t \o u) \o v)

\* Joining four parts in another order.
LEMMA FourParts ==
    ASSUME NEW T, NEW s \in Seq(T), NEW t \in Seq(T), NEW u \in Seq(T), NEW v \in Seq(T)
    PROVE  Regrouped(s, t, u, v)
<1>1. s \o t \in Seq(T) /\ t \o u \in Seq(T)
  BY Joined, Zenon
<1>2. (s \o t) \o u = s \o (t \o u)
  BY Associative
<1> DEFINE w == t \o u
<1> HIDE DEF w
<1>3. (s \o w) \o v = s \o (w \o v)
  <2>1. w \in Seq(T)
    BY <1>1 DEF w
  <2> QED BY <2>1, Associative, SMTT(30)
<1> QED BY <1>2, <1>3, Zenon DEF w, Regrouped

\* A tidy definition is written behind the lines before it.
LEMMA WrittenBehind ==
    ASSUME NEW ls \in Seq(GoodLine), NEW d \in Definitions, TidyDef(d)
    PROVE  AddLines(ls, d) = ls \o DefLines(d) /\ DefLines(d) \in Seq(GoodLine)
<1>1. \A l \in GoodLine : Append(ls, l) = ls \o <<l>> /\ <<l>> \in Seq(GoodLine)
  OBVIOUS
<1>2. CASE d.kind \in {"main", "public"}
  <2>1. d.name \in Token
    BY KindsOf, Tokens0
  <2>2. <<"main">> \in Seq(Token) /\ <<"main", "{", "}">> \in Seq(Token)
    BY Tokens0, Sequence1, Sequence3
  <2>3. PICK t \in GoodText : AddLines(ls, d) = Append(ls, Line(t)) /\ DefLines(d) = <<Line(t)>>
    <3>1. /\ Instance(<<"main">>, d.name) \in GoodText
          /\ Instance(<<"main", "{", "}">>, d.name) \in GoodText
      BY <2>1, <2>2, InstanceIsGood
    <3>2. CASE d.kind = "main"
      BY <3>1, <3>2 DEF AddLines, DefLines
    <3>3. CASE d.kind = "public"
      BY <3>1, <3>3 DEF AddLines, DefLines
    <3> QED BY <1>2, <3>2, <3>3
  <2>4. Line(t) \in GoodLine
    BY LineIsGood
  <2> QED BY <1>1, <2>3, <2>4, Zenon
<1>3. CASE d.kind \in {"template", "function", "bus"}
  <2> DEFINE h == <<Line(Header(d))>>
             b == Body(d)
             e == <<Line(<<"}">>)>>
  <2>1. d \in Bodied
    BY <1>3, KindsOf
  <2>2. h \in Seq(GoodLine) /\ b \in Seq(GoodLine) /\ e \in Seq(GoodLine)
    <3>1. <<"}">> \in GoodText
      BY Tokens0, Sequence1, PlainTextIsGood
    <3>2. Line(Header(d)) \in GoodLine /\ Line(<<"}">>) \in GoodLine
      BY <2>1, <3>1, HeaderIsGood, LineIsGood
    <3>3. h \in Seq(GoodLine) /\ e \in Seq(GoodLine)
      BY <1>1, <3>2, Zenon
    <3> QED BY <2>1, <3>3, BodyIsGood, Zenon
  <2>3. ~Glued(d)
    BY <1>3 DEF TidyDef, Glued
  <2>4. AddLines(ls, d) = ((ls \o h) \o b) \o e
    BY <1>3, <2>3 DEF AddLines
  <2>5. DefLines(d) = (h \o b) \o e
    BY <1>3 DEF DefLines
  <2> HIDE DEF h, b, e
  <2>6. ((ls \o h) \o b) \o e = ls \o ((h \o b) \o e)
    <3>1. Regrouped(ls, h, b, e)
      BY <2>2, FourParts, Zenon
    <3> QED BY <3>1, Zenon DEF Regrouped
  <2>7. (h \o b) \o e \in Seq(GoodLine)
    BY <2>2, Joined, Zenon
  <2> QED BY <2>4, <2>5, <2>6, <2>7, Zenon
<1> QED BY <1>2, <1>3, KindsOf DEF TidyDef

\* Nothing, three times.
LEMMA TwoEmpty == (<<>> \o <<>>) \o <<>> = <<>>
BY EmptyEnd, EmptySeq, Zenon

\* A template as a scanner reads it.
LEMMA TemplateScans ==
    ASSUME NEW k \in Scanners, NEW d \in Definitions, TidyDef(d), d.kind = "template",
           k = "templates" => Len(d.mods) <= 1
    PROVE  Scans(k, DefLines(d), Outside, Outside, FoundOf(k, d))
<1> DEFINE H == Header(d)
           n == HeaderName(k, H)
           h == <<Line(H)>>
           b == Body(d)
           e == <<Line(<<"}">>)>>
           ins == FlattenSeq([i \in DOMAIN d.body |-> InputsOn(k, d.body[i])])
           xs == FlattenSeq([i \in DOMAIN d.body |-> PartsOn(k, n, d.body[i])])
           ys == IF k = "components" THEN <<>> ELSE <<[name |-> n, inputs |-> ins]>>
<1>0. \A ts : Line(ts).text = ts
  BY DEF Line
<1>1. d \in Bodied /\ d.body \in Seq(TidyBody) /\ d.name \in Names /\ d.mods \in Seq(Token)
  <2>1. d \in Bodied /\ d.name \in Names /\ d.body \in Seq(TemplateBody)
    BY KindsOf
  <2>2. Range(d.body) \cap {"opens", "closes", "unbalanced"} = {}
    BY DEF TidyDef
  <2>3. d.body \in Seq(TidyBody)
    <3>1. Range(d.body) \subseteq TemplateBody
      BY <2>1, RangeIn, Zenon
    <3>2. Range(d.body) \subseteq TidyBody
      BY <2>2, <3>1 DEF TidyBody
    <3> QED BY <2>1, <3>2, RangeIn, Zenon
  <2>4. d.mods \in Seq(Token)
    <3>1. d.mods \in Seq(Modifiers)
      BY <2>1, BodiedParts, Zenon
    <3>2. Modifiers \subseteq Token
      BY PlainTokens
    <3> QED BY <3>1, <3>2, WiderSeq, Zenon
  <2> QED BY <2>1, <2>3, <2>4
<1>2. /\ k = "components" => n = d.mods \o <<d.name>>
      /\ k = "templates" => n = <<d.name>>
  BY <1>1, HeaderFacts, Zenon
<1>3. n \in Seq(Token) /\ n # <<>>
  <2>1. d.name \in Token
    BY <1>1, Tokens0
  <2>2. <<d.name>> \in Seq(Token)
    BY <2>1, OneToken, Zenon
  <2>3. d.mods \o <<d.name>> \in Seq(Token)
    BY <1>1, <2>2, Joined, Zenon
  <2>4. d.mods \o <<d.name>> # <<>> /\ <<d.name>> # <<>>
    BY <1>1, HeaderFacts, Zenon
  <2>5. k = "components" \/ k = "templates"
    BY DEF Scanners
  <2> QED BY <1>2, <2>2, <2>3, <2>4, <2>5, Zenon
<1>4. h \in Seq(GoodLine) /\ b \in Seq(GoodLine) /\ e \in Seq(GoodLine)
  <2>1. <<"}">> \in GoodText
    BY Tokens0, Sequence1, PlainTextIsGood
  <2>2. Line(H) \in GoodLine /\ Line(<<"}">>) \in GoodLine
    BY <1>1, <2>1, HeaderIsGood, LineIsGood
  <2>3. \A l \in GoodLine : <<l>> \in Seq(GoodLine)
    OBVIOUS
  <2>4. h \in Seq(GoodLine) /\ e \in Seq(GoodLine)
    BY <2>2, <2>3, Zenon
  <2> QED BY <1>1, <2>4, BodyIsGood, Zenon
<1>5. Scans(k, h, Outside, Within(n, <<>>, 1), <<>>)
  <2>1. Head(H) = "template" /\ ~Closes(0, H) /\ DepthAfter(0, H) = 1
    BY <1>1, HeaderFacts, Zenon
  <2>2. Behind(k, Outside, H) = Within(n, <<>>, 1) /\ Finds(k, Outside, H) = <<>>
    BY <1>3, <2>1, HeaderLine, Zenon
  <2>3. <<>> \in Seq(Finding)
    BY EmptySeq, Zenon
  <2> HIDE DEF H, n
  <2> QED BY <1>0, <2>2, <2>3, OneLine, Zenon
<1>6. Scans(k, b, Within(n, <<>>, 1), Within(n, ins, 1), xs)
  <2> HIDE DEF n
  <2> QED BY <1>1, <1>3, BodyScans, Zenon DEF Body
<1>7. ins \in Seq(Token)
  <2> DEFINE is == [i \in DOMAIN d.body |-> InputsOn(k, d.body[i])]
             l == Len(d.body)
  <2>1. \A i : InputsOn(k, d.body[i]) \in Seq(Token)
    BY <1>3, OnTypes, Zenon
  <2>2. DOMAIN d.body = 1 .. l /\ l \in Nat
    BY <1>1
  <2>3. is \in Seq(Seq(Token))
    BY <2>1, <2>2
  <2> HIDE DEF is
  <2> QED BY <2>3, FlattenType, Zenon DEF is
<1> HIDE DEF n, ins, xs, H, b
<1>8. Scans(k, e, Within(n, ins, 1), Outside, ys)
  <2> DEFINE ts == <<"}">>
  <2>1. Head(ts) # "signal input" /\ Head(ts) # "component" /\ 1 - 1 <= 0 /\ 1 \in Nat
    OBVIOUS
  <2>2. Closes(1, ts)
    BY <2>1, OneClosing, Zenon
  <2> HIDE DEF ts
  <2>3. /\ Behind(k, Within(n, ins, 1), ts) = Outside
        /\ Finds(k, Within(n, ins, 1), ts) = Closed(k, n, ins)
    BY <1>3, <2>1, <2>2, ClosingLine, Zenon
  <2>5. Finds(k, Within(n, ins, 1), ts) = ys
    BY <2>3, Zenon DEF Closed
  <2>4. ys \in Seq(Finding)
    <3>1. [name |-> n, inputs |-> ins] \in Finding
      BY <1>3, <1>7 DEF Finding
    <3>2. <<[name |-> n, inputs |-> ins]>> \in Seq(Finding) /\ <<>> \in Seq(Finding)
      BY <3>1, OneToken, EmptySeq, Zenon
    <3> QED BY <3>2, Zenon
  <2> HIDE DEF ys
  <2> QED BY <1>0, <2>3, <2>4, <2>5, OneLine, Zenon DEF ts
<1> HIDE DEF h, e, ys
<1>9. Scans(k, h \o b, Outside, Within(n, ins, 1), <<>> \o xs)
  BY <1>4, <1>5, <1>6, MoreLines, Zenon
<1>10. h \o b \in Seq(GoodLine)
  BY <1>4, Joined, Zenon
<1>11. Scans(k, (h \o b) \o e, Outside, Outside, (<<>> \o xs) \o ys)
  BY <1>4, <1>8, <1>9, <1>10, MoreLines, Zenon
<1>12. DefLines(d) = (h \o b) \o e
  BY DEF DefLines, h, H, b, e
<1>13. (<<>> \o xs) \o ys = FoundOf(k, d)
  <2>0. DOMAIN d.body = 1 .. Len(d.body) /\ Len(d.body) \in Nat
    BY <1>1
  <2>1. CASE k = "templates"
    <3>1. "templates" # "components"
      OBVIOUS
    <3>2. xs = <<>>
      <4>1. \A i : PartsOn(k, n, d.body[i]) = <<>>
        BY <2>1, <3>1, Zenon DEF PartsOn, Where
      <4>2. [i \in DOMAIN d.body |-> PartsOn(k, n, d.body[i])] = [i \in 1 .. Len(d.body) |-> <<>>]
        BY <2>0, <4>1
      <4> QED BY <2>0, <4>2, FlattenNothing, Zenon DEF xs
    <3>3. ins = Inputs(d)
      <4>1. \A i : InputsOn(k, d.body[i]) =
                     Where(d.body[i] \in {"input a", "input b"}, InputName(d.body[i]))
        BY <2>1, Zenon DEF InputsOn, Where
      <4> QED BY <4>1, Zenon DEF ins, Inputs
    <3>4. ys = TemplateOf(d)
      BY <1>2, <2>1, <3>1, <3>3, Zenon DEF ys, TemplateOf, Where
    <3>5. ys \in Seq(Finding) /\ (<<>> \o <<>>) \o ys = ys
      <4>1. [name |-> n, inputs |-> ins] \in Finding
        BY <1>3, <1>7 DEF Finding
      <4>2. ys \in Seq(Finding)
        BY <2>1, <3>1, <4>1, OneToken, Zenon DEF ys
      <4> QED BY <4>2, EmptyEnd, EmptySeq, Zenon
    <3> QED BY <2>1, <3>2, <3>4, <3>5, Zenon DEF FoundOf
  <2>2. CASE k = "components"
    <3>1. "components" # "templates" /\ "template" \notin {"main", "public"}
      OBVIOUS
    <3>2. ys = <<>>
      BY <2>2, Zenon DEF ys
    <3>3. xs = PartsOf(d)
      <4>1. \A i : PartsOn(k, n, d.body[i]) =
                     Where(d.body[i] = "part", Part(d.mods \o <<d.name>>))
        BY <1>2, <2>2, Zenon DEF PartsOn, Where
      <4> QED BY <3>1, <4>1, Zenon DEF xs, PartsOf
    <3>4. xs \in Seq(Finding)
      <4> DEFINE ps == [i \in DOMAIN d.body |-> PartsOn(k, n, d.body[i])]
      <4>1. \A i : PartsOn(k, n, d.body[i]) \in Seq(Finding)
        BY <1>3, OnTypes, Zenon
      <4>2. ps \in Seq(Seq(Finding))
        BY <2>0, <4>1
      <4> HIDE DEF ps
      <4> QED BY <4>2, FlattenType, Zenon DEF xs, ps
    <3>5. (<<>> \o xs) \o <<>> = xs
      BY <3>4, EmptyEnd, Zenon
    <3> QED BY <2>2, <3>1, <3>2, <3>3, <3>5, Zenon DEF FoundOf
  <2> QED BY <2>1, <2>2, Zenon DEF Scanners
<1> QED BY <1>11, <1>12, <1>13, Zenon

\* Outside of any template a component is found without a parent.
LEMMA OutsideComponent ==
    ASSUME NEW k \in Scanners, NEW ts, Head(ts) = "component"
    PROVE  /\ Behind(k, Outside, ts) = Outside
           /\ k = "components" => Finds(k, Outside, ts) = FoundIn(ts, <<>>)
           /\ k # "components" => Finds(k, Outside, ts) = <<>>
<1>1. "component" # "template"
  OBVIOUS
<1>2. InOn(k, Outside, ts) = Outside
  BY <1>1, OutsideIs, Zenon DEF InOn
<1>3. On(k, Outside, ts) = Outside
  BY <1>2, OutsideIs, Zenon DEF On
<1>4. Behind(k, Outside, ts) = Outside
  BY <1>3, OutsideIs, Zenon DEF Behind
<1>5. k = "components" => Finds(k, Outside, ts) = FoundIn(ts, <<>>)
  BY <1>3, OutsideIs, Zenon DEF Finds
<1>6. k # "components" => Finds(k, Outside, ts) = <<>>
  BY <1>3, OutsideIs, Zenon DEF Finds
<1> QED BY <1>4, <1>5, <1>6

\* The line of the main component.
LEMMA MainScans ==
    ASSUME NEW k \in Scanners, NEW d \in Definitions, d.kind \in {"main", "public"}
    PROVE  Scans(k, DefLines(d), Outside, Outside, FoundOf(k, d))
<1> DEFINE x == [name |-> <<"main">>, template |-> <<d.name>>, parent |-> <<>>]
<1>1. PICK ts : /\ DefLines(d) = <<Line(ts)>> /\ Head(ts) = "component"
                /\ FoundIn(ts, <<>>) = <<x>>
  <2>1. d.name \in Names
    BY KindsOf, Zenon
  <2>2. \A m \in {<<"main">>, <<"main", "{", "}">>} :
           /\ Head(Instance(m, d.name)) = "component"
           /\ FoundIn(Instance(m, d.name), <<>>) = <<x>>
    BY <2>1, MainFound, Zenon
  <2>3. CASE d.kind = "main"
    <3>1. DefLines(d) = <<Line(Instance(<<"main">>, d.name))>>
      BY <2>3 DEF DefLines
    <3> QED BY <2>2, <3>1, Zenon
  <2>4. CASE d.kind = "public"
    <3>1. DefLines(d) = <<Line(Instance(<<"main", "{", "}">>, d.name))>>
      BY <2>4 DEF DefLines
    <3> QED BY <2>2, <3>1, Zenon
  <2> QED BY <2>3, <2>4
<1>2. x \in Finding
  <2>1. "main" \in Token /\ d.name \in Token
    BY KindsOf, Tokens0
  <2>2. <<"main">> \in Seq(Token) /\ <<d.name>> \in Seq(Token) /\ <<>> \in Seq(Token)
    BY <2>1, OneToken, EmptySeq, Zenon
  <2> QED BY <2>2 DEF Finding
<1>3. Line(ts).text = ts
  BY DEF Line
<1>4. d.kind # "template"
  OBVIOUS
<1>5. /\ Behind(k, Outside, ts) = Outside
      /\ k = "components" => Finds(k, Outside, ts) = FoundIn(ts, <<>>)
      /\ k # "components" => Finds(k, Outside, ts) = <<>>
  BY <1>1, OutsideComponent, Zenon
<1>6. <<x>> \in Seq(Finding) /\ <<>> \in Seq(Finding)
  <2> HIDE DEF x
  <2> QED BY <1>2, OneToken, EmptySeq, Zenon
<1>7. CASE k = "components"
  <2>1. FoundOf(k, d) = <<x>>
    <3>1. "components" # "templates"
      OBVIOUS
    <3> QED BY <1>7, <3>1, Zenon DEF FoundOf, PartsOf
  <2> HIDE DEF x
  <2>2. Finds(k, Outside, ts) = <<x>>
    BY <1>1, <1>5, <1>7, Zenon
  <2>3. Scans(k, <<Line(ts)>>, Outside, Outside, <<x>>)
    BY <1>3, <1>5, <1>6, <2>2, OneLine, Zenon
  <2> QED BY <1>1, <2>1, <2>3, Zenon
<1>8. CASE k = "templates"
  <2>1. FoundOf(k, d) = <<>>
    BY <1>4, <1>8, Zenon DEF FoundOf, TemplateOf, Where
  <2>2. Finds(k, Outside, ts) = <<>>
    <3>1. "templates" # "components"
      OBVIOUS
    <3> QED BY <1>5, <1>8, <3>1, Zenon
  <2>3. Scans(k, <<Line(ts)>>, Outside, Outside, <<>>)
    BY <1>3, <1>5, <1>6, <2>2, OneLine, Zenon
  <2> QED BY <1>1, <2>1, <2>3, Zenon
<1> QED BY <1>7, <1>8, Zenon DEF Scanners

\* A function or a bus is read as lines outside of templates.
LEMMA OtherScans ==
    ASSUME NEW k \in Scanners, NEW d \in Definitions, TidyDef(d), d.kind \in {"function", "bus"}
    PROVE  Scans(k, DefLines(d), Outside, Outside, FoundOf(k, d))
<1> DEFINE h == <<Line(Header(d))>>
           b == Body(d)
           e == <<Line(<<"}">>)>>
<1>0. \A ts : Line(ts).text = ts
  BY DEF Line
<1>1. d \in Bodied /\ d.body \in Seq(PlainBody)
  <2>1. d \in Bodied
    BY KindsOf
  <2>2. Range(d.body) \cap {"opens", "closes", "unbalanced"} = {}
    BY DEF TidyDef
  <2>3. CASE d.kind = "function"
    <3>1. d.body \in Seq(FunctionBody)
      BY <2>3, KindsOf
    <3>2. Range(d.body) \subseteq FunctionBody
      BY <3>1, RangeIn, Zenon
    <3>3. Range(d.body) \subseteq PlainBody
      BY <2>2, <3>2 DEF FunctionBody, PlainBody
    <3> QED BY <2>1, <3>1, <3>3, RangeIn, Zenon
  <2>4. CASE d.kind = "bus"
    <3>1. d.body \in Seq({"field"})
      BY <2>4, KindsOf
    <3>2. {"field"} \subseteq PlainBody
      BY DEF PlainBody
    <3> QED BY <2>1, <3>1, <3>2, WiderSeq, Zenon
  <2> QED BY <2>3, <2>4
<1>2. h \in Seq(GoodLine) /\ b \in Seq(GoodLine) /\ e \in Seq(GoodLine)
  <2>1. <<"}">> \in GoodText
    BY Tokens0, Sequence1, PlainTextIsGood
  <2>2. Line(Header(d)) \in GoodLine /\ Line(<<"}">>) \in GoodLine
    BY <1>1, <2>1, HeaderIsGood, LineIsGood
  <2>3. \A l \in GoodLine : <<l>> \in Seq(GoodLine)
    OBVIOUS
  <2>4. h \in Seq(GoodLine) /\ e \in Seq(GoodLine)
    BY <2>2, <2>3, Zenon
  <2> QED BY <1>1, <2>4, BodyIsGood, Zenon
<1>3. Scans(k, h, Outside, Outside, <<>>)
  <2>1. Head(Header(d)) = d.kind
    BY <1>1, HeaderFacts, Zenon
  <2>2. d.kind # "template" /\ d.kind # "component"
    OBVIOUS
  <2> QED BY <1>0, <2>1, <2>2, OutsideScan, Zenon
<1>4. Scans(k, b, Outside, Outside, <<>>)
  BY <1>1, OutsideBody, Zenon DEF Body
<1>5. Scans(k, e, Outside, Outside, <<>>)
  <2>1. Head(<<"}">>) # "template" /\ Head(<<"}">>) # "component"
    OBVIOUS
  <2> QED BY <1>0, <2>1, OutsideScan, Zenon
<1> HIDE DEF h, b, e
<1>6. Scans(k, h \o b, Outside, Outside, <<>> \o <<>>)
  BY <1>2, <1>3, <1>4, MoreLines, Zenon
<1>7. h \o b \in Seq(GoodLine)
  BY <1>2, Joined, Zenon
<1>8. Scans(k, (h \o b) \o e, Outside, Outside, (<<>> \o <<>>) \o <<>>)
  BY <1>2, <1>5, <1>6, <1>7, MoreLines, Zenon
<1>9. DefLines(d) = (h \o b) \o e
  BY DEF DefLines, h, b, e
<1>10. FoundOf(k, d) = <<>>
  <2>1. d.kind # "template" /\ d.kind \notin {"main", "public"}
    OBVIOUS
  <2> QED BY <2>1, Zenon DEF FoundOf, TemplateOf, PartsOf, Where
<1> QED BY <1>8, <1>9, <1>10, TwoEmpty, Zenon

\* Every definition of a tidy source.
LEMMA DefinitionScans ==
    ASSUME NEW k \in Scanners, NEW d \in Definitions, TidyDef(d),
           k = "templates" /\ d.kind = "template" => Len(d.mods) <= 1
    PROVE  Scans(k, DefLines(d), Outside, Outside, FoundOf(k, d))
<1>1. d.kind \in {"template", "function", "bus", "main", "public"}
  BY KindsOf DEF TidyDef
<1>2. CASE d.kind = "template"
  BY <1>2, TemplateScans, Zenon
<1>3. CASE d.kind \in {"function", "bus"}
  BY <1>3, OtherScans, Zenon
<1>4. CASE d.kind \in {"main", "public"}
  BY <1>4, MainScans, Zenon
<1> QED BY <1>1, <1>2, <1>3, <1>4

\* What is found has its type.
LEMMA ScansType ==
    ASSUME NEW k, NEW L, NEW ls \in Seq(L), NEW c, NEW e, NEW x, Scans(k, ls, c, e, x)
    PROVE  x \in Seq(Finding)
<1>1. PICK r, o : Runs(k, ls, c, e, x, r, o)
  BY Zenon DEF Scans
<1>2. o \in [0 .. Len(ls) -> Seq(Finding)] /\ o[Len(ls)] = x
  BY <1>1, Zenon DEF Runs
<1>3. Len(ls) \in 0 .. Len(ls)
  OBVIOUS
<1> QED BY <1>2, <1>3

\* A source: all that is found in it is what its definitions have.
Expected(k, s) == FlattenSeq([i \in DOMAIN s |-> FoundOf(k, s[i])])
TidyFor(k, s) ==
    \A i \in DOMAIN s :
        TidyDef(s[i]) /\ (k = "templates" /\ s[i].kind = "template" => Len(s[i].mods) <= 1)

\* A scanner that starts outside of any template finds what each definition has, in
\* their order, and is outside of any at the end.
LEMMA SourceScans ==
    ASSUME NEW k \in Scanners, NEW s \in Sources, TidyFor(k, s)
    PROVE  Scans(k, Lines(s), Outside, Outside, Expected(k, s))
<1> DEFINE N == Len(s)
           xs == [i \in DOMAIN s |-> FoundOf(k, s[i])]
<1>0. s \in Seq(Definitions)
  BY SourcesAssumption
<1>1. N \in Nat /\ DOMAIN s = 1 .. N /\ \A i \in 1 .. N : s[i] \in Definitions
  BY <1>0
<1>2. \A i \in 1 .. N : TidyDef(s[i]) /\ Scans(k, DefLines(s[i]), Outside, Outside, FoundOf(k, s[i]))
  BY <1>1, DefinitionScans, Zenon DEF TidyFor
<1>3. \A i \in 1 .. N : DefLines(s[i]) \in Seq(GoodLine)
  <2>1. <<>> \in Seq(GoodLine)
    OBVIOUS
  <2> QED BY <1>1, <1>2, <2>1, WrittenBehind, Zenon
<1>4. \A i \in 1 .. N : FoundOf(k, s[i]) \in Seq(Finding)
  BY <1>2, <1>3, ScansType, Zenon
<1>5. xs \in Seq(Seq(Finding)) /\ Len(xs) = N /\ \A i \in 1 .. N : xs[i] = FoundOf(k, s[i])
  BY <1>1, <1>4
<1>6. PICK f : /\ f[0] = <<>>
               /\ \A n \in 1 .. N : f[n] = AddLines(f[n - 1], s[n])
               /\ Lines(s) = f[N]
  BY <1>0, LinesSteps
<1> HIDE DEF xs
<1>7. PICK g : /\ g[0] = <<>>
               /\ \A n \in 1 .. N : g[n] = g[n - 1] \o xs[n]
               /\ FlattenSeq(xs) = g[N]
  BY <1>5, FlattenSteps
<1> DEFINE Good(n) == f[n] \in Seq(GoodLine) /\ Scans(k, f[n], Outside, Outside, g[n])
           S == {n \in Nat : n <= N => Good(n)}
<1> HIDE DEF N
<1>8. 0 \in S
  <2>1. <<>> \in Seq(GoodLine)
    OBVIOUS
  <2>2. Good(0)
    BY <1>6, <1>7, <2>1, NoLine, Zenon
  <2> QED BY <2>2
<1> HIDE DEF Good
<1>9. \A n \in Nat : n \in S => n + 1 \in S
  <2> SUFFICES ASSUME NEW n \in Nat, n \in S, n + 1 <= N PROVE Good(n + 1)
    OBVIOUS
  <2>1. n + 1 \in 1 .. N /\ (n + 1) - 1 = n /\ n <= N
    BY <1>1
  <2>2. Good(n)
    BY <2>1
  <2>3. f[n + 1] = AddLines(f[n], s[n + 1]) /\ g[n + 1] = g[n] \o xs[n + 1]
    BY <1>6, <1>7, <2>1
  <2> DEFINE m == n + 1
  <2>4. m \in 1 .. N
    BY <2>1
  <2> HIDE DEF m
  <2>5. /\ s[m] \in Definitions /\ TidyDef(s[m]) /\ DefLines(s[m]) \in Seq(GoodLine)
        /\ Scans(k, DefLines(s[m]), Outside, Outside, FoundOf(k, s[m])) /\ xs[m] = FoundOf(k, s[m])
    BY <1>1, <1>2, <1>3, <1>5, <2>4, Zenon
  <2>6. f[n] \in Seq(GoodLine) /\ Scans(k, f[n], Outside, Outside, g[n])
    BY <2>2, Zenon DEF Good
  <2>7. AddLines(f[n], s[m]) = f[n] \o DefLines(s[m])
    BY <2>5, <2>6, WrittenBehind, Zenon
  <2>8. f[n] \o DefLines(s[m]) \in Seq(GoodLine)
    BY <2>5, <2>6, Joined, Zenon
  <2>9. Scans(k, f[n] \o DefLines(s[m]), Outside, Outside, g[n] \o FoundOf(k, s[m]))
    BY <2>5, <2>6, MoreLines, Zenon
  <2>10. f[m] = f[n] \o DefLines(s[m]) /\ g[m] = g[n] \o FoundOf(k, s[m])
    BY <2>3, <2>5, <2>7, Zenon DEF m
  <2>11. Good(m)
    BY <2>8, <2>9, <2>10, Zenon DEF Good
  <2> QED BY <2>11 DEF m
<1> HIDE DEF S
<1>10. N \in S
  BY <1>1, <1>8, <1>9, Induction
<1>11. Good(N)
  BY <1>1, <1>10 DEF S
<1> QED BY <1>6, <1>7, <1>11, Zenon DEF Good, Expected, xs

---------------------------------------------------------------------------
\* The scanners' steps are those of a run over the lines.

\* Appending is joining with one element, whatever it is.
LEMMA AppendAny ==
    ASSUME NEW T, NEW s \in Seq(T), NEW x
    PROVE  Append(s, x) = s \o <<x>>
<1>1. s \in Seq(T \cup {x}) /\ x \in T \cup {x}
  OBVIOUS
<1> QED BY <1>1, AppendOne, Zenon

\* What the scanner of the model enters on a line is what a run does.
LEMMA EnteredIs ==
    ASSUME NEW k, NEW m, m = IF k = "templates" THEN Unmodified(Tail(Text)) ELSE Tail(Text)
    PROVE  Entered(Opening(m)) = InOn(k, current, Text)
<1>1. CASE Inside
  BY <1>1, Zenon DEF Entered, InOn, Inside
<1>2. CASE ~Inside
  <2> DEFINE n == Opening(m)
  <2>1. Entered(n) = [Outside EXCEPT !.name = n]
    BY <1>2, Zenon DEF Entered
  <2>2. HeaderName(k, Text) = Before(m, "(")
    BY Zenon DEF HeaderName
  <2>3. InOn(k, current, Text)
          = Within(IF Head(Text) = "template" THEN HeaderName(k, Text) ELSE <<>>, <<>>, 0)
    BY <1>2, Zenon DEF InOn, Inside
  <2>4. n = IF Head(Text) = "template" THEN HeaderName(k, Text) ELSE <<>>
    BY <1>2, <2>2, Zenon DEF Opening
  <2>5. InOn(k, current, Text) = Within(n, <<>>, 0)
    BY <2>3, <2>4, Zenon
  <2> HIDE DEF n
  <2>6. Entered(n) = Within(n, <<>>, 0)
    BY <2>1 DEF Outside, Within
  <2> QED BY <2>5, <2>6, Zenon DEF n
<1> QED BY <1>1, <1>2, Zenon

\* What a line scanner has entered, with its fields.
LEMMA InOnFacts ==
    ASSUME SInv, Text \in GoodText, NEW k \in Scanners
    PROVE  LET c == InOn(k, current, Text)
           IN  c = Within(c.name, c.inputs, c.depth) /\ (c.name = <<>> => c = Outside)
<1> DEFINE m == IF k = "templates" THEN Unmodified(Tail(Text)) ELSE Tail(Text)
           c == Entered(Opening(m))
<1>1. c = InOn(k, current, Text)
  BY EnteredIs, Zenon
<1>2. GoodCurrent(current)
  BY DEF SInv, ScanOK
<1>3. c = [name |-> c.name, inputs |-> c.inputs, depth |-> c.depth]
  BY <1>2, EnteredFacts, Zenon
<1>4. c.name = <<>> => c = Outside
  BY <1>2, EnteredFacts, Zenon
<1> HIDE DEF c
<1> QED BY <1>1, <1>3, <1>4, Zenon DEF Within

\* What is left behind a line, with its fields.
LEMMA LeftIs ==
    ASSUME NEW c, NEW n, NEW ins, NEW d, c = Within(n, ins, d)
    PROVE  Left(c) = Within(n, ins, DepthAfter(d, Text)) /\ c.name = n /\ c.inputs = ins /\ c.depth = d
<1>1. c.name = n /\ c.inputs = ins /\ c.depth = d
  BY DEF Within
<1> DEFINE e == DepthAfter(d, Text)
<1>2. Left(c) = [c EXCEPT !.depth = e]
  BY <1>1, Zenon DEF Left
<1> HIDE DEF e
<1>3. Left(c) = Within(n, ins, e)
  BY <1>2 DEF Within
<1> QED BY <1>1, <1>3 DEF e

\* A step of the first scanner, as a step of a run.
LEMMA TemplateScanned ==
    ASSUME SInv, Text \in GoodText, ScanTemplate, NEW T, scanned \in Seq(T)
    PROVE  /\ current' = Behind("templates", current, Text)
           /\ scanned' = scanned \o Finds("templates", current, Text)
<1> DEFINE k == "templates"
           e == InOn(k, current, Text)
           c == On(k, current, Text)
<1>0. k \in Scanners /\ k # "components"
  BY DEF Scanners
<1>1. Entered(Opening(Unmodified(Tail(Text)))) = e
  BY EnteredIs, Zenon
<1>2. e = Within(e.name, e.inputs, e.depth) /\ (e.name = <<>> => e = Outside)
  BY <1>0, InOnFacts, Zenon
<1>3. c = IF e.name # <<>> /\ Head(Text) = "signal input"
          THEN Within(e.name, Append(e.inputs, Text[2]), e.depth) ELSE e
  BY Zenon DEF On
<1> DEFINE Read(a) == LET b == IF a.name # <<>> /\ Head(Text) = "signal input"
                              THEN [a EXCEPT !.inputs = Append(@, Text[2])] ELSE a
                      IN  IF b.name # <<>> /\ Closes(b.depth, Text)
                          THEN /\ scanned' = Append(scanned, [name |-> b.name, inputs |-> b.inputs])
                               /\ current' = Outside
                          ELSE /\ current' = IF b.name = <<>> THEN b ELSE Left(b)
                               /\ UNCHANGED scanned
<1>4. Read(e)
  <2>1. Read(Entered(Opening(Unmodified(Tail(Text)))))
    BY DEF ScanTemplate
  <2> HIDE DEF Read, e
  <2> QED BY <1>1, <2>1, Zenon
<1> HIDE DEF e
<1>5. c = (IF e.name # <<>> /\ Head(Text) = "signal input"
           THEN [e EXCEPT !.inputs = Append(@, Text[2])] ELSE e)
  <2> DEFINE x == Append(e.inputs, Text[2])
  <2> HIDE DEF c, k
  <2>1. CASE e.name # <<>> /\ Head(Text) = "signal input"
    <3>1. c = Within(e.name, x, e.depth)
      BY <1>3, <2>1, Zenon
    <3>2. [e EXCEPT !.inputs = Append(@, Text[2])] = [e EXCEPT !.inputs = x]
      OBVIOUS
    <3> HIDE DEF x
    <3>3. [e EXCEPT !.inputs = x] = Within(e.name, x, e.depth)
      BY <1>2 DEF Within
    <3> QED BY <2>1, <3>1, <3>2, <3>3, Zenon
  <2>2. CASE ~(e.name # <<>> /\ Head(Text) = "signal input")
    BY <1>3, <2>2, Zenon
  <2> QED BY <2>1, <2>2, Zenon
<1>6. c = Within(c.name, c.inputs, c.depth) /\ (c.name = <<>> => c = Outside)
  <2> HIDE DEF c, k
  <2>1. CASE e.name # <<>> /\ Head(Text) = "signal input"
    <3> DEFINE x == Append(e.inputs, Text[2])
    <3>1. c = Within(e.name, x, e.depth)
      BY <1>3, <2>1, Zenon
    <3> HIDE DEF x
    <3>2. c.name = e.name /\ c.inputs = x /\ c.depth = e.depth
      BY <3>1 DEF Within
    <3> QED BY <2>1, <3>1, <3>2, Zenon
  <2>2. CASE ~(e.name # <<>> /\ Head(Text) = "signal input")
    BY <1>2, <1>3, <2>2, Zenon
  <2> QED BY <2>1, <2>2, Zenon
<1>7. IF c.name # <<>> /\ Closes(c.depth, Text)
      THEN /\ scanned' = Append(scanned, [name |-> c.name, inputs |-> c.inputs])
           /\ current' = Outside
      ELSE /\ current' = IF c.name = <<>> THEN c ELSE Left(c)
           /\ UNCHANGED scanned
  <2> HIDE DEF c, k
  <2> QED BY <1>4, <1>5, Zenon
<1>8. /\ Behind(k, current, Text)
           = IF c.name = <<>> \/ Closes(c.depth, Text) THEN Outside
             ELSE Within(c.name, c.inputs, DepthAfter(c.depth, Text))
      /\ Finds(k, current, Text) = IF c.name # <<>> /\ Closes(c.depth, Text)
                                   THEN <<[name |-> c.name, inputs |-> c.inputs]>> ELSE <<>>
  BY <1>0, Zenon DEF Behind, Finds
<1> HIDE DEF c, k
<1>9. Left(c) = Within(c.name, c.inputs, DepthAfter(c.depth, Text))
  BY <1>6, LeftIs
<1> DEFINE x == [name |-> c.name, inputs |-> c.inputs]
<1>10. Append(scanned, x) = scanned \o <<x>> /\ scanned \o <<>> = scanned
  BY AppendAny, EmptyEnd, Zenon
<1> HIDE DEF x
<1>11. CASE c.name # <<>> /\ Closes(c.depth, Text)
  BY <1>7, <1>8, <1>10, <1>11, Zenon DEF k, x
<1>12. CASE c.name = <<>>
  BY <1>6, <1>7, <1>8, <1>10, <1>12, Zenon DEF k, x
<1>13. CASE c.name # <<>> /\ ~Closes(c.depth, Text)
  BY <1>7, <1>8, <1>9, <1>10, <1>13, Zenon DEF k, x
<1> QED BY <1>11, <1>12, <1>13, Zenon

\* A step of the second scanner, as a step of a run.
LEMMA ComponentScanned ==
    ASSUME SInv, Text \in GoodText, ScanComponent
    PROVE  /\ current' = Behind("components", current, Text)
           /\ instances' = instances \o Finds("components", current, Text)
<1> DEFINE k == "components"
           c == InOn(k, current, Text)
<1>0. k \in Scanners /\ k # "templates"
  BY DEF Scanners
<1>1. Entered(Opening(Tail(Text))) = c
  BY <1>0, EnteredIs, Zenon
<1>2. c = Within(c.name, c.inputs, c.depth)
  BY <1>0, InOnFacts, Zenon
<1>3. On(k, current, Text) = c
  BY <1>0, Zenon DEF On
<1>4. /\ instances' = instances \o Found(c.name)
      /\ current' = IF c.name = <<>> \/ Closes(c.depth, Text) THEN Outside ELSE Left(c)
  BY <1>1, Zenon DEF ScanComponent
<1>5. /\ Behind(k, current, Text)
           = IF c.name = <<>> \/ Closes(c.depth, Text) THEN Outside
             ELSE Within(c.name, c.inputs, DepthAfter(c.depth, Text))
      /\ Finds(k, current, Text) = FoundIn(Text, c.name)
  BY <1>3, Zenon DEF Behind, Finds
<1> HIDE DEF c, k
<1>6. Left(c) = Within(c.name, c.inputs, DepthAfter(c.depth, Text))
  BY <1>2, LeftIs
<1>7. Found(c.name) = FoundIn(Text, c.name)
  BY Zenon DEF Found, FoundIn
<1> QED BY <1>4, <1>5, <1>6, <1>7, Zenon DEF k

---------------------------------------------------------------------------
\* The inductive invariant of the line scanners: before line n of the lines of source
\* s the scanner k is in c and has found what a run over the lines before has.

Sees(k, s, ls, n, c, found) ==
    \E r, o : /\ Runs(k, ls, Outside, Outside, Expected(k, s), r, o)
              /\ c = r[n - 1] /\ found = o[n - 1]

TemplatesSeen ==
    TidyFor("templates", source) =>
        /\ stage = "templates" => Sees("templates", source, lines, at, current, scanned)
        /\ stage # "templates" => scanned = Expected("templates", source)
ComponentsSeen ==
    TidyFor("components", source) =>
        /\ stage = "templates" => instances = <<>>
        /\ stage = "components" => Sees("components", source, lines, at, current, instances)
        /\ stage \notin {"templates", "components"} => instances = Expected("components", source)
LineInv == TemplatesSeen /\ ComponentsSeen

\* Before the first line.
LEMMA SeesFirst ==
    ASSUME NEW k \in Scanners, NEW s \in Sources, TidyFor(k, s)
    PROVE  Sees(k, s, Lines(s), 1, Outside, <<>>)
<1>1. PICK r, o : Runs(k, Lines(s), Outside, Outside, Expected(k, s), r, o)
  BY SourceScans, Zenon DEF Scans
<1>2. r[0] = Outside /\ o[0] = <<>> /\ 1 - 1 = 0
  BY <1>1 DEF Runs
<1> QED BY <1>1, <1>2, Zenon DEF Sees

\* From one line to the next.
LEMMA SeesNext ==
    ASSUME NEW k, NEW s, NEW ls, NEW n \in 1 .. Len(ls), NEW c, NEW found,
           Len(ls) \in Nat, Sees(k, s, ls, n, c, found)
    PROVE  /\ found \in Seq(Finding)
           /\ Sees(k, s, ls, n + 1, Behind(k, c, ls[n].text),
                   found \o Finds(k, c, ls[n].text))
<1>1. PICK r, o : /\ Runs(k, ls, Outside, Outside, Expected(k, s), r, o)
                  /\ c = r[n - 1] /\ found = o[n - 1]
  BY Zenon DEF Sees
<1>2. /\ r[n] = Behind(k, c, ls[n].text)
      /\ o[n] = found \o Finds(k, c, ls[n].text)
      /\ o \in [0 .. Len(ls) -> Seq(Finding)]
  BY <1>1, Zenon DEF Runs
<1>3. n - 1 \in 0 .. Len(ls) /\ (n + 1) - 1 = n
  OBVIOUS
<1>4. found \in Seq(Finding)
  BY <1>1, <1>2, <1>3, Zenon
<1>5. Sees(k, s, ls, n + 1, r[n], o[n])
  BY <1>1, <1>3, Zenon DEF Sees
<1> QED BY <1>2, <1>4, <1>5, Zenon

\* Behind the last line.
LEMMA SeesLast ==
    ASSUME NEW k, NEW s, NEW ls, NEW c, NEW found, Len(ls) \in Nat,
           Sees(k, s, ls, Len(ls) + 1, c, found)
    PROVE  c = Outside /\ found = Expected(k, s)
<1>1. (Len(ls) + 1) - 1 = Len(ls)
  OBVIOUS
<1> QED BY <1>1, Zenon DEF Sees, Runs

\* The invariant holds at the start.
LEMMA LineInit == Init => LineInv
<1> SUFFICES ASSUME Init PROVE LineInv
  OBVIOUS
<1>1. /\ source \in Sources /\ lines = Lines(source) /\ stage = "templates" /\ at = 1
      /\ current = Outside /\ scanned = <<>> /\ instances = <<>>
  BY DEF Init
<1>2. "templates" \in Scanners
  BY DEF Scanners
<1>3. TemplatesSeen
  BY <1>1, <1>2, SeesFirst, Zenon DEF TemplatesSeen
<1>4. stage \in {"templates", "components"} /\ stage # "components"
  BY <1>1
<1>5. ComponentsSeen
  BY <1>1, <1>4, Zenon DEF ComponentsSeen
<1> QED BY <1>3, <1>5 DEF LineInv

\* One step of the first scanner, and its end.
LEMMA TemplatesStep ==
    ASSUME SInv, LineInv, ScanTemplate \/ EndTemplates PROVE LineInv'
<1>0. TextOK /\ at \in 1 .. Len(lines) + 1
  BY DEF SInv, ScanOK
<1>1. Len(lines) \in Nat /\ \A i \in 1 .. Len(lines) : lines[i].text \in GoodText
  BY <1>0, TextFacts, Zenon
<1>2. stage = "templates" /\ UNCHANGED <<source, lines, instances>>
  BY DEF ScanTemplate, EndTemplates
<1>3. /\ TidyFor("templates", source) => Sees("templates", source, lines, at, current, scanned)
      /\ TidyFor("components", source) => instances = <<>>
  BY <1>2, Zenon DEF LineInv, TemplatesSeen, ComponentsSeen
<1>4. "templates" \in Scanners /\ "components" \in Scanners
  BY DEF Scanners
<1>5. CASE ScanTemplate
  <2>1. stage' = stage /\ at' = at + 1 /\ at \in 1 .. Len(lines)
    <3>1. stage' = stage /\ at' = at + 1 /\ at <= Len(lines)
      BY <1>5, Zenon DEF ScanTemplate
    <3> QED BY <1>0, <1>1, <3>1
  <2>2. Text \in GoodText /\ Text = lines[at].text
    BY <1>1, <2>1, Zenon DEF Text
  <2>3. ASSUME TidyFor("templates", source)
        PROVE  Sees("templates", source, lines, at', current', scanned')
    <3>1. scanned \in Seq(Finding)
      BY <1>1, <1>3, <2>1, <2>3, SeesNext, Zenon
    <3>2. /\ current' = Behind("templates", current, Text)
          /\ scanned' = scanned \o Finds("templates", current, Text)
      BY <1>5, <2>2, <3>1, TemplateScanned, Zenon
    <3>3. Sees("templates", source, lines, at + 1, Behind("templates", current, lines[at].text),
               scanned \o Finds("templates", current, lines[at].text))
      BY <1>1, <1>3, <2>1, <2>3, SeesNext, Zenon
    <3> QED BY <2>1, <2>2, <3>2, <3>3, Zenon
  <2>4. TemplatesSeen'
    BY <1>2, <2>1, <2>3, Zenon DEF TemplatesSeen, TidyFor
  <2>5. stage' = "templates" /\ stage' \in {"templates", "components"} /\ stage' # "components"
    BY <1>2, <2>1
  <2>6. ComponentsSeen'
    BY <1>2, <1>3, <2>5, Zenon DEF ComponentsSeen, TidyFor
  <2> QED BY <2>4, <2>6 DEF LineInv
<1>6. CASE EndTemplates
  <2>1. at = Len(lines) + 1
    BY <1>0, <1>1, <1>6 DEF EndTemplates
  <2>2. current' = Outside /\ at' = 1 /\ stage' = "components"
    BY <1>6, Zenon DEF EndTemplates
  <2>3. ASSUME TidyFor("templates", source)
        PROVE  scanned' = Expected("templates", source)
    <3>1. current = Outside /\ scanned = Expected("templates", source)
      BY <1>1, <1>3, <2>1, <2>3, SeesLast, Zenon
    <3>2. ~Inside
      BY <3>1, OutsideIs, Zenon DEF Inside
    <3> QED BY <1>6, <3>1, <3>2, Zenon DEF EndTemplates
  <2>4. stage' # "templates" /\ stage' \in {"templates", "components"}
    BY <2>2
  <2>5. TemplatesSeen'
    BY <1>2, <2>3, <2>4, Zenon DEF TemplatesSeen, TidyFor
  <2>6. ASSUME TidyFor("components", source)
        PROVE  Sees("components", source, lines, at', current', instances')
    <3>1. Sees("components", source, Lines(source), 1, Outside, <<>>)
      BY <1>0, <1>4, <2>6, SeesFirst, Zenon DEF TextOK
    <3> QED BY <1>0, <1>2, <1>3, <2>2, <2>6, <3>1, Zenon DEF TextOK
  <2>7. ComponentsSeen'
    BY <1>2, <2>4, <2>6, Zenon DEF ComponentsSeen, TidyFor
  <2> QED BY <2>5, <2>7 DEF LineInv
<1> QED BY <1>5, <1>6

\* One step of the second scanner, and its end.
LEMMA ComponentsStep ==
    ASSUME SInv, LineInv, ScanComponent \/ EndComponents PROVE LineInv'
<1>0. TextOK /\ at \in 1 .. Len(lines) + 1
  BY DEF SInv, ScanOK
<1>1. Len(lines) \in Nat /\ \A i \in 1 .. Len(lines) : lines[i].text \in GoodText
  BY <1>0, TextFacts, Zenon
<1>2. stage = "components" /\ UNCHANGED <<source, lines, scanned>>
  BY DEF ScanComponent, EndComponents
<1>3. stage # "templates"
  BY <1>2
<1>4. /\ TidyFor("templates", source) => scanned = Expected("templates", source)
      /\ TidyFor("components", source) =>
           Sees("components", source, lines, at, current, instances)
  BY <1>2, <1>3, Zenon DEF LineInv, TemplatesSeen, ComponentsSeen
<1>5. CASE ScanComponent
  <2>1. stage' = stage /\ at' = at + 1 /\ at \in 1 .. Len(lines)
    BY <1>0, <1>1, <1>5 DEF ScanComponent
  <2>2. Text \in GoodText /\ Text = lines[at].text
    BY <1>1, <2>1, Zenon DEF Text
  <2>3. ASSUME TidyFor("components", source)
        PROVE  Sees("components", source, lines, at', current', instances')
    <3>1. /\ current' = Behind("components", current, Text)
          /\ instances' = instances \o Finds("components", current, Text)
      BY <1>5, <2>2, ComponentScanned, Zenon
    <3>2. Sees("components", source, lines, at + 1,
               Behind("components", current, lines[at].text),
               instances \o Finds("components", current, lines[at].text))
      BY <1>1, <1>4, <2>1, <2>3, SeesNext, Zenon
    <3> QED BY <2>1, <2>2, <3>1, <3>2, Zenon
  <2>4. TemplatesSeen'
    BY <1>2, <1>3, <1>4, <2>1, Zenon DEF TemplatesSeen, TidyFor
  <2>5. stage' \in {"templates", "components"} /\ stage' # "templates"
    BY <1>2, <2>1
  <2>6. ComponentsSeen'
    BY <1>2, <2>3, <2>5, Zenon DEF ComponentsSeen, TidyFor
  <2> QED BY <2>4, <2>6 DEF LineInv
<1>6. CASE EndComponents
  <2>1. at = Len(lines) + 1
    BY <1>0, <1>1, <1>6 DEF EndComponents
  <2>2. stage' = "parser" /\ instances' = instances
    BY <1>6, Zenon DEF EndComponents
  <2>3. ASSUME TidyFor("components", source)
        PROVE  instances = Expected("components", source)
    BY <1>1, <1>4, <2>1, <2>3, SeesLast, Zenon
  <2>4. stage' # "templates" /\ stage' # "components"
    BY <2>2
  <2>5. TemplatesSeen'
    BY <1>2, <1>4, <2>4, Zenon DEF TemplatesSeen, TidyFor
  <2>6. ComponentsSeen'
    BY <1>2, <2>2, <2>3, <2>4, Zenon DEF ComponentsSeen, TidyFor
  <2> QED BY <2>5, <2>6 DEF LineInv
<1> QED BY <1>5, <1>6

\* The parser leaves what the scanners found.
LEMMA ParserKeeps ==
    ASSUME ParseTop \/ ParseBody \/ ParseBus
    PROVE  /\ stage = "parser" /\ stage' \in {"parser", "done"}
           /\ UNCHANGED <<source, lines, scanned, instances>>
<1>1. CASE EndParser
  BY <1>1, Zenon DEF EndParser, Reading
<1>2. ASSUME \E p : Parses(p) PROVE stage' = stage /\ UNCHANGED <<source, lines, scanned, instances>>
  BY <1>2, Zenon DEF Parses
<1>3. CASE TopDefinition \/ TopDirective \/ EatDirective \/ TopOther \/ Skip
  <2>1. stage = "parser" /\ \E p : Parses(p)
    BY <1>3, Zenon DEF TopDefinition, TopDirective, EatDirective, TopOther, Skip, Begin, Reads, Reading
  <2> QED BY <1>2, <2>1
<1>4. CASE SkipModifier \/ ExpectedSeen \/ EndBlock
  <2>1. stage = "parser" /\ \E p : Parses(p)
    BY <1>4, Zenon DEF SkipModifier, ExpectedSeen, EndBlock, Reads, Reading
  <2> QED BY <1>2, <2>1
<1>5. CASE ExpectToken \/ Statement
  <2>1. stage = "parser" /\ \E p : Parses(p)
    BY <1>5, Zenon DEF ExpectToken, Statement, Reads, Reading, Fails
  <2> QED BY <1>2, <2>1
<1>6. CASE ParseBus
  <2>1. stage = "parser" /\ \E p : Parses(p)
    BY <1>6, Zenon DEF ParseBus, BusName, BusParameters, BusBody, BusField, BusFieldName, BusFieldRest, Reads, Reading
  <2> QED BY <1>2, <2>1
<1> QED BY <1>1, <1>3, <1>4, <1>5, <1>6 DEF ParseTop, ParseBody

\* Every step keeps it.
LEMMA LineStep == SInv /\ LineInv /\ [Next]_vars => LineInv'
<1> SUFFICES ASSUME SInv, LineInv, [Next]_vars PROVE LineInv'
  OBVIOUS
<1>1. CASE Scan
  BY <1>1, TemplatesStep, ComponentsStep, Zenon DEF Scan
<1>2. CASE ParseTop \/ ParseBody \/ ParseBus
  <2>1. /\ stage = "parser" /\ stage' \in {"parser", "done"}
        /\ UNCHANGED <<source, lines, scanned, instances>>
    BY <1>2, ParserKeeps, Zenon
  <2>2. /\ stage # "templates" /\ stage \notin {"templates", "components"}
        /\ stage' # "templates" /\ stage' # "components"
        /\ stage' \notin {"templates", "components"}
    BY <2>1
  <2>3. TemplatesSeen'
    BY <2>1, <2>2, Zenon DEF LineInv, TemplatesSeen, TidyFor
  <2>4. ComponentsSeen'
    BY <2>1, <2>2, Zenon DEF LineInv, ComponentsSeen, TidyFor
  <2> QED BY <2>3, <2>4 DEF LineInv
<1>3. CASE UNCHANGED vars
  <2>1. UNCHANGED <<source, lines, stage, at, current, scanned, instances>>
    BY <1>3, Zenon DEF vars
  <2> QED BY <2>1, Zenon DEF LineInv, TemplatesSeen, ComponentsSeen, TidyFor, Sees
<1> QED BY <1>1, <1>2, <1>3 DEF Next, Done

\* In a tidy source a scanner has, at every line, found what a run over the lines
\* before it finds, and behind the last line what the definitions have.
THEOREM ScannersInvariant == Spec => []LineInv
<1>1. SInv /\ LineInv /\ [Next]_vars => LineInv'
  BY LineStep
<1> QED BY <1>1, LineInit, ReadersInvariant, PTL DEF Spec

---------------------------------------------------------------------------
\* What the properties say of it.

\* One element more.
LEMMA OneMore ==
    ASSUME NEW T, NEW m \in Seq(T), NEW e \in Seq(T), Len(e) = 1
    PROVE  m \o e \in Seq(T) /\ m \o e # <<>> /\ (Len(m) <= 0 => m \o e = e)
<1>1. m \o e \in Seq(T) /\ Len(m \o e) = Len(m) + Len(e) /\ Len(m) \in Nat
  BY Joined, LenProperties, Zenon
<1>2. m \o e # <<>>
  BY <1>1
<1>3. ASSUME Len(m) <= 0 PROVE m \o e = e
  <2>1. m = <<>>
    BY <1>1, <1>3
  <2> QED BY <2>1, EmptyEnd, Zenon
<1> QED BY <1>1, <1>2, <1>3

\* The modifiers and the name of a header.
LEMMA ModifiedName ==
    ASSUME NEW m \in Seq(Modifiers), NEW n \in Names
    PROVE  /\ m \o <<n>> \in Seq(Token) /\ m \o <<n>> # <<>>
           /\ Len(m) <= 0 => m \o <<n>> = <<n>>
<1>1. Modifiers \subseteq Token /\ n \in Token
  BY PlainTokens, Tokens0
<1>2. m \in Seq(Token) /\ <<n>> \in Seq(Token) /\ Len(<<n>>) = 1
  <2>1. Modifiers \subseteq Token /\ m \in Seq(Modifiers)
    BY <1>1
  <2>2. m \in Seq(Token)
    BY <2>1, WiderSeq, Zenon
  <2> QED BY <1>1, <2>2, OneToken, Zenon
<1> QED BY <1>2, OneMore, Zenon

\* Without modifiers a parent is the name of a template.
LEMMA PartsAreInstances ==
    ASSUME NEW d \in Definitions, d.kind = "template" => Len(d.mods) <= 0
    PROVE  PartsOf(d) = InstancesOf(d)
<1>1. CASE d.kind \in {"main", "public"}
  BY <1>1, Zenon DEF PartsOf, InstancesOf
<1>2. CASE d.kind \notin {"main", "public"} /\ d.kind # "template"
  BY <1>2, Zenon DEF PartsOf, InstancesOf
<1>3. CASE d.kind = "template"
  <2>1. d \in Bodied /\ d.kind \notin {"main", "public"}
    BY <1>3, KindsOf
  <2>2. d.mods \in Seq(Modifiers) /\ d.name \in Names
    BY <2>1, BodiedParts, Zenon
  <2>3. d.mods \o <<d.name>> = <<d.name>>
    BY <1>3, <2>2, ModifiedName, Zenon
  <2>4. PartsOf(d) = FlattenSeq([j \in DOMAIN d.body |->
                         Where(d.body[j] = "part", Part(<<d.name>>))])
    BY <1>3, <2>1, <2>3, Zenon DEF PartsOf
  <2>5. InstancesOf(d) = FlattenSeq([j \in DOMAIN d.body |->
                         Where(d.body[j] = "part", Part(<<d.name>>))])
    BY <1>3, <2>1, Zenon DEF InstancesOf, Part
  <2> QED BY <2>4, <2>5, Zenon
<1> QED BY <1>1, <1>2, <1>3, Zenon

\* Tidy, as the two scanners need it.
LEMMA TidyIs ==
    ASSUME SInv, Tidy
    PROVE  /\ HeadersHave(1) => TidyFor("templates", source)
           /\ TidyFor("components", source)
<1>1. \A i \in DOMAIN source : TidyDef(source[i])
  BY Zenon DEF Tidy, TidyDef
<1>2. "components" # "templates"
  OBVIOUS
<1> QED BY <1>1, <1>2, Zenon DEF TidyFor, HeadersHave

\* The functions of the trace are the templates of the source, whatever number of
\* them it has, those the parser cannot read included, each under its name and with
\* its inputs (parse_template_definitions).
THEOREM TemplatesAreFound == Spec => []ScannedAreDefined
<1>1. SInv /\ LineInv => ScannedAreDefined
  <2> SUFFICES ASSUME SInv, LineInv, Tidy, HeadersHave(1), stage # "templates"
               PROVE  scanned = FlattenSeq([i \in DOMAIN source |->
                          Where(source[i].kind = "template",
                                [name |-> <<source[i].name>>, inputs |-> Inputs(source[i])])])
    BY DEF ScannedAreDefined
  <2>1. scanned = Expected("templates", source)
    BY TidyIs, Zenon DEF LineInv, TemplatesSeen
  <2>2. [i \in DOMAIN source |-> FoundOf("templates", source[i])]
          = [i \in DOMAIN source |->
                Where(source[i].kind = "template",
                      [name |-> <<source[i].name>>, inputs |-> Inputs(source[i])])]
    BY Zenon DEF FoundOf, TemplateOf
  <2> QED BY <2>1, <2>2, Zenon DEF Expected
<1> QED BY <1>1, ReadersInvariant, ScannersInvariant, PTL

\* The components of the trace are those of the source, in its order, each with the
\* template it is declared in, where no header has a modifier
\* (parse_component_instances).
THEOREM ComponentsAreFound == Spec => []ParentsAreEnclosing
<1>1. SInv /\ LineInv => ParentsAreEnclosing
  <2> SUFFICES ASSUME SInv, LineInv, Tidy, HeadersHave(0), stage \in {"parser", "done"}
               PROVE  instances = FlattenSeq([i \in DOMAIN source |-> InstancesOf(source[i])])
    BY DEF ParentsAreEnclosing
  <2>1. stage \notin {"templates", "components"}
    OBVIOUS
  <2>2. instances = Expected("components", source)
    BY <2>1, TidyIs, Zenon DEF LineInv, ComponentsSeen
  <2>3. source \in Seq(Definitions)
    BY SourcesAssumption, Zenon DEF SInv, TextOK
  <2>4. \A i \in DOMAIN source : source[i] \in Definitions
    BY <2>3
  <2>5. \A i \in DOMAIN source : FoundOf("components", source[i]) = InstancesOf(source[i])
    <3>1. "components" # "templates"
      OBVIOUS
    <3> QED BY <2>4, <3>1, PartsAreInstances, Zenon DEF FoundOf, HeadersHave
  <2>6. [i \in DOMAIN source |-> FoundOf("components", source[i])]
          = [i \in DOMAIN source |-> InstancesOf(source[i])]
    BY <2>5, Zenon
  <2> QED BY <2>2, <2>6, Zenon DEF Expected
<1> QED BY <1>1, ReadersInvariant, ScannersInvariant, PTL

\* A component at file scope is the main one.
AtScope == {x \in Finding : x.parent = <<>> <=> x.name = <<"main">>}

\* What a definition has respects the scopes.
LEMMA PartsScope ==
    ASSUME NEW d \in Definitions
    PROVE  PartsOf(d) \in Seq(AtScope)
<1>0. d.name \in Names /\ d.kind \in {"template", "function", "bus", "main", "public", "quoted"}
  BY KindsOf, Zenon
<1>1. d.name \in Token /\ "main" \in Token /\ "c" \in Token /\ "B" \in Token
  BY <1>0, Tokens0, Zenon DEF Token
<1>2. /\ <<d.name>> \in Seq(Token) /\ <<"main">> \in Seq(Token) /\ <<"c">> \in Seq(Token)
      /\ <<"B">> \in Seq(Token)
  BY <1>1, OneToken, Zenon
<1>3. CASE d.kind \in {"main", "public"}
  <2> DEFINE t == <<d.name>>
             m == <<"main">>
             e == <<>>
             x == [name |-> m, template |-> t, parent |-> e]
  <2>0. e \in Seq(Token)
    OBVIOUS
  <2>1. PartsOf(d) = <<x>>
    BY <1>3, Zenon DEF PartsOf
  <2>2. t \in Seq(Token) /\ m \in Seq(Token)
    BY <1>2
  <2> HIDE DEF t, m, e
  <2>3. x \in Finding /\ x.parent = e /\ x.name = m
    BY <2>0, <2>2 DEF Finding
  <2> HIDE DEF x
  <2>4. x \in AtScope
    BY <2>3, Zenon DEF AtScope, m, e
  <2> QED BY <2>1, <2>4
<1>4. CASE d.kind \notin {"main", "public"} /\ d.kind # "template"
  BY <1>4, EmptySeq, Zenon DEF PartsOf
<1>5. CASE d.kind = "template"
  <2>1. d \in Bodied /\ d.kind \notin {"main", "public"} /\ d.body \in Seq(TemplateBody)
    BY <1>5, KindsOf
  <2>2. d.mods \in Seq(Modifiers)
    BY <2>1, BodiedParts, Zenon
  <2> DEFINE p == d.mods \o <<d.name>>
  <2>3. p \in Seq(Token) /\ p # <<>>
    BY <1>0, <2>2, ModifiedName, Zenon
  <2>4. PartsOf(d) = FlattenSeq([i \in DOMAIN d.body |-> Where(d.body[i] = "part", Part(p))])
    BY <1>5, <2>1, Zenon DEF PartsOf
  <2> HIDE DEF p
  <2>5. Part(p) \in AtScope
    <3> DEFINE n == <<"c">>
               t == <<"B">>
    <3>1. n # <<"main">>
      OBVIOUS
    <3>2. n \in Seq(Token) /\ t \in Seq(Token) /\ Part(p) = [name |-> n, template |-> t, parent |-> p]
      BY <1>2, Zenon DEF Part
    <3> HIDE DEF n, t
    <3>3. Part(p) \in Finding /\ Part(p).parent = p /\ Part(p).name = n
      BY <2>3, <3>2 DEF Finding
    <3> QED BY <2>3, <3>1, <3>3, Zenon DEF AtScope
  <2>6. \A i \in DOMAIN d.body : Where(d.body[i] = "part", Part(p)) \in Seq(AtScope)
    BY <2>5, EmptySeq, OneToken, Zenon DEF Where
  <2>7. [i \in DOMAIN d.body |-> Where(d.body[i] = "part", Part(p))] \in Seq(Seq(AtScope))
    BY <2>1, <2>6
  <2> QED BY <2>4, <2>7, FlattenType, Zenon
<1> QED BY <1>3, <1>4, <1>5, Zenon

\* The main component is the only one at file scope, whatever modifiers the headers
\* have: the first component without a parent, which emit_source_trace takes for the
\* root, is the main component.
THEOREM MainIsAtFileScope == Spec => []MainAtFileScope
<1>1. SInv /\ LineInv => MainAtFileScope
  <2> SUFFICES ASSUME SInv, LineInv, Tidy, stage \in {"parser", "done"}
               PROVE  \A i \in DOMAIN instances :
                         instances[i].parent = <<>> <=> instances[i].name = <<"main">>
    BY DEF MainAtFileScope
  <2>1. stage \notin {"templates", "components"}
    OBVIOUS
  <2>2. instances = Expected("components", source)
    BY <2>1, TidyIs, Zenon DEF LineInv, ComponentsSeen
  <2>3. source \in Seq(Definitions)
    BY SourcesAssumption, Zenon DEF SInv, TextOK
  <2>4. \A i \in DOMAIN source : FoundOf("components", source[i]) \in Seq(AtScope)
    <3>1. "components" # "templates" /\ \A i \in DOMAIN source : source[i] \in Definitions
      BY <2>3
    <3> QED BY PartsScope, <3>1, Zenon DEF FoundOf
  <2>5. [i \in DOMAIN source |-> FoundOf("components", source[i])] \in Seq(Seq(AtScope))
    BY <2>3, <2>4
  <2>6. instances \in Seq(AtScope)
    BY <2>2, <2>5, FlattenType, Zenon DEF Expected
  <2>7. \A i \in DOMAIN instances : instances[i] \in AtScope
    BY <2>6
  <2> QED BY <2>7, Zenon DEF AtScope
<1> QED BY <1>1, ReadersInvariant, ScannersInvariant, PTL
=============================================================================
