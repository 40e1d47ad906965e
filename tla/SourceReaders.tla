---------------------------- MODULE SourceReaders ----------------------------
(***************************************************************************)
(* The three readers of a source, run one after the other on the same      *)
(* text: parse_template_definitions and parse_component_instances of       *)
(* tracer.rs look at lines as they are written, parse_program_with_buses   *)
(* of evaluator.rs at the tokens outside comments.  What one finds is      *)
(* looked up by name in what the others found.                             *)
(*                                                                         *)
(* A source is a sequence of definitions the circom compiler accepts.  A   *)
(* token stands for what the readers tell apart: keywords, names, braces,  *)
(* "stmt" for a statement the parser reads, "bad" for one it does not (a   *)
(* while loop, a string, a tuple).  No reader knows strings: what is in    *)
(* one is read as code.  Parameters, arguments and line numbers are left   *)
(* out.                                                                    *)
(***************************************************************************)
EXTENDS Integers, Sequences, SequencesExt, FiniteSets

CONSTANTS
    Names,    \* the identifiers
    Sources   \* the sources, each a sequence of definitions

Modifiers == {"custom", "parallel"}
Punctuation == {"(", ")", "{", "}", "=", ";"}
Words == {"template", "function", "bus", "component", "signal", "signal input", "for",
          "stmt", "log", "//", "pragma", "include", "bad", "eof"} \cup Modifiers

\* What may stand in a body: components and inputs in templates only.  Four are a
\* log() of a string: with a keyword, a whole header, a `/*` or a brace in it.
FunctionBody == {"plain", "loop", "bad", "said", "defines", "comments", "unbalanced",
                 "opens", "closes"}
TemplateBody == FunctionBody \cup {"input a", "input b", "part"}

TemplateDefs == [kind : {"template"}, name : Names, mods : Seq(Modifiers),
                 body : Seq(TemplateBody), glued : BOOLEAN]
FunctionDefs == [kind : {"function"}, name : Names, mods : {<<>>},
                 body : Seq(FunctionBody), glued : BOOLEAN]
BusDefs == [kind : {"bus"}, name : Names, mods : {<<>>}, body : Seq({"field"}), glued : BOOLEAN]
OtherDefs == [kind : {"main", "public", "quoted"}, name : Names]
Definitions == TemplateDefs \cup FunctionDefs \cup BusDefs \cup OtherDefs

\* A definition starts on the line that ends the one before, if glued.
Glued(d) == d.kind \in {"template", "function", "bus"} /\ d.glued

ASSUME NamesAssumption == Names \cap (Words \cup Punctuation \cup {"/*"}) = {}

\* The first definition has no line before it, and the line before is no comment.
ASSUME SourcesAssumption ==
    \A s \in Sources :
        /\ s \in Seq(Definitions)
        /\ \A i \in DOMAIN s : Glued(s[i]) => i > 1 /\ s[i - 1].kind # "quoted"

---------------------------------------------------------------------------
\* How a source is written (circom's syntax): lines of text, and the code in it.

Line(ts) == [text |-> ts, code |-> ts]
Comment(ts) == [text |-> ts, code |-> <<>>]

Instance(name, template) == <<"component">> \o name \o <<"=", template, "(", ")", ";">>

InputName(f) == IF f = "input a" THEN "a" ELSE "b"

Fragment(f) ==
    CASE f = "plain" -> <<Line(<<"stmt">>)>>
      [] f \in {"input a", "input b"} -> <<Line(<<"signal input", InputName(f)>>)>>
      [] f = "field" -> <<Line(<<"signal", "x", ";">>)>>
      [] f = "loop" -> <<Line(<<"for", "{">>), Line(<<"stmt">>), Line(<<"}">>)>>
      [] f = "part" -> <<Line(Instance(<<"c">>, "B"))>>
      [] f = "bad" -> <<Line(<<"bad">>)>>
      [] f = "said" -> <<[text |-> <<"log">>, code |-> <<"bad", "template", "w">>]>>
      [] f = "defines" -> <<[text |-> <<"log", "{", "}">>,
                             code |-> <<"bad", "template", "w", "(", ")", "{", "}">>]>>
      [] f = "comments" -> <<[text |-> <<"log">>, code |-> <<"bad", "/*">>]>>
      [] f = "unbalanced" -> <<[text |-> <<"log", "}">>, code |-> <<"bad", "}">>]>>
      [] f = "opens" -> <<Comment(<<"//", "{">>)>>
      [] f = "closes" -> <<Comment(<<"//", "}">>)>>

Header(d) == <<d.kind>> \o d.mods \o <<d.name, "(", ")", "{">>
Body(d) == FlattenSeq([i \in DOMAIN d.body |-> Fragment(d.body[i])])

AddLines(lines, d) ==
    CASE d.kind = "main" -> Append(lines, Line(Instance(<<"main">>, d.name)))
      [] d.kind = "public" -> Append(lines, Line(Instance(<<"main", "{", "}">>, d.name)))
      [] d.kind = "quoted" ->
           lines \o <<Comment(<<"template", d.name, "(", ")", "{">>), Comment(<<"}">>)>>
      [] d.kind \in {"template", "function", "bus"} /\ ~Glued(d) ->
           lines \o <<Line(Header(d))>> \o Body(d) \o <<Line(<<"}">>)>>
      [] OTHER ->
           Front(lines) \o <<Line(Last(lines).text \o Header(d))>> \o Body(d) \o <<Line(<<"}">>)>>

Lines(defs) ==
    LET upTo[n \in 0..Len(defs)] == IF n = 0 THEN <<>> ELSE AddLines(upTo[n - 1], defs[n])
    IN  upTo[Len(defs)]

Before(ts, t) ==  \* the tokens before the first t, none if there is no t
    IF t \in Range(ts) THEN SubSeq(ts, 1, SelectInSeq(ts, LAMBDA u : u = t) - 1) ELSE <<>>


\* The comment that a `/*` opens goes on to the end of the text: no source ends it.
Uncommented(ts) == IF "/*" \in Range(ts) THEN Before(ts, "/*") ELSE ts

Tokens(lines) == Uncommented(FlattenSeq([i \in DOMAIN lines |-> lines[i].code])) \o <<"eof">>

---------------------------------------------------------------------------
VARIABLES source,              \* what is read
          lines,               \* its lines
          stage,               \* the reader at work
          at,                  \* its next line
          current,             \* the template a line scanner is in, or Outside
          scanned, instances,  \* what the line scanners found
          parser,              \* the position of the parser and what it is reading
          parsed               \* the definitions it found

vars == <<source, lines, stage, at, current, scanned, instances, parser, parsed>>

Outside == [name |-> <<>>, inputs |-> <<>>, depth |-> 0]
Start == [pos |-> 1, mode |-> "top", kind |-> "", name |-> "", members |-> <<>>,
          expected |-> <<>>, depth |-> 0]

Init ==
    /\ source \in Sources /\ lines = Lines(source)
    /\ stage = "templates" /\ at = 1 /\ current = Outside
    /\ scanned = <<>> /\ instances = <<>>
    /\ parser = Start
    /\ parsed = [templates |-> <<>>, functions |-> <<>>, buses |-> <<>>]

---------------------------------------------------------------------------
\* The line scanners.

Text == lines[at].text
Inside == current.name # <<>>

After(ts, t) == SubSeq(ts, Len(Before(ts, t)) + 2, Len(ts))

Count(ts, t) == Cardinality({i \in DOMAIN ts : ts[i] = t})
DepthAfter(d, ts) == d + Count(ts, "{") - Count(ts, "}")

\* Mutant of Closes: the depth is one off.
ClosesBelowZero(d, ts) == \E i \in DOMAIN ts : DepthAfter(d, SubSeq(ts, 1, i)) < 0

Closes(d, ts) ==
    \E i \in DOMAIN ts : ts[i] = "}" /\ DepthAfter(d, SubSeq(ts, 1, i)) <= 0

\* Mutant of Unmodified: no modifier is dropped from the name.
AsWritten(ts) == ts

\* One modifier, not two, is dropped from the name of a scanned template.
Unmodified(ts) == IF ts # <<>> /\ Head(ts) \in Modifiers THEN Tail(ts) ELSE ts

\* Mutant of Opening: a header with a modifier left in it opens nothing.
OpeningPlain(modified) ==
    IF Inside \/ Head(Text) # "template" \/ Head(modified) \in Modifiers THEN <<>>
    ELSE Before(modified, "(")

\* The name of a template that starts on this line, if one does.
Opening(modified) ==
    IF Inside \/ Head(Text) # "template" THEN <<>> ELSE Before(modified, "(")

Entered(name) == IF Inside THEN current ELSE [Outside EXCEPT !.name = name]
Left(c) == [c EXCEPT !.depth = DepthAfter(@, Text)]

ScanTemplate ==
    /\ stage = "templates" /\ at <= Len(lines)
    /\ LET entered == Entered(Opening(Unmodified(Tail(Text))))
           c == IF entered.name # <<>> /\ Head(Text) = "signal input"
                THEN [entered EXCEPT !.inputs = Append(@, Text[2])] ELSE entered
       IN IF c.name # <<>> /\ Closes(c.depth, Text)
          THEN /\ scanned' = Append(scanned, [name |-> c.name, inputs |-> c.inputs])
               /\ current' = Outside
          ELSE /\ current' = IF c.name = <<>> THEN c ELSE Left(c)
               /\ UNCHANGED scanned
    /\ at' = at + 1
    /\ UNCHANGED <<source, lines, stage, instances, parser, parsed>>

\* At the end of the text an open template counts as well.
EndTemplates ==
    /\ stage = "templates" /\ at > Len(lines)
    /\ scanned' = IF Inside
                  THEN Append(scanned, [name |-> current.name, inputs |-> current.inputs])
                  ELSE scanned
    /\ current' = Outside /\ at' = 1 /\ stage' = "components"
    /\ UNCHANGED <<source, lines, instances, parser, parsed>>

\* Mutant of Found: the annotation of the main component stays in its name.
FoundAnnotated(parent) ==
    IF Head(Text) = "component" /\ "=" \in Range(Text)
    THEN <<[name |-> Before(Tail(Text), "="), template |-> Before(After(Text, "="), "("),
            parent |-> parent]>>
    ELSE <<>>

\* A component line: its name without an annotation, its template, its parent.
Found(parent) ==
    IF Head(Text) = "component" /\ "=" \in Range(Text) /\ "(" \in Range(After(Text, "="))
    THEN LET raw == Before(Tail(Text), "=")
             name == IF "{" \in Range(raw) THEN Before(raw, "{") ELSE raw
             template == Before(After(Text, "="), "(")
         IN IF name = <<>> \/ template = <<>> THEN <<>>
            ELSE <<[name |-> name, template |-> template, parent |-> parent]>>
    ELSE <<>>

\* The parent is the name in the header as it is written, modifiers included.
ScanComponent ==
    /\ stage = "components" /\ at <= Len(lines)
    /\ LET c == Entered(Opening(Tail(Text)))
       IN /\ instances' = instances \o Found(c.name)
          /\ current' = IF c.name = <<>> \/ Closes(c.depth, Text) THEN Outside ELSE Left(c)
    /\ at' = at + 1
    /\ UNCHANGED <<source, lines, stage, scanned, parser, parsed>>

EndComponents ==
    /\ stage = "components" /\ at > Len(lines)
    /\ current' = Outside /\ stage' = "parser"
    /\ UNCHANGED <<source, lines, at, scanned, instances, parser, parsed>>

---------------------------------------------------------------------------
\* The parser.

Stream == Tokens(lines)
Peek == Stream[parser.pos]

\* bump stays on the last token.
Bumped(n) == IF parser.pos + n <= Len(Stream) THEN parser.pos + n ELSE Len(Stream)

Reading(mode) == stage = "parser" /\ parser.mode = mode
Parses(p) ==
    /\ parser' = p
    /\ UNCHANGED <<source, lines, stage, at, current, scanned, instances>>
Reads(p) == Parses(p) /\ UNCHANGED parsed
Begin(kind, mode, expected, depth) ==
    Reads([Start EXCEPT !.pos = Bumped(1), !.kind = kind, !.mode = mode,
                        !.expected = expected, !.depth = depth])
Finish == [parser EXCEPT !.pos = Bumped(1), !.mode = "top"]

IsName(t) == t \notin Punctuation \cup {"bad", "eof"}
Fails == Reads([parser EXCEPT !.mode = "skip"])

TopDefinition ==
    /\ Reading("top")
    /\ \/ Peek = "template" /\ Begin("template", "modifiers", <<>>, 0)
       \/ Peek = "function" /\ Begin("function", "expect", <<"name", "(", ")", "{">>, 1)
       \/ Peek = "bus" /\ Begin("bus", "bus name", <<>>, 0)

\* pragma, include and the main component: up to their semicolon.
TopDirective ==
    /\ Reading("top") /\ Peek \in {"pragma", "include", "component"}
    /\ Reads([parser EXCEPT !.mode = "eat"])
EatDirective ==
    /\ Reading("eat")
    /\ IF Peek \in {";", "eof"}
       THEN Reads([parser EXCEPT !.pos = IF Peek = ";" THEN Bumped(1) ELSE @, !.mode = "top"])
       ELSE Reads([parser EXCEPT !.pos = Bumped(1)])

\* Mutant of TopOther: a token that is no keyword is not passed over.
TopOtherInPlace ==
    /\ Reading("top")
    /\ Peek \notin {"template", "function", "bus", "pragma", "include", "component", "eof"}
    /\ Reads(parser)

TopOther ==
    /\ Reading("top")
    /\ Peek \notin {"template", "function", "bus", "pragma", "include", "component", "eof"}
    /\ Reads([parser EXCEPT !.pos = Bumped(1)])

EndParser ==
    /\ Reading("top") /\ Peek = "eof"
    /\ stage' = "done"
    /\ UNCHANGED <<source, lines, at, current, scanned, instances, parser, parsed>>

\* Any number of modifiers before the name of a template.
SkipModifier ==
    /\ Reading("modifiers")
    /\ IF Peek \in Modifiers
       THEN Reads([parser EXCEPT !.pos = Bumped(1)])
       ELSE Reads([parser EXCEPT !.mode = "expect", !.expected = <<"name", "(", ")", "{">>,
                                 !.depth = 1])

\* expect_ident and expect_punct; the semicolon of a component is only eaten.
ExpectToken ==
    /\ Reading("expect") /\ parser.expected # <<>>
    /\ LET wanted == Head(parser.expected)
       IN CASE wanted = Peek \/ (wanted \in {"name", "part"} /\ IsName(Peek)) ->
                 Reads([parser EXCEPT !.pos = Bumped(1), !.expected = Tail(@),
                                      !.name = IF wanted = "name" THEN Peek ELSE @])
            [] wanted = ";" /\ Peek # ";" -> Reads([parser EXCEPT !.expected = Tail(@)])
            [] OTHER -> Fails

ExpectedSeen ==
    /\ Reading("expect") /\ parser.expected = <<>>
    /\ Reads([parser EXCEPT !.mode = "body"])

\* parse_stmt within parse_block: what cannot start a statement is an error.
Statement ==
    /\ Reading("body") /\ Peek # "}"
    /\ CASE Peek = "stmt" -> Reads([parser EXCEPT !.pos = Bumped(1)])
         [] Peek = "for" -> Reads([parser EXCEPT !.pos = Bumped(2), !.depth = @ + 1])
         [] Peek = "signal input" ->
              Reads([parser EXCEPT !.pos = Bumped(2),
                                   !.members = IF parser.depth = 1
                                               THEN Append(@, Stream[parser.pos + 1]) ELSE @])
         [] Peek = "component" ->
              Reads([parser EXCEPT !.pos = Bumped(1), !.mode = "expect",
                                   !.expected = <<"part", "=", "part", "(", ")", ";">>])
         [] OTHER -> Fails

Member == [name |-> parser.name, members |-> parser.members]

EndBlock ==
    /\ Reading("body") /\ Peek = "}"
    /\ IF parser.depth > 1
       THEN Reads([parser EXCEPT !.pos = Bumped(1), !.depth = @ - 1])
       ELSE /\ Parses(Finish)
            /\ parsed' = IF parser.kind = "template"
                         THEN [parsed EXCEPT !.templates = Append(@, Member)]
                         ELSE [parsed EXCEPT !.functions = Append(@, parser.name)]

\* Mutant of Resumes: the skip looks for the next template only.
ResumesAtTemplate(t) == t \in {"template", "eof"}

\* Where reading goes on after a definition with an error: a bus, a pragma or an
\* include is not seen.
Resumes(t) == t \in {"template", "function", "component", "eof"}

Skip ==
    /\ Reading("skip")
    /\ Reads(IF Resumes(Peek) THEN [parser EXCEPT !.mode = "top"]
                              ELSE [parser EXCEPT !.pos = Bumped(1)])

BusName ==
    /\ Reading("bus name")
    /\ Reads(IF IsName(Peek)
             THEN [parser EXCEPT !.pos = Bumped(1), !.name = Peek, !.mode = "parens"]
             ELSE [parser EXCEPT !.mode = "top"])

\* The parameters of a bus, if any, are passed over.
BusParameters ==
    /\ Reading("parens")
    /\ CASE Peek = "(" -> Reads([parser EXCEPT !.pos = Bumped(1), !.depth = @ + 1])
         [] Peek = ")" /\ parser.depth > 0 ->
              Reads([parser EXCEPT !.pos = Bumped(1), !.depth = @ - 1,
                                   !.mode = IF parser.depth = 1 THEN "bus body" ELSE @])
         [] Peek # "(" /\ (parser.depth = 0 \/ Peek = "eof") ->
              Reads([parser EXCEPT !.mode = "bus body"])
         [] OTHER -> Reads([parser EXCEPT !.pos = Bumped(1)])

PushBus == parsed' = [parsed EXCEPT !.buses = Append(@, Member)]

BusBody ==
    /\ Reading("bus body")
    /\ IF Peek = "{"
       THEN Reads([parser EXCEPT !.pos = Bumped(1), !.depth = 1, !.mode = "fields"])
       ELSE Parses([parser EXCEPT !.mode = "top"]) /\ PushBus

BusField ==
    /\ Reading("fields")
    /\ CASE Peek = "eof" -> Parses([parser EXCEPT !.mode = "top"]) /\ PushBus
         [] Peek = "}" /\ parser.depth = 1 -> Parses(Finish) /\ PushBus
         [] Peek = "{" \/ (Peek = "}" /\ parser.depth # 1) ->
              Reads([parser EXCEPT !.pos = Bumped(1), !.depth = IF Peek = "{" THEN @ + 1 ELSE @ - 1])
         [] Peek = "signal" /\ parser.depth = 1 ->
              Reads([parser EXCEPT !.pos = Bumped(1), !.mode = "field name"])
         [] OTHER -> Reads([parser EXCEPT !.pos = Bumped(1)])

BusFieldName ==
    /\ Reading("field name")
    /\ Reads(IF IsName(Peek)
             THEN [parser EXCEPT !.pos = Bumped(1), !.members = Append(@, Peek),
                                 !.mode = "field rest"]
             ELSE [parser EXCEPT !.mode = "fields"])

BusFieldRest ==
    /\ Reading("field rest")
    /\ Reads(IF Peek \in {";", "eof"}
             THEN [parser EXCEPT !.pos = IF Peek = ";" THEN Bumped(1) ELSE @, !.mode = "fields"]
             ELSE [parser EXCEPT !.pos = Bumped(1)])

---------------------------------------------------------------------------
Scan == ScanTemplate \/ EndTemplates \/ ScanComponent \/ EndComponents
ParseTop == TopDefinition \/ TopDirective \/ EatDirective \/ TopOther \/ EndParser \/ Skip
ParseBody == SkipModifier \/ ExpectToken \/ ExpectedSeen \/ Statement \/ EndBlock
ParseBus == BusName \/ BusParameters \/ BusBody \/ BusField \/ BusFieldName \/ BusFieldRest

Done == stage = "done" /\ UNCHANGED vars

Next == Scan \/ ParseTop \/ ParseBody \/ ParseBus \/ Done
Spec == Init /\ [][Next]_vars /\ WF_vars(Scan \/ ParseTop \/ ParseBody \/ ParseBus)

---------------------------------------------------------------------------
\* What the source says.

HasString == {"said", "defines", "comments", "unbalanced"}
Broken(d) ==
    d.kind \in {"template", "function"} /\ Range(d.body) \cap ({"bad"} \cup HasString) # {}
Parsable(d, kind) == d.kind = kind /\ ~Broken(d)

\* One item if there is one, for a list that is put together of such lists.
Where(holds, item) == IF holds THEN <<item>> ELSE <<>>

Inputs(d) ==
    FlattenSeq([i \in DOMAIN d.body |->
                  Where(d.body[i] \in {"input a", "input b"}, InputName(d.body[i]))])

\* No string has a header or a `/*` in it.
PlainStrings ==
    \A i \in DOMAIN source :
        source[i].kind \in {"template", "function"} =>
            Range(source[i].body) \cap {"defines", "comments"} = {}

\* The definitions up to the first with a `/*` in a string, if there is one.
Heard ==
    LET opening == {i \in DOMAIN source : Broken(source[i]) /\ "comments" \in Range(source[i].body)}
    IN  IF opening = {} THEN source ELSE SubSeq(source, 1, Min(opening))

\* The templates whose headers are in the strings of a definition, before a `/*` in one.
StringHeaders(d) ==
    LET said == IF "comments" \in Range(d.body) THEN Before(d.body, "comments") ELSE d.body
    IN  FlattenSeq([i \in DOMAIN said |->
            Where(said[i] = "defines", [name |-> "w", members |-> <<>>])])

\* The sources the line scanners are written for: one definition starts per line,
\* no comment has a header or a brace in it and no string an odd brace.
Tidy ==
    \A i \in DOMAIN source :
        LET d == source[i]
        IN /\ d.kind # "quoted"
           /\ d.kind \notin {"main", "public"} =>
                ~d.glued /\ Range(d.body) \cap {"opens", "closes", "unbalanced"} = {}

HeadersHave(n) ==
    \A i \in DOMAIN source : source[i].kind = "template" => Len(source[i].mods) <= n

InstancesOf(d) ==
    IF d.kind \in {"main", "public"}
    THEN <<[name |-> <<"main">>, template |-> <<d.name>>, parent |-> <<>>]>>
    ELSE IF d.kind # "template" THEN <<>>
    ELSE FlattenSeq([i \in DOMAIN d.body |->
             Where(d.body[i] = "part",
                   [name |-> <<"c">>, template |-> <<"B">>, parent |-> <<d.name>>])])

---------------------------------------------------------------------------
\* Properties.

\* The readers stay within the text and the stream; a line scanner is in a template
\* only while braces of it are open, and starts its scan outside of any.
TypeOK ==
    /\ stage \in {"templates", "components", "parser", "done"}
    /\ at \in 1..(Len(lines) + 1)
    /\ current # Outside => current.name # <<>> /\ current.depth > 0
    /\ at = 1 \/ stage \in {"parser", "done"} => current = Outside
    /\ parser.pos \in DOMAIN Stream /\ parser.depth \in 0..Len(Stream)

DefinitionsAreParsed ==
    /\ parsed.templates =
         FlattenSeq([i \in DOMAIN source |->
             Where(Parsable(source[i], "template"),
                   [name |-> source[i].name, members |-> Inputs(source[i])])])
    /\ parsed.functions =
         FlattenSeq([i \in DOMAIN source |->
             Where(Parsable(source[i], "function"), source[i].name)])
    /\ (\A i \in DOMAIN source : ~Broken(source[i])) =>
         parsed.buses =
           FlattenSeq([i \in DOMAIN source |->
               Where(Parsable(source[i], "bus"),
                     [name |-> source[i].name,
                      members |-> [j \in DOMAIN source[i].body |-> "x"]])])

\* A definition the parser cannot read takes no other template or function with it
\* and adds none, whatever comments and modifiers the source has, if no string has a
\* header or a `/*` in it (parse_program_with_buses: "to continue"); the buses are
\* all read, with their fields, if there is no such definition.
DefinitionsSurvive == stage = "done" /\ PlainStrings => DefinitionsAreParsed


\* In a tidy source with at most one modifier per header the scanner finds every
\* template under its name and with its inputs, those the parser cannot read
\* included: the functions of the trace are those of the source.
ScannedAreDefined ==
    Tidy /\ HeadersHave(1) /\ stage # "templates" =>
        scanned = FlattenSeq([i \in DOMAIN source |->
                      Where(source[i].kind = "template",
                            [name |-> <<source[i].name>>, inputs |-> Inputs(source[i])])])

\* In a tidy source without modifiers every component is found, in source order,
\* with the template it is declared in.
ParentsAreEnclosing ==
    Tidy /\ HeadersHave(0) /\ stage \in {"parser", "done"} =>
        instances = FlattenSeq([i \in DOMAIN source |-> InstancesOf(source[i])])

\* In a tidy source, with any modifiers, the main component is the only one found
\* at file scope: emit_source_trace takes the first one without a parent for it.
MainAtFileScope ==
    Tidy /\ stage \in {"parser", "done"} =>
        \A i \in DOMAIN instances :
            instances[i].parent = <<>> <=> instances[i].name = <<"main">>

\* The three readers come to an end on every source: no reader waits at the end of
\* the text for a token that does not come.
Termination == <>(stage = "done")
=============================================================================
