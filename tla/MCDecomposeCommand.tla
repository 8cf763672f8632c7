------------------------- MODULE MCDecomposeCommand -------------------------
(***************************************************************************)
(* DecomposeCommand on every handoff of three steps with dependencies      *)
(* among them, two projects and four kinds of estimate, and on handoffs    *)
(* with the oddities the parser meets.                                     *)
(***************************************************************************)
EXTENDS DecomposeCommand

MCProjects == <<"alpha", "default">>
MCSlug == [ t \in {"T", "T!", "U"} |-> IF t = "U" THEN "u" ELSE "t" ]

Blank == << Line("blank", NoValue) >>
Words == << Line("text", "words") >>
Behind(line) == << Line("indented", line) >>
Heading(name) == << Line("section", name) >>
StepHeading(n) == << Line("step", [number |-> n, title |-> n]) >>

\* An estimate: none, one hour, a range of half a day, words without a number.
Estimates == << NoValue, [unit |-> "hour", parts |-> <<1>>],
                [unit |-> "hour", parts |-> <<2, 3>>], [unit |-> "none", parts |-> <<>>] >>

StepText(n, project, effort, depends) ==
    StepHeading(n)
    \o When(project # NoValue, << Line("project", project) >>)
    \o When(effort # NoValue, << Line("effort", effort) >>)
    \o When(depends # <<>>, << Line("depends", depends) >>)
    \o When(n # 2, Words) \o Blank
    \o When(n = 3, << Line("files", NoValue), Line("file", "src/lib.rs"),
                      Line("verification", NoValue), Line("fence", NoValue),
                      Line("text", "cargo test"), Line("fence", NoValue),
                      Line("start", NoValue), Line("end", NoValue) >>)
    \o When(n # 1, << Line("checklist", NoValue), Line("item", FALSE), Line("item", TRUE) >>)

Top(title) ==
    << Line("title", title) >> \o Heading("Handoff Metadata")
    \o << Line("meta", [key |-> "Dispatch", value |-> "umbrella"]) >>
    \o Heading("Problem") \o Words \o Heading("What needs doing") \o Words

Document(title, steps) == Top(title) \o FlattenSeq(steps) \o Heading("Context") \o Words

\* Three steps: where each belongs, how long it takes, what it depends on.
ProjectsOf == << <<NoValue, NoValue, NoValue>>, <<NoValue, "alpha", NoValue>> >>
EffortsOf == << <<1, 1, 1>>, <<2, 3, 2>>, <<4, 3, 3>> >>
DependsOf(i, j) == << <<>>, <<i>>, <<j>>, <<i, j>> >>

\* The k-th choice of these, for k in 0 .. 383.
Regular(k) ==
    LET p == ProjectsOf[1 + (k % 2)]
        e == EffortsOf[1 + ((k \div 2) % 3)]
        d == k \div 6
    IN  Document("T", << StepText(1, p[1], Estimates[e[1]], DependsOf(2, 3)[1 + (d % 4)]),
                         StepText(2, p[2], Estimates[e[2]], DependsOf(1, 3)[1 + ((d \div 4) % 4)]),
                         StepText(3, p[3], Estimates[e[3]], DependsOf(1, 2)[1 + (d \div 16)]) >>)

Plain(n) == StepText(n, NoValue, NoValue, <<>>)

Odd == <<
    \* 1-3: short handoffs of a like and of another slug
    Document("T!", << Plain(1) >>),
    Document("T", << Plain(1), Plain(2), Plain(3), Plain(4), StepText(5, "alpha", NoValue, <<1>>) >>),
    Document("U", << Plain(1), Plain(1), StepText(2, NoValue, NoValue, <<1, 7>>) >>),
    \* 4-7: what the parser refuses
    Words,
    << Line("title", "T") >> \o Heading("Problem") \o Words,
    << Line("title", "T") >> \o Heading("Problem") \o << Line("rule", NoValue) >> \o Words,
    Top("T") \o StepHeading(NoNumber) \o Words,
    \* 8: a code block with a heading in it, in a section and in a step, and
    \* text that reads as a heading
    Top("T") \o << Line("fence", NoValue), Line("section", "Other"), Line("fence", NoValue) >>
        \o Plain(2) \o << Line("verification", NoValue), Line("fence", NoValue) >> \o Words
        \o Heading("Other") \o << Line("fence", NoValue), Line("bare", "Context") >> \o Words
        \o Plain(3),
    \* 9: a description that goes on past bold lines, and heading4
    Top("T") \o StepHeading(1) \o Words \o << Line("bold", "note"), Line("project", "alpha") >> \o Blank
        \o << Line("heading4", "more") >> \o Words \o << Line("rule", NoValue) >> \o Words
        \o StepHeading(2) \o << Line("bold", "note"), Line("effort", Estimates[3]) >>
        \o << Line("checklist", NoValue), Line("item", TRUE) >>,
    \* 10: the state section, the paste markers, an unterminated fence
    Top("T") \o Heading("What exists") \o << Line("meta", [key |-> "x", value |-> "y"]) >>
        \o StepHeading(1) \o << Line("verification", NoValue), Line("fence", NoValue) >> \o Words
        \o << Line("fence", NoValue), Line("start", NoValue), Line("text", "out"), Line("end", NoValue),
              Line("fence", NoValue) >> \o Words,
    \* 11: four steps, none of which fits a piece with another
    Document("T", [ n \in 1 .. 4 |-> StepText(n, NoValue, Estimates[3], <<>>) ]),
    \* 12-15: what only white space keeps from the margin: text and a heading
    \* of a section, a field, a step and a rule, each of the last three the
    \* first thing a description says
    Top("T") \o StepHeading(1) \o Behind(Line("text", "words"))
        \o Behind(Line("bold", "note")) \o Behind(Line("section", "Context")) \o Words
        \o StepHeading(2) \o Behind(Line("item", TRUE)) \o Behind(Line("rule", NoValue))
        \o << Line("checklist", NoValue), Line("item", TRUE) >>,
    Top("T") \o StepHeading(1) \o Behind(Line("bold", "note")) \o Blank
        \o StepHeading(2) \o Words,
    Top("T") \o StepHeading(1) \o << Line("space", NoValue) >> \o Blank
        \o Behind(Line("step", [number |-> 9, title |-> 9])) \o Words,
    Top("T") \o StepHeading(1) \o Behind(Line("rule", NoValue)) \o Words
        \o << Line("checklist", NoValue), Line("item", FALSE) >> >>

MCDrafts == Odd \o [ k \in 1 .. 384 |-> Regular(k - 1) ]
MCEdits == {1}

\* The drafts are those the theorem on full pieces is about.
ASSUME DraftsWrapNothing == NothingWraps

MCSymmetry == Permutations(Runs)
=============================================================================
