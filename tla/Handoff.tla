------------------------------ MODULE Handoff ------------------------------
(***************************************************************************)
(* The handoff parser: parser/markdown.rs of hymenium.                     *)
(*                                                                         *)
(* A document is a sequence of lines, and a line a record [is, of]: what   *)
(* the parser's prefix tests make of it, and the part it takes out of it.  *)
(* A line of several readings (a bare "Context" in running text, which     *)
(* normalize_heading cannot tell from the heading) has a kind of its own.  *)
(*   title      "# ..."            section   "## ..." with its name        *)
(*   step       "### Step n: ..."  heading3  any other "### ..."           *)
(*   rule       "---"              fence     "```"                         *)
(*   project, effort, depends      the "**Key:** value" lines of a step    *)
(*   files, verification, heading4 "#### ..."                              *)
(*   checklist  "**Checklist:**"   item      "- [ ] ..."                   *)
(*   file       "**`path`** ..."   bold      any other "**..."             *)
(*   meta       "- **key:** v"     bare      text that reads as a heading  *)
(*   start, end the paste markers  text, blank                             *)
(*   space      white space only   indented  white space before a line     *)
(* The tests are of how a line starts, so they see none of what is behind  *)
(* white space; what is trimmed first shows it.                            *)
(***************************************************************************)
EXTENDS Integers, Sequences, SequencesExt

CONSTANTS NoNumber,     \* "### Step one:" has no digits: not a step
          NoValue       \* an absent project, effort, verification or metadata

Line(kind, of) == [is |-> kind, of |-> of]

Blanks == {"blank", "space"}

Unindented(line) == IF line.is = "indented" THEN line.of ELSE line

\* str::trim of some lines joined: blank lines go at either end, and the
\* white space before what comes first.
Trimmed(lines) ==
    LET said == { i \in DOMAIN lines : lines[i].is \notin Blanks }
    IN  IF said = {} THEN <<>>
        ELSE [SubSeq(lines, Min(said), Max(said)) EXCEPT ![1] = Unindented(@)]

\* normalize_heading trims the line, drops "## " only when it is there, and
\* everything from the last parenthesis: "## What exists (state)" and
\* "  what exists" are one.
Names(line, section) ==
    LET seen == Unindented(line) IN
    seen.is \in {"section", "bare"} /\ seen.of = section

HeadingOrRule == {"section", "step", "heading3", "rule"}

(***************************************************************************)
(* Sections.                                                               *)
(***************************************************************************)

\* One line of extract_section_by_type. The heading is looked for first, in
\* code blocks too; a code block hides the headings that would end the
\* section, and keeps its blank lines.
SectionLine(section, s, line) ==
    CASE ~s.past /\ Names(line, section) -> [s EXCEPT !.in = TRUE]
      [] s.past \/ (~s.in /\ ~Names(line, section)) -> s
      [] OTHER ->
           IF ~s.code /\ line.is \in HeadingOrRule
           THEN [s EXCEPT !.past = TRUE]
           ELSE [s EXCEPT !.code = (line.is = "fence") # s.code,
                          !.text = IF line.is = "blank" /\ ~s.code
                                   THEN @ ELSE Append(@, line)]

Section(doc, section) ==
    FoldLeft(LAMBDA s, line : SectionLine(section, s, line),
             [in |-> FALSE, past |-> FALSE, code |-> FALSE, text |-> <<>>],
             doc).text

\* The text is trimmed before it is tested: blank lines kept by a code block
\* count for nothing on their own.
HasSection(doc, section) ==
    \E i \in DOMAIN Section(doc, section) :
        Section(doc, section)[i].is \notin Blanks

\* The lines from just after a heading to the next one of its level, for
\* the two extractors that stop at "## " only.
Under(doc, Heads(_)) ==
    LET heads == { i \in DOMAIN doc : Heads(doc[i]) }
        from == { i \in DOMAIN doc : \E h \in heads : h < i }
        ends == { i \in from \ heads : doc[i].is = "section" }
    IN  SelectSeq([ i \in 1 .. Len(doc) |->
                      IF i \in from \ heads /\ \A e \in ends : i < e
                      THEN doc[i] ELSE Line("blank", NoValue) ],
                  LAMBDA line : line.is # "blank")

\* "- **key:** value" items of "What exists".
State(doc) ==
    SelectSeq(Under(doc, LAMBDA line : Names(line, "What exists")),
              LAMBDA line : line.is = "meta")

\* extract_metadata takes the heading literally; no line, no metadata. Every
\* key keeps the last value it was given, but one: cross-repo edits of "none"
\* leave an earlier rule standing. Dispatchability starts as direct, and
\* anything but "umbrella" puts it back.
Metadata(doc) ==
    LET lines == Under(doc, LAMBDA line : line.is = "section" /\ line.of = "Handoff Metadata")
        LastOf(keys, default) ==
            LET given == SelectSeq(lines, LAMBDA line :
                             /\ line.is = "meta" /\ line.of.key \in keys
                             /\ line.of.key = "Cross-repo edits" => line.of.value # "none")
            IN  IF given = <<>> THEN default ELSE Last(given).of.value
    IN  IF lines = <<>> THEN NoValue
        ELSE [ dispatch |-> LastOf({"Dispatch"}, "direct"),
               repo |-> LastOf({"Owning repo"}, ""),
               writes |-> LastOf({"Allowed write scope"}, <<>>),
               reads |-> LastOf({"Source read scope", "Read scope"}, NoValue),
               crossRepo |-> LastOf({"Cross-repo edits"}, NoValue),
               nonGoals |-> LastOf({"Non-goals"}, <<>>),
               contract |-> LastOf({"Verification contract"}, ""),
               completion |-> LastOf({"Completion update"}, "") ]

(***************************************************************************)
(* Steps.                                                                  *)
(***************************************************************************)

\* parse_verification_block: the commands are the fenced lines, an
\* unterminated fence included, and every paste marker notes whether
\* something stands between it and the end of its region.
VerificationLine(v, line) ==
    CASE line.is = "fence" ->
           [v EXCEPT !.code = ~@,
                     !.command = <<>>,
                     !.commands = IF v.code /\ v.command # <<>>
                                  THEN Append(@, v.command) ELSE @]
      [] line.is # "fence" /\ v.code ->
           [v EXCEPT !.command = Append(@, line)]
      [] Unindented(line).is = "start" /\ ~v.code ->
           [v EXCEPT !.paste = TRUE, !.filled = FALSE,
                     !.markers = Append(@, FALSE)]
      [] Unindented(line).is = "end" /\ ~v.code ->
           LET told == IF v.paste /\ v.markers # <<>>
                       THEN [v.markers EXCEPT ![Len(v.markers)] = v.filled]
                       ELSE v.markers
           IN  [v EXCEPT !.paste = FALSE, !.markers = Append(told, v.filled)]
      [] OTHER -> [v EXCEPT !.filled = @ \/ (v.paste /\ line.is \notin Blanks)]

Verification(lines) ==
    LET v == FoldLeft(VerificationLine,
                      [code |-> FALSE, command |-> <<>>, commands |-> <<>>,
                       paste |-> FALSE, filled |-> FALSE, markers |-> <<>>],
                      lines)
    IN  [ commands |-> IF v.command = <<>> THEN v.commands
                       ELSE Append(v.commands, v.command),
          markers |-> v.markers ]

NewStep(number, title) ==
    [ number |-> number, title |-> title, project |-> NoValue,
      effort |-> NoValue, depends |-> <<>>, description |-> <<>>,
      files |-> <<>>, verification |-> NoValue, checklist |-> <<>> ]

Bold == {"project", "effort", "depends", "checklist", "file", "bold"}

\* One line of parse_step. A step starts in its metadata and leaves it for
\* good at the first heading or the first line of running text. What a
\* region has no use for is dropped, and so is everything bold before the
\* description has begun.
StepLine(s, line) ==
    IF line.is \in {"files", "verification", "checklist"}
    THEN [s EXCEPT !.region = line.is]
    ELSE CASE s.region = "metadata" /\ line.is \in {"project", "effort", "depends"} ->
                [s EXCEPT !.step = [@ EXCEPT ![line.is] = line.of]]
           [] s.region = "verification" /\ (line.is = "fence" \/ s.verify # <<>>) ->
                [s EXCEPT !.verify = Append(@, line)]
           [] s.region = "checklist" /\ line.is = "item" ->
                [s EXCEPT !.step.checklist = Append(@, line.of)]
           [] s.region = "files" /\ line.is = "file" ->
                [s EXCEPT !.step.files = Append(@, line.of)]
           [] s.region = "metadata" /\ line.is \notin Bold \cup {"blank"} ->
                [s EXCEPT !.region = "description",
                          !.step.description = Append(@, line)]
           [] s.region = "description" /\ line.is # "heading4" ->
                [s EXCEPT !.step.description = Append(@, line)]
           [] OTHER -> s

\* The description is trimmed; the verification is there when a fence was.
ParseStep(heading, lines) ==
    LET s == FoldLeft(StepLine,
                      [region |-> "metadata", verify |-> <<>>,
                       step |-> NewStep(heading.number, heading.title)], lines)
    IN  [s.step EXCEPT !.description = Trimmed(@),
                       !.verification = IF s.verify = <<>> THEN NoValue
                                        ELSE Verification(s.verify)]

IsStep(line) == line.is = "step" /\ line.of.number # NoNumber

\* A step ends at the next heading or rule. Code blocks are not looked at:
\* "## note" or "---" in a verification script ends the step.
StepEnd(doc, i) ==
    LET ends == { j \in i + 1 .. Len(doc) : doc[j].is \in HeadingOrRule }
    IN  IF ends = {} THEN Len(doc) ELSE Min(ends) - 1

\* The step a line begins, if it does.
StepAt(doc, i) ==
    IF IsStep(doc[i])
    THEN <<ParseStep(doc[i].of, SubSeq(doc, i + 1, StepEnd(doc, i)))>> ELSE <<>>

ExtractSteps(doc) == FlattenSeq([ i \in 1 .. Len(doc) |-> StepAt(doc, i) ])

(***************************************************************************)
(* The document.                                                           *)
(***************************************************************************)

Titles(doc) == { i \in DOMAIN doc : doc[i].is = "title" }

\* parse_handoff's first error, or "none". What exists, the completion
\* protocol, the context and the metadata may be missing.
ParseError(doc) ==
    IF Titles(doc) = {} THEN "title"
    ELSE IF ~HasSection(doc, "Problem") THEN "Problem"
    ELSE IF ~HasSection(doc, "What needs doing") THEN "What needs doing"
    ELSE IF ExtractSteps(doc) = <<>> THEN "steps"
    ELSE "none"

ParseHandoff(doc) ==
    [ title |-> doc[Min(Titles(doc))].of,
      metadata |-> Metadata(doc),
      problem |-> Section(doc, "Problem"),
      state |-> State(doc),
      intent |-> Section(doc, "What needs doing"),
      steps |-> ExtractSteps(doc),
      completion |-> Section(doc, "Completion Protocol"),
      context |-> Section(doc, "Context") ]
=============================================================================
