-------------------------- MODULE DecomposeCommand --------------------------
(***************************************************************************)
(* `hymenium decompose <path>` (commands/decompose.rs): any number of runs *)
(* over one directory, in which an author edits the handoff. A run reads   *)
(* the source once, parses and splits it, and writes the pieces one by one *)
(* next to it. std::fs::write empties a file as it opens it and fills it   *)
(* with one write at the start, over what another run has put there since; *)
(* it may fail at either, and nothing written is taken back.               *)
(***************************************************************************)
EXTENDS Decompose

CONSTANTS Runs,        \* the invocations of the command
          Drafts,      \* the handoffs an author may write, a sequence of documents
          Edits,       \* those the source may be changed to during the runs
          Slug,        \* slugify: title -> slug
          MostPieces   \* no handoff has more steps than this

DraftIds == DOMAIN Drafts

\* The numbers read are numbers, the projects named are those of Projects, the
\* titles have slugs, white space stands before a line with something in it,
\* and the file names reach as far as the steps.
IsDraft(doc) ==
    /\ Len(doc) \in Nat /\ doc = [ i \in 1 .. Len(doc) |-> doc[i] ]
    /\ \A i \in DOMAIN doc :
         /\ IsStep(doc[i]) => doc[i].of.number \in Nat
         /\ doc[i].is = "project" => doc[i].of \in Range(Projects)
         /\ doc[i].is = "effort" => doc[i].of.parts \in Seq(Int)
         /\ doc[i].is = "title" => doc[i].of \in DOMAIN Slug
         /\ doc[i].is = "indented" => doc[i].of.is \notin Blanks \cup {"indented"}
    /\ Len(ExtractSteps(doc)) <= MostPieces

ASSUME DecomposeAssumption ==
    /\ DraftIds = 1 .. Len(Drafts)
    /\ Len(Drafts) \in Nat
    /\ \A h \in DraftIds : IsDraft(Drafts[h])
    /\ Edits \subseteq DraftIds /\ Edits # {}
    /\ Projects \in Seq(Range(Projects)) /\ "default" \in Range(Projects)
    /\ IsInjective(Projects)
    /\ {MaxEffort, MaxSteps, MostPieces} \subseteq Nat
    /\ Word \in Nat \ {0}
    /\ {RespectDependencies, RespectProjects} \subseteq BOOLEAN

\* What the parser, the splitter and the renderer make of a handoff, and the
\* parser of what was rendered.
Outcome(doc) ==
    IF ParseError(doc) # "none" THEN [error |-> ParseError(doc)]
    ELSE LET handoff == ParseHandoff(doc)
             pieces == Decomposed(handoff.steps)
             rendered == [ p \in DOMAIN pieces |-> Render(handoff, pieces[p]) ] \o <<>>
         IN  [ error |-> "none", title |-> handoff.title, steps |-> handoff.steps,
               pieces |-> pieces,
               reread |-> [ p \in DOMAIN pieces |->
                              [ error |-> ParseError(rendered[p]),
                                steps |-> ExtractSteps(rendered[p]) ] ] \o <<>> ]

\* Joining the sequence to an empty one makes TLC compute it once.
Outcomes == [ h \in DraftIds |-> Outcome(Drafts[h]) ] \o <<>>

\* The source cannot be read.
NoOutcome == [error |-> "read"]

VARIABLES disk,   \* what the directory holds: the source and the pieces
          run     \* the invocations

commandVars == <<disk, run>>

Source == <<"source", 0>>
Files == {Source} \cup (Range(Slug) \X (1 .. MostPieces))

Missing == [is |-> "missing", of |-> NoValue, piece |-> 0]
Emptied == [is |-> "emptied", of |-> NoValue, piece |-> 0]
Torn == [is |-> "torn", of |-> NoValue, piece |-> 0]    \* part of a text, or of several
Whole(h) == [is |-> "handoff", of |-> h, piece |-> 0]
Piece(h, i) == [is |-> "piece", of |-> h, piece |-> i]

\* A run: where it stands, the handoff it read and what it has made of it,
\* its next piece, --dry-run.
Fresh == [pc |-> "idle", of |-> NoValue, made |-> NoOutcome, next |-> 1, dry |-> FALSE]

CommandInit ==
    /\ disk \in { [f \in Files |-> IF f = Source THEN Whole(h) ELSE Missing] : h \in DraftIds }
    /\ run = [r \in Runs |-> Fresh]

\* The file a run is at, or would write as its i-th.
FileOf(r, i) == <<Slug[run[r].made.title], i>>
Current(r) == FileOf(r, run[r].next)
Left(r) == run[r].next <= Len(run[r].made.pieces)

\* Reading, parsing and splitting touch nothing: the errors of all three end
\* the command. A parsed handoff has steps, so NoSteps cannot happen.
Begin(r, dry) ==
    LET h == disk[Source].of IN
    /\ run[r].pc = "idle"
    /\ \E made \in {IF h = NoValue THEN NoOutcome ELSE Outcomes[h]} :
         run' = [run EXCEPT ![r] =
                   IF made.error = "none"
                   THEN [@ EXCEPT !.pc = "write", !.of = h, !.made = made, !.dry = dry]
                   ELSE [@ EXCEPT !.pc = "failed", !.dry = dry]]
    /\ UNCHANGED disk

Show(r) ==
    /\ run[r].pc = "write" /\ run[r].dry /\ Left(r)
    /\ run' = [run EXCEPT ![r].next = @ + 1]
    /\ UNCHANGED disk

Empty(r) ==
    /\ run[r].pc = "write" /\ ~run[r].dry /\ Left(r)
    /\ disk' = [disk EXCEPT ![Current(r)] = Emptied]
    /\ run' = [run EXCEPT ![r].pc = "fill"]

\* What a text leaves of what is there when it is written from the start: the
\* end of a longer one stays behind it.
Over(was, text) == IF was \in {Missing, Emptied, text} THEN {text} ELSE {text, Torn}

Fill(r) ==
    LET f == Current(r) IN
    /\ run[r].pc = "fill"
    /\ \E c \in Over(disk[f], Piece(run[r].of, run[r].next)) : disk' = [disk EXCEPT ![f] = c]
    /\ run' = [run EXCEPT ![r].pc = "write", ![r].next = @ + 1]

\* A mutant: the failure is reported for the piece and the loop goes on.
WriteFailsOn(r) ==
    /\ \/ run[r].pc = "write" /\ ~run[r].dry /\ Left(r)
       \/ run[r].pc = "fill"
    /\ run' = [run EXCEPT ![r].pc = "write", ![r].next = @ + 1]
    /\ UNCHANGED disk

\* A part of the text is written over what is there, or nothing.
PartOver(was, text) == IF was = text THEN {text} ELSE {was, Torn}

\* The file cannot be opened, or not filled, or the process dies: the pieces
\* before it stay.
WriteFails(r) ==
    LET f == Current(r) IN
    /\ \/ run[r].pc = "write" /\ ~run[r].dry /\ Left(r) /\ UNCHANGED disk
       \/ /\ run[r].pc = "fill"
          /\ \E c \in PartOver(disk[f], Piece(run[r].of, run[r].next)) :
                disk' = [disk EXCEPT ![f] = c]
    /\ run' = [run EXCEPT ![r].pc = "failed"]

Finish(r) ==
    /\ run[r].pc = "write" /\ ~Left(r)
    /\ run' = [run EXCEPT ![r].pc = "ok"]
    /\ UNCHANGED disk

Author ==
    /\ disk' \in { [disk EXCEPT ![Source] = c] : c \in {Missing} \cup { Whole(h) : h \in Edits } }
    /\ UNCHANGED run

CommandNext ==
    \/ \E r \in Runs :
         \/ \E dry \in BOOLEAN : Begin(r, dry)
         \/ Show(r) \/ Empty(r) \/ Fill(r) \/ WriteFails(r) \/ Finish(r)
    \/ Author

CommandSpec == CommandInit /\ [][CommandNext]_commandVars

-----------------------------------------------------------------------------
\* The runs that got as far as splitting, and what they split.
HasSplit(r) == run[r].made.error = "none"
Steps(r) == run[r].made.steps
Pieces(r) == run[r].made.pieces

NumbersUnique(steps) ==
    \A i, j \in DOMAIN steps : steps[i].number = steps[j].number => i = j

Bound(steps, i, j) ==
    \/ steps[j].number \in Range(steps[i].depends)
    \/ steps[i].number \in Range(steps[j].depends)

SameProject(steps, i, j) == RespectProjects => ProjectOf(steps[i]) = ProjectOf(steps[j])

\* i and j hang together: every set of steps that holds i and all that a
\* dependency inside a project ties to one of its members holds j.
Connected(steps, i, j) ==
    \A S \in SUBSET DOMAIN steps :
        (/\ i \in S
         /\ \A a \in S, b \in DOMAIN steps :
               SameProject(steps, a, b) /\ Bound(steps, a, b) => b \in S) => j \in S

\* Every step of the handoff goes to exactly one piece, once, and no piece
\* mixes projects: the groups, chunks and pieces of decompose, over any
\* numbering the author chose (decompose/mod.rs 134-193, algorithm.rs 10-149).
EveryStepInOnePiece ==
    \A r \in Runs : HasSplit(r) =>
        LET all == FlattenSeq([ p \in DOMAIN Pieces(r) |-> Pieces(r)[p].steps ])
        IN  /\ Len(all) = Len(Steps(r))
            /\ Range(all) = DOMAIN Steps(r)
            /\ \A p \in DOMAIN Pieces(r) :
                 \A i, j \in Range(Pieces(r)[p].steps) : SameProject(Steps(r), i, j)

\* Steps of one project that depend on one another, through however many
\* others and in either direction, are in one piece (algorithm.rs 47-48),
\* whatever the order the union-find meets the dependencies in.
DependentStepsTogether ==
    \A r \in Runs : HasSplit(r) /\ RespectDependencies /\ NumbersUnique(Steps(r)) =>
        \A p \in DOMAIN Pieces(r) : \A i \in Range(Pieces(r)[p].steps) :
            \A j \in DOMAIN Steps(r) :
                Connected(Steps(r), i, j) => j \in Range(Pieces(r)[p].steps)

\* The measure the limits are documented in: minutes when a step of the
\* project has an estimate, else steps. It is summed up plainly.
Worth(steps, i) ==
    IF \E j \in DOMAIN steps : SameProject(steps, i, j) /\ Estimated(steps, j)
    THEN IF Counts(steps, i) THEN EffortOf(steps[i].effort) ELSE 0
    ELSE 1

Load(steps, S) ==
    FoldLeftDomain(LAMBDA sum, i : IF i \in S THEN sum + Worth(steps, i) ELSE sum, 0, steps)

\* What is asked of a draft for its packing to be by plain sums.
NothingWraps ==
    \A h \in DraftIds :
        LET steps == ExtractSteps(Drafts[h]) IN Load(steps, DOMAIN steps) < Word

MostOf(steps, S) ==
    IF \E i \in S, j \in DOMAIN steps : SameProject(steps, i, j) /\ Estimated(steps, j)
    THEN MaxEffort ELSE MaxSteps

\* A piece stays within its limit unless it is one indivisible chunk, and is
\* never closed while the chunk after it would still have fitted (config
\* limits of decompose/mod.rs 50-60, pack_chunks).
PiecesFilledToTheLimit ==
    \A r \in Runs : HasSplit(r) /\ RespectDependencies /\ NumbersUnique(Steps(r)) =>
        \A p \in DOMAIN Pieces(r) :
            LET S == Range(Pieces(r)[p].steps)
                after == IF p + 1 \in DOMAIN Pieces(r) THEN Pieces(r)[p + 1].steps ELSE <<>>
                chunk == { i \in Range(after) : Connected(Steps(r), after[1], i) }
            IN  /\ \/ Load(Steps(r), S) <= MostOf(Steps(r), S)
                   \/ \A i, j \in S : Connected(Steps(r), i, j)
                /\ after # <<>> /\ SameProject(Steps(r), after[1], Pieces(r)[p].steps[1])
                     => Load(Steps(r), S \cup chunk) > MostOf(Steps(r), S)

\* A run that answered "ok" left each of its pieces whole under its name,
\* unless another run has reached that name. A file is empty only where some
\* run is about to fill it, has failed or died; it is torn only where one has
\* failed or died, or where runs of different handoffs have met: runs of one
\* handoff never spoil each other's pieces (commands/decompose.rs 58-84).
Reached(r, f) ==
    /\ HasSplit(r) /\ ~run[r].dry
    /\ \E i \in 1 .. run[r].next :
         /\ i <= Len(Pieces(r)) /\ FileOf(r, i) = f
         /\ i < run[r].next \/ run[r].pc # "ok"

Stands(r, f) == Reached(r, f) /\ Current(r) = f

OkMeansWritten ==
    /\ \A r \in Runs : run[r].pc = "ok" /\ ~run[r].dry =>
         \A i \in DOMAIN Pieces(r) :
             \/ disk[FileOf(r, i)] = Piece(run[r].of, i)
             \/ \E q \in Runs \ {r} : Reached(q, FileOf(r, i))
    /\ \A f \in Files :
         /\ disk[f] = Emptied =>
              \E r \in Runs : run[r].pc \in {"fill", "failed"} /\ Stands(r, f)
         /\ disk[f] = Torn =>
              \/ \E r \in Runs : run[r].pc = "failed" /\ Stands(r, f)
              \/ \E q, r \in Runs :
                   Reached(q, f) /\ Reached(r, f) /\ run[q].of # run[r].of

\* The steps a written piece was made of are those the parser finds in it:
\* the same numbers, titles and checklists in the same order, with the
\* description at least as long.
SurvivesIn(r, p) ==
    LET wrote == Pieces(r)[p].steps
        reread == run[r].made.reread[p].steps
    IN  /\ Len(reread) = Len(wrote)
        /\ \A k \in DOMAIN wrote :
             LET was == Steps(r)[wrote[k]]
                 now == reread[k]
             IN  /\ <<now.number, now.title, now.checklist>>
                        = <<was.number, was.title, was.checklist>>
                 /\ IsPrefix(was.description, now.description)

\* What a description starts with once it is trimmed: running text, and not
\* a line that only white space had kept from being a field, a heading or a
\* rule.
BeginsPlainly(step) ==
    step.description # <<>> =>
        step.description[1].is \notin
            Bold \cup {"files", "verification"} \cup HeadingOrRule

\* The steps of a written piece are still its steps when the parser reads
\* it, as long as the descriptions in it begin as text (render.rs against
\* markdown.rs: the two agree on headings and items only; what a description
\* goes on with, the commands and the files must not be taken for either).
StepsSurvive ==
    \A r \in Runs : HasSplit(r) =>
        \A p \in DOMAIN Pieces(r) :
            (\A k \in DOMAIN Pieces(r)[p].steps :
                BeginsPlainly(Steps(r)[Pieces(r)[p].steps[k]])) => SurvivesIn(r, p)

-----------------------------------------------------------------------------
\* Where runs and files are with each other at any time.

\* What a file holds, and what a run is.
Contents ==
    {Missing, Emptied, Torn} \cup { Whole(h) : h \in DraftIds }
        \cup { Piece(h, i) : h \in DraftIds, i \in 1 .. MostPieces }

Run == [ pc : {"idle", "write", "fill", "ok", "failed"}, of : {NoValue} \cup DraftIds,
         made : {NoOutcome} \cup { Outcomes[h] : h \in DraftIds }, next : Nat, dry : BOOLEAN ]

\* The directory holds texts, and runs what the program makes of some handoff.
CommandTypeOK ==
    /\ disk \in [Files -> Contents] /\ run \in [Runs -> Run]
    /\ disk[Source] \in {Missing} \cup { Whole(h) : h \in DraftIds }

\* How far a run can be: it writes only what came out of the handoff it read.
Consistent(x) ==
    /\ x.pc = "idle" => x.made = NoOutcome /\ x.next = 1
    /\ x.pc \in {"write", "fill", "ok"} => x.made.error = "none"
    /\ x.made.error = "none" =>
         /\ x.of \in DraftIds /\ x.made = Outcomes[x.of]
         /\ x.next \in 1 .. Len(x.made.pieces) + 1
    /\ x.pc = "fill" => ~x.dry /\ x.next <= Len(x.made.pieces)
    /\ x.pc = "ok" => x.next = Len(x.made.pieces) + 1

\* FileOf and Reached, of a run's record.
Name(x, i) == <<Slug[x.made.title], i>>

ReachedBy(x, f) ==
    /\ x.made.error = "none" /\ ~x.dry
    /\ \E i \in 1 .. x.next :
         /\ i <= Len(x.made.pieces) /\ Name(x, i) = f
         /\ i < x.next \/ x.pc # "ok"

\* What a run has written it still finds, or another run has come by.
Written ==
    \A r \in Runs : \A i \in 1 .. Len(run[r].made.pieces) :
        run[r].made.error = "none" /\ ~run[r].dry /\ i < run[r].next =>
            \/ disk[Name(run[r], i)] = Piece(run[r].of, i)
            \/ \E q \in Runs \ {r} : ReachedBy(run[q], Name(run[r], i))

\* Stands, of a run's record.
StandsAt(x, f) == ReachedBy(x, f) /\ Name(x, x.next) = f

\* What may be in a piece's file: nothing whole but what a run would write there.
CameFrom(c, f) ==
    \/ c \in {Missing, Emptied, Torn}
    \/ \E q \in Runs : ReachedBy(run[q], f) /\ c = Piece(run[q].of, f[2])

AllCame == \A f \in Files \ {Source} : CameFrom(disk[f], f)

\* Why a file may be empty, and why it may be torn.
EmptyFor(f) == \E r \in Runs : run[r].pc \in {"fill", "failed"} /\ StandsAt(run[r], f)

TornFor(f) ==
    \/ \E r \in Runs : run[r].pc = "failed" /\ StandsAt(run[r], f)
    \/ \E q, r \in Runs :
          ReachedBy(run[q], f) /\ ReachedBy(run[r], f) /\ run[q].of # run[r].of

Flawed ==
    \A f \in Files : (disk[f] = Emptied => EmptyFor(f)) /\ (disk[f] = Torn => TornFor(f))

\* The invariant that OkMeansWritten needs to be inductive.
CommandInv ==
    /\ CommandTypeOK /\ (\A r \in Runs : Consistent(run[r]))
    /\ Written /\ AllCame /\ Flawed

-----------------------------------------------------------------------------
\* The same of any description, which "standalone handoff" in render.rs 1
\* and 7 asks for. Violated: "  **Note:**" begins a description, trim takes
\* the indentation (markdown.rs 495), and the field at the margin is dropped.
EveryStepSurvives ==
    \A r \in Runs : HasSplit(r) => \A p \in DOMAIN Pieces(r) : SurvivesIn(r, p)

\* What render.rs says of a piece, line 7: it is a standalone handoff
\* document, so the parser that reads handoffs accepts it. Violated: the
\* piece has no "What needs doing".
PiecesAreHandoffs ==
    \A r \in Runs : HasSplit(r) =>
        \A p \in DOMAIN Pieces(r) : run[r].made.reread[p].error = "none"

\* What decompose/mod.rs 3-6 says of the pieces: their dependency graph
\* gives an order to work in when the steps' dependencies do. Violated: two
\* projects whose steps depend on one another in turn.
StepsOrdered(steps) ==
    \E rank \in [DOMAIN steps -> 1 .. Len(steps)] :
        \A i, j \in DOMAIN steps :
            steps[j].number \in Range(steps[i].depends) => rank[j] < rank[i]
PiecesOrdered ==
    \A r \in Runs : HasSplit(r) /\ StepsOrdered(Steps(r)) =>
        \E rank \in [DOMAIN Pieces(r) -> 1 .. Len(Pieces(r))] :
            \A p \in DOMAIN Pieces(r) : \A q \in Pieces(r)[p].depends : rank[q] < rank[p]
=============================================================================
