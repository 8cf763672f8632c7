----------------------------- MODULE Decompose -----------------------------
(***************************************************************************)
(* decompose/mod.rs and decompose/algorithm.rs of hymenium: splitting the  *)
(* steps of a parsed handoff into pieces, and rendering a piece.           *)
(*                                                                         *)
(* Steps are the records of module Handoff; a chunk or a piece is a        *)
(* sequence of positions in the handoff's steps. Step numbers are what the *)
(* author wrote and need not be unique. Efforts are in minutes.            *)
(***************************************************************************)
EXTENDS Handoff, FiniteSets

CONSTANTS MaxEffort,          \* max_effort_per_piece_secs
          MaxSteps,           \* max_steps_per_piece
          RespectDependencies,
          RespectProjects,
          Projects,           \* the project names in their order, "default" one of them
          Word                \* efforts are u64: the sums wrap at Word

(***************************************************************************)
(* Efforts and tiers (decompose/effort.rs). An effort is [unit, parts]:    *)
(* "2-3 hours" is [unit |-> "hour", parts |-> <<2, 3>>], and a part that   *)
(* is no number is below zero, like the part a leading minus sign makes.   *)
(***************************************************************************)
Minutes == [day |-> 480, hour |-> 60, minute |-> 1]

Readable(effort) ==
    /\ effort.unit \in DOMAIN Minutes
    /\ \A i \in DOMAIN effort.parts : effort.parts[i] >= 0
    /\ \E i \in DOMAIN effort.parts : effort.parts[i] > 0

\* The largest part of a range counts, and the product saturates.
EffortOf(effort) ==
    Min({Max(Range(effort.parts)) * Minutes[effort.unit], Word - 1})

TierFromEffort(minutes) ==
    IF minutes > 360 THEN "opus" ELSE IF minutes >= 120 THEN "sonnet" ELSE "haiku"

TierFromStepCount(count) ==
    IF count <= 1 THEN "haiku" ELSE IF count <= 3 THEN "sonnet" ELSE "opus"

Estimated(steps, i) == steps[i].effort # NoValue
Counts(steps, i) == Estimated(steps, i) /\ Readable(steps[i].effort)

\* chunk_effort_secs: unreadable efforts are warned about and count nothing.
ChunkEffort(steps, chunk) ==
    FoldLeft(LAMBDA total, i :
                 IF Counts(steps, i)
                 THEN (total + EffortOf(steps[i].effort)) % Word ELSE total,
             0, chunk)

\* total_effort_secs: no estimate at all unless one could be read.
TotalEffort(steps, piece) ==
    IF \E k \in DOMAIN piece : Counts(steps, piece[k])
    THEN ChunkEffort(steps, piece) ELSE NoValue

(***************************************************************************)
(* Grouping.                                                               *)
(***************************************************************************)
ProjectOf(step) == IF step.project = NoValue THEN "default" ELSE step.project

All(steps) == [ i \in 1 .. Len(steps) |-> i ]

GroupOf(steps, project) ==
    LET At(i) == IF ProjectOf(steps[i]) = project THEN <<i>> ELSE <<>>
    IN  FlattenSeq([ i \in 1 .. Len(steps) |-> At(i) ])

\* group_by_project: a BTreeMap, so in the order of the names. A project that
\* has no step gets no piece.
ProjectGroups(steps) ==
    IF ~RespectProjects THEN << All(steps) >>
    ELSE [ p \in 1 .. Len(Projects) |-> GroupOf(steps, Projects[p]) ]

Numbers(steps, group) == { steps[group[k]].number : k \in DOMAIN group }

\* build_step_deps is keyed by number: of two steps of one number, only the
\* dependencies of the later one are known. What parse_dep_step_number cannot
\* read is left out of "depends" here.
Dependencies(steps, group, n) ==
    LET of == { k \in DOMAIN group : steps[group[k]].number = n }
    IN  Range(steps[group[Max(of)]].depends)

\* The union-find of merge_dependency_groups, without its path compression:
\* Root follows parents, and Union points the root of a at the root of b.
Root(parent, n) ==
    LET root[x \in DOMAIN parent] == IF parent[x] = x THEN x ELSE root[parent[x]]
    IN  root[n]

Union(parent, edge) ==
    LET a == Root(parent, edge[1])
        b == Root(parent, edge[2])
    IN  IF a = b THEN parent ELSE [parent EXCEPT ![a] = b]

\* A mutant: the dependency is hung under the step and not under its root.
MergedFlat(steps, group) ==
    LET numbers == Numbers(steps, group)
        edges == { e \in numbers \X numbers : e[2] \in Dependencies(steps, group, e[1]) }
    IN  FoldLeft(LAMBDA parent, e :
                     IF parent[e[1]] = e[1] THEN [parent EXCEPT ![e[2]] = e[1]]
                     ELSE parent,
                 [ n \in numbers |-> n ], SetToSeq(edges))

\* The union-find run over the dependencies inside one project group, in
\* whatever order the hash maps give them.
Merged(steps, group) ==
    LET numbers == Numbers(steps, group)
        edges == { e \in numbers \X numbers : e[2] \in Dependencies(steps, group, e[1]) }
    IN  FoldLeft(LAMBDA parent, e : Union(parent, e), [ n \in numbers |-> n ], SetToSeq(edges))

\* The order of the chunks and of the steps in them: both sorts are by number,
\* and stable.
Before(steps, i, j) ==
    \/ steps[i].number < steps[j].number
    \/ steps[i].number = steps[j].number /\ i < j

\* The k-th of them has k - 1 before it.
InOrder(steps, S) ==
    [ k \in 1 .. Cardinality(S) |->
        CHOOSE i \in S : Cardinality({ j \in S : Before(steps, j, i) }) = k - 1 ]

\* The steps of a group whose root is that of step i.
Together(steps, group, parent, i) ==
    { j \in Range(group) :
        Root(parent, steps[j].number) = Root(parent, steps[i].number) }

\* The steps that come before all they are together with.
Leaders(steps, group, parent) ==
    { i \in Range(group) : \A j \in Together(steps, group, parent, i) : ~Before(steps, j, i) }

\* The chunks in the order of their smallest number.
Chunks(steps, group) ==
    IF ~RespectDependencies THEN [ k \in 1 .. Len(group) |-> <<group[k]>> ]
    ELSE LET parent == Merged(steps, group)
             leaders == InOrder(steps, Leaders(steps, group, parent))
         IN  [ k \in 1 .. Len(leaders) |->
                 InOrder(steps, Together(steps, group, parent, leaders[k])) ]

(***************************************************************************)
(* Packing.                                                                *)
(***************************************************************************)

\* One estimate anywhere in the project group makes the packing go by effort.
ByEffort(steps, chunks) ==
    \E c \in DOMAIN chunks : \E k \in DOMAIN chunks[c] : Estimated(steps, chunks[c][k])

Weight(steps, chunks, chunk) ==
    IF ByEffort(steps, chunks) THEN ChunkEffort(steps, chunk) ELSE Len(chunk)

Limit(steps, chunks) == IF ByEffort(steps, chunks) THEN MaxEffort ELSE MaxSteps

\* A mutant: the chunk that opens a piece is not counted.
PackLineStaleLoad(s, chunk, weight, limit) ==
    IF s.current # <<>> /\ (s.load + weight) % Word > limit
    THEN [pieces |-> Append(s.pieces, s.current), current |-> chunk, load |-> 0]
    ELSE [s EXCEPT !.current = @ \o chunk, !.load = (@ + weight) % Word]

\* One turn of pack_chunks: the current piece is closed when the chunk would
\* take it over the limit; an empty piece takes any chunk.
PackLine(s, chunk, weight, limit) ==
    IF s.current # <<>> /\ (s.load + weight) % Word > limit
    THEN [pieces |-> Append(s.pieces, s.current), current |-> chunk, load |-> weight]
    ELSE [s EXCEPT !.current = @ \o chunk, !.load = (@ + weight) % Word]

\* A mutant: the piece that is open when the chunks run out is forgotten.
PackClosedOnly(steps, chunks) ==
    FoldLeft(LAMBDA t, chunk :
                 PackLine(t, chunk, Weight(steps, chunks, chunk), Limit(steps, chunks)),
             [pieces |-> <<>>, current |-> <<>>, load |-> 0], chunks).pieces

\* pack_chunks: the last piece is whatever is still open.
Pack(steps, chunks) ==
    LET s == FoldLeft(LAMBDA t, chunk :
                          PackLine(t, chunk, Weight(steps, chunks, chunk),
                                   Limit(steps, chunks)),
                      [pieces |-> <<>>, current |-> <<>>, load |-> 0], chunks)
    IN  IF s.current = <<>> THEN s.pieces ELSE Append(s.pieces, s.current)

(***************************************************************************)
(* The result.                                                             *)
(***************************************************************************)
Split(steps) ==
    LET groups == ProjectGroups(steps)
    IN  FlattenSeq([ g \in 1 .. Len(groups) |-> Pack(steps, Chunks(steps, groups[g])) ])

\* step_to_piece is filled piece after piece: of two steps of one number the
\* last piece's counts.
PieceOf(steps, pieces, n) ==
    Max({ p \in DOMAIN pieces : \E k \in DOMAIN pieces[p] : steps[pieces[p][k]].number = n })

\* The pieces a piece depends on, its own left out; a number no step has is
\* only warned about.
DependsOn(steps, pieces, p) ==
    { PieceOf(steps, pieces, n) : n \in
        { m \in UNION { Range(steps[pieces[p][k]].depends) : k \in DOMAIN pieces[p] } :
            \E q \in DOMAIN pieces : m \in Numbers(steps, pieces[q]) } } \ {p}

Decomposed(steps) ==
    LET pieces == Split(steps)
    IN  [ p \in DOMAIN pieces |->
            LET effort == TotalEffort(steps, pieces[p])
            IN  [ steps |-> pieces[p],
                  effort |-> effort,
                  tier |-> IF effort = NoValue THEN TierFromStepCount(Len(pieces[p]))
                           ELSE TierFromEffort(effort),
                  depends |-> DependsOn(steps, pieces, p) ] ]

(***************************************************************************)
(* Rendering (decompose/render.rs), without a parent's metadata: the       *)
(* command passes none. Project, effort and dependencies of a step are not *)
(* written, nor is "What needs doing".                                     *)
(***************************************************************************)
When(condition, lines) == IF condition THEN lines ELSE <<>>

\* A mutant: the checklist under a heading of the form the files have in a
\* handoff, which the parser does not know for a checklist.
RenderStepHeaded(step) ==
    << Line("step", [number |-> step.number, title |-> step.title]), Line("blank", NoValue) >>
    \o When(step.description # <<>>, Append(step.description, Line("blank", NoValue)))
    \o When(step.checklist # <<>>,
            << Line("heading4", "Checklist") >>
            \o [ k \in DOMAIN step.checklist |-> Line("item", step.checklist[k]) ])

RenderStep(step) ==
    << Line("step", [number |-> step.number, title |-> step.title]), Line("blank", NoValue) >>
    \o When(step.description # <<>>, Append(step.description, Line("blank", NoValue)))
    \o When(step.files # <<>>,
            << Line("bold", "Files to modify"), Line("blank", NoValue) >>
            \o [ k \in DOMAIN step.files |-> Line("text", step.files[k]) ])
    \o When(step.verification # NoValue,
            LET commands == IF step.verification = NoValue THEN <<>>
                            ELSE FlattenSeq(step.verification.commands)
            IN  << Line("bold", "Verification"), Line("blank", NoValue), Line("fence", NoValue) >>
                \o commands \o << Line("fence", NoValue), Line("blank", NoValue) >>)
    \o When(step.checklist # <<>>,
            << Line("checklist", NoValue), Line("blank", NoValue) >>
            \o [ k \in DOMAIN step.checklist |-> Line("item", step.checklist[k]) ])

Render(handoff, piece) ==
    << Line("title", handoff.title), Line("section", "Problem"),
       Line("text", "child piece"), Line("section", "Steps") >>
    \o FlattenSeq([ k \in DOMAIN piece.steps |-> RenderStep(handoff.steps[piece.steps[k]]) ])
    \o << Line("section", "Completion Protocol"), Line("text", "run all"),
          Line("section", "Context"), Line("text", "decomposed from") >>
    \o When(piece.depends # {}, << Line("text", "depends on pieces") >>)
=============================================================================
