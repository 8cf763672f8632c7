------------------------------ MODULE Context -------------------------------
(***************************************************************************)
(* Context compression, src/context.rs, and the description dispatch makes *)
(* of a handoff with it (dispatch/orchestrate.rs).                         *)
(*                                                                         *)
(* A conversation is a sequence of messages; a message is its id, its role *)
(* (the three that carry text alike are one), the number of its words, the *)
(* call a tool result answers and whether it speaks of the focus topic.    *)
(* Messages are added to it in any order, a tool's result before, after or *)
(* without its call, and at any time it may be replaced by its             *)
(* compression, which keeps what fits the budget, newest first, and then   *)
(* makes the tool calls and results that are left agree.                   *)
(***************************************************************************)
EXTENDS Integers, Sequences, FiniteSets, SequencesExt

CONSTANTS
    CallIds,      \* ids a tool call may have, and a result may name
    Lengths,      \* lengths of a message, in words
    Budgets,      \* token budgets; CompressionParams takes any usize
    Handoffs,     \* the handoffs dispatch describes, by the lengths of their parts
    MaxMessages   \* bound on the conversation

NoCall == 0

\* A part of a handoff, by its length and whether it speaks of the focus.
Part == [words : Nat, focus : BOOLEAN]

ASSUME ContextAssumption ==
    /\ Handoffs \subseteq [title : Part, problem : Part, intent : Part,
                          context : Seq(Part), steps : Seq(Part)]
    /\ CallIds \subseteq Nat \ {NoCall}
    /\ Lengths \subseteq Nat /\ Budgets \subseteq Nat
    /\ MaxMessages \in Nat

VARIABLES
    messages,   \* the conversation
    budget      \* token_budget

vars == <<messages, budget>>

Text(id, words, focus) ==
    [id |-> <<"text", id>>, role |-> "text", words |-> words, call |-> NoCall, focus |-> focus]
ToolCall(id, words, focus) ==
    [id |-> <<"call", id>>, role |-> "call", words |-> words, call |-> id, focus |-> focus]
ToolResult(id, call, words, focus) ==
    [id |-> <<"result", id>>, role |-> "result", words |-> words, call |-> call, focus |-> focus]

\* "[stub result inserted after compression]": not what the work is about.
Stub(call) ==
    [id |-> <<"stub", call>>, role |-> "result", words |-> 5, call |-> call, focus |-> FALSE]

\* token_cost: four tokens for the message, one for each of its words.
Cost(m) == m.words + 4

TotalCost(s) == FoldLeft(LAMBDA total, m : total + Cost(m), 0, s)

-----------------------------------------------------------------------------
(* prune_to_budget.                                                        *)

\* The messages on the focus topic, or all others, newest first.
Newest(s, focus) ==
    LET At(i) == IF s[i].focus = focus THEN <<i>> ELSE <<>>
    IN  FlattenSeq([k \in 1 .. Len(s) |-> At(Len(s) + 1 - k)])

Prioritized(s) == Newest(s, TRUE) \o Newest(s, FALSE)

\* Mutant: the message is cut to the budget, without its own four tokens.
TruncatedWide(m, tokens) == [m EXCEPT !.words = Min({@, tokens})]

Truncated(m, tokens) == [m EXCEPT !.words = Min({@, tokens - 4})]

\* Mutant: a message that cannot even be cut down is dropped without a word.
PruneStepSilent(s, tokens, p, i) ==
    IF p.total + Cost(s[i]) <= tokens
    THEN [p EXCEPT !.kept = @ \cup {i}, !.total = @ + Cost(s[i])]
    ELSE IF p.kept = {}
    THEN IF tokens > 4
         THEN [p EXCEPT !.kept = {i}, !.total = Cost(Truncated(s[i], tokens)), !.cut = i]
         ELSE p
    ELSE [p EXCEPT !.removed = Append(@, s[i])]

\* One message: kept when it fits; cut down when it does not and nothing has
\* been kept so far; removed and reported otherwise.
PruneStep(s, tokens, p, i) ==
    IF p.total + Cost(s[i]) <= tokens
    THEN [p EXCEPT !.kept = @ \cup {i}, !.total = @ + Cost(s[i])]
    ELSE IF p.kept = {} /\ tokens > 4
    THEN [p EXCEPT !.kept = {i}, !.total = Cost(Truncated(s[i], tokens)), !.cut = i]
    ELSE [p EXCEPT !.removed = Append(@, s[i])]

Selected(s, tokens) ==
    FoldLeft(LAMBDA p, i : PruneStep(s, tokens, p, i),
             [kept |-> {}, total |-> 0, cut |-> 0, removed |-> <<>>],
             Prioritized(s))

\* What is left of one message.
KeptAt(s, tokens, p, i) ==
    IF i \notin p.kept THEN <<>>
    ELSE IF i = p.cut THEN <<Truncated(s[i], tokens)>>
    ELSE <<s[i]>>

\* What is kept stays in the order of the conversation.
Prune(s, tokens) ==
    LET p == Selected(s, tokens)
    IN  [messages |-> FlattenSeq([i \in 1 .. Len(s) |-> KeptAt(s, tokens, p, i)]),
         removed |-> p.removed]

-----------------------------------------------------------------------------
(* sanitize_tool_pairs.                                                    *)

\* Mutant: a result is kept though its call is not.
RetainStepOrphans(r, m) ==
    LET new == CASE m.role = "call"   -> m.call \notin r.calls
                 [] m.role = "result" -> m.call # NoCall /\ m.call \notin r.results
                 [] OTHER             -> TRUE
    IN  IF ~ new THEN [r EXCEPT !.removed = Append(@, m)]
        ELSE [r EXCEPT !.out = Append(@, m),
                       !.calls = IF m.role = "call" THEN @ \cup {m.call} ELSE @,
                       !.results = IF m.role = "result" THEN @ \cup {m.call} ELSE @]

\* The first call of an id, and the first result after it that names it.
RetainStep(r, m) ==
    LET new == CASE m.role = "call"   -> m.call \notin r.calls
                 [] m.role = "result" -> m.call \in r.calls /\ m.call \notin r.results
                 [] OTHER             -> TRUE
    IN  IF ~ new THEN [r EXCEPT !.removed = Append(@, m)]
        ELSE [r EXCEPT !.out = Append(@, m),
                       !.calls = IF m.role = "call" THEN @ \cup {m.call} ELSE @,
                       !.results = IF m.role = "result" THEN @ \cup {m.call} ELSE @]

Retained(s) ==
    FoldLeft(RetainStep, [out |-> <<>>, calls |-> {}, results |-> {}, removed |-> <<>>], s)

\* A call without a result is followed by a stub.
StubsFor(r, m) ==
    IF m.role = "call" /\ m.call \notin r.results THEN <<Stub(m.call)>> ELSE <<>>

Sanitize(s) ==
    LET r == Retained(s)
    IN  [messages |-> FlattenSeq([k \in 1 .. Len(r.out) |-> <<r.out[k]>> \o StubsFor(r, r.out[k])]),
         removed |-> r.removed,
         stubbed |-> FlattenSeq([k \in 1 .. Len(r.out) |-> StubsFor(r, r.out[k])])]

Compressed(s, tokens) ==
    LET pruned == Prune(s, tokens)
        sane == Sanitize(pruned.messages)
    IN  [sane EXCEPT !.removed = pruned.removed \o @]

-----------------------------------------------------------------------------
(* The description of a handoff.                                           *)

\* build_dispatch_context_messages: title, problem, intent, the context when
\* there is one, and the steps.
DispatchMessages(handoff) ==
    LET parts == <<handoff.title, handoff.problem, handoff.intent>>
                 \o handoff.context \o handoff.steps
    IN  [k \in 1 .. Len(parts) |-> Text(k, parts[k].words, parts[k].focus)]

\* render_context: "- role:" before each message, a line of two words above.
RenderedWords(s, compressed) ==
    FoldLeft(LAMBDA total, m : total + m.words + 2, IF compressed THEN 2 ELSE 0, s)

\* prepare_parent_description, by its words; cut says that words were left
\* out of the rendered text itself.
Description(s, tokens) ==
    LET whole == RenderedWords(s, FALSE)
        words == RenderedWords(Compressed(s, tokens).messages, TRUE)
    IN  IF whole <= tokens THEN [words |-> whole, cut |-> FALSE]
        ELSE [words |-> Min({words, tokens}), cut |-> words > tokens]

-----------------------------------------------------------------------------
Init ==
    /\ messages \in {<<>>} \cup {DispatchMessages(h) : h \in Handoffs}
    /\ budget \in Budgets

\* Every message is looked through for the topic, those of tools too; it is
\* taken to be named at the start, where cutting a message short leaves it.
Message ==
    {m \in {Text(Len(messages) + 1, n, focus) : n \in Lengths, focus \in BOOLEAN}
              \cup {ToolCall(c, n, focus) : c \in CallIds, n \in Lengths, focus \in BOOLEAN}
              \cup {ToolResult(Len(messages) + 1, c, n, focus) :
                        c \in CallIds \cup {NoCall}, n \in Lengths, focus \in BOOLEAN} :
        m.focus => m.words > 0}

Say ==
    /\ Len(messages) < MaxMessages
    /\ \E m \in Message : messages' = Append(messages, m)
    /\ UNCHANGED budget

\* A budget of zero is refused.
Compress ==
    /\ messages' = IF budget = 0 THEN messages ELSE Compressed(messages, budget).messages
    /\ UNCHANGED budget

Next == Say \/ Compress

Spec == Init /\ [][Next]_vars

-----------------------------------------------------------------------------
Result == Compressed(messages, budget)

(* Whatever the budget took, what is left is a conversation a model's API  *)
(* accepts: no call id twice, every call answered exactly once, after it,  *)
(* and no answer without a call -- also when a conversation is compressed, *)
(* goes on, and is compressed again.                                       *)
PairsComplete ==
    budget > 0 =>
        LET s == Result.messages
            calls == {i \in DOMAIN s : s[i].role = "call"}
            Answers(i) == {j \in DOMAIN s : s[j].role = "result" /\ s[j].call = s[i].call}
        IN  /\ \A i, j \in calls : s[i].call = s[j].call => i = j
            /\ \A i \in calls : \E j \in Answers(i) : i < j /\ Answers(i) = {j}
            /\ \A j \in DOMAIN s : s[j].role = "result" =>
                   \E i \in calls : s[i].call = s[j].call

Count(s, id) == Cardinality({k \in DOMAIN s : s[k].id = id})

(* Nothing is lost or made up without the report saying so: of every id,   *)
(* what went in and was stubbed is what came out and was removed, over     *)
(* both passes of the compression.                                         *)
NothingLost ==
    budget > 0 =>
        LET result == Result IN
        \A id \in {m.id : m \in Range(messages) \cup Range(result.messages)} :
            Count(messages, id) + Count(result.stubbed, id)
                = Count(result.messages, id) + Count(result.removed, id)

IsText(s) == \A m \in Range(s) : m.role = "text"

(* The result fits the budget but for its stubs.  Of a conversation        *)
(* without tools no message that was removed would have fitted beside what *)
(* is left, and the description made of it is never cut in the middle: the *)
(* four tokens a message is charged cover what rendering adds to it.       *)
FitsTheBudget ==
    budget > 0 =>
        LET result == Result IN
        /\ TotalCost(result.messages) <= budget + TotalCost(result.stubbed)
        /\ IsText(messages) =>
            /\ \A m \in Range(result.removed) : TotalCost(result.messages) + Cost(m) > budget
            /\ budget > 4 => ~ Description(messages, budget).cut
=============================================================================
