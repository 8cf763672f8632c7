----------------------------- MODULE MCContext ------------------------------
(***************************************************************************)
(* Conversations of up to four messages beside the handoffs below, under   *)
(* every budget from none to one that two long messages fit; two call ids, *)
(* so that one can be answered while the other is not.                     *)
(***************************************************************************)
EXTENDS Context

Of(words, focus) == [words |-> words, focus |-> focus]

MCHandoffs ==
    {[title |-> Of(1, FALSE), problem |-> Of(3, f), intent |-> Of(1, FALSE),
      context |-> c, steps |-> s] :
        f \in BOOLEAN,
        c \in {<<>>, <<Of(0, FALSE)>>},
        s \in {<<Of(1, FALSE)>>, <<Of(3, FALSE), Of(1, TRUE)>>}}
=============================================================================
