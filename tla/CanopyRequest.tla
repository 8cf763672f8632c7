--------------------------- MODULE CanopyRequest ---------------------------
(***************************************************************************)
(* What dispatch relies on when it calls Canopy: the request is carried    *)
(* out at most once, the call is answered once, and an answer of "ok" is   *)
(* only given for a request that has been carried out.  An error says      *)
(* nothing: the request may have been carried out, or still be.            *)
(***************************************************************************)
EXTENDS Naturals

VARIABLES
    taken,   \* how often Canopy has carried the request out
    answer   \* what the call has returned

vars == <<taken, answer>>

Init == taken = 0 /\ answer = "none"

Take ==
    /\ taken = 0
    /\ taken' = 1
    /\ UNCHANGED answer

Answer ==
    /\ answer = "none"
    /\ answer' \in {"ok", "error"}
    /\ answer' = "ok" => taken = 1
    /\ UNCHANGED taken

Next == Take \/ Answer

Spec == Init /\ [][Next]_vars
=============================================================================
