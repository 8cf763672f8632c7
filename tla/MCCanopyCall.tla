--------------------------- MODULE MCCanopyCall ----------------------------
(***************************************************************************)
(* Up to two leases and one registry entry: what shadows what, and each    *)
(* way an endpoint can be unusable.                                        *)
(***************************************************************************)
EXTENDS CanopyCall

MCCandidate ==
    {[transport |-> "socket", command |-> "none"]}
        \cup {[transport |-> "cli", command |-> c] : c \in Command}

MCLease ==
    {[cap |-> TRUE, expired |-> x, candidate |-> c] : x \in BOOLEAN, c \in MCCandidate}

MCEntry ==
    {[cap |-> TRUE, missing |-> x, candidate |-> c] : x \in BOOLEAN, c \in MCCandidate}
        \cup {[cap |-> FALSE, missing |-> FALSE, candidate |-> c] : c \in MCCandidate}

MCLeases == {<<>>} \cup {<<l>> : l \in MCLease} \cup {<<l, m>> : l \in MCLease, m \in MCLease}
MCRegistries ==
    {[readable |-> x, entries |-> <<>>] : x \in BOOLEAN}
        \cup {[readable |-> TRUE, entries |-> <<e>>] : e \in MCEntry}
=============================================================================
