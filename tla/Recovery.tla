------------------------------ MODULE Recovery ------------------------------
(***************************************************************************)
(* What to do about a phase in trouble: the signals of src/monitor, the    *)
(* failure kinds of src/failure.rs, and the decisions src/retry.rs takes   *)
(* on them, as operators.  A decision depends on the signal, the retries   *)
(* already spent and the policy; the texts it carries are left out.        *)
(***************************************************************************)
EXTENDS Naturals

CONSTANT Policy   \* RetryPolicy

AgentTier == {"haiku", "sonnet", "opus", "any"}

RetryPolicy == [max : Nat, narrow : BOOLEAN, escalateTier : BOOLEAN]

ASSUME PolicyAssumption == Policy \in RetryPolicy

StallReason ==
    {"heartbeat_timeout", "no_code_diff", "no_paste_marker_progress",
     "status_chatter_only"}

\* Healthy, PhaseComplete, GateSatisfied, Failed, and Stalled by its reason.
Signal == {"healthy", "phase_complete", "gate_satisfied", "failed"} \cup StallReason

NoTier == "keep"

Retry(narrow, tier) == [kind |-> "retry", narrow |-> narrow, tier |-> tier]
Escalate == [kind |-> "escalate", narrow |-> FALSE, tier |-> NoTier]
Cancel == [kind |-> "cancel", narrow |-> FALSE, tier |-> NoTier]

RecoveryAction ==
    [kind : {"retry", "escalate", "cancel"}, narrow : BOOLEAN,
     tier : AgentTier \cup {NoTier}]

\* One step up, with Opus as the ceiling; Any is placed below Sonnet.
NextTier(tier) == IF tier \in {"haiku", "any"} THEN "sonnet" ELSE "opus"

-----------------------------------------------------------------------------
(* decide_recovery, for the signals the monitor emits or is handed.        *)

Spent(retries) == retries >= Policy.max

\* Plain first, then narrowed and perhaps one tier up.
ProgressiveRetry(retries, tier) ==
    IF retries = 0 THEN Retry(FALSE, NoTier)
    ELSE Retry(Policy.narrow, IF Policy.escalateTier THEN NextTier(tier) ELSE NoTier)

RetryFor(signal, retries, tier) ==
    CASE signal \in {"heartbeat_timeout", "failed"} -> Retry(FALSE, NoTier)
      [] signal = "status_chatter_only"             -> Retry(Policy.narrow, NoTier)
      [] OTHER                                      -> ProgressiveRetry(retries, tier)

NeedsRecovery(signal) == signal = "failed" \/ signal \in StallReason

DecideRecovery(signal, retries, tier) ==
    IF ~ NeedsRecovery(signal) THEN Cancel
    ELSE IF Spent(retries) THEN Escalate
    ELSE RetryFor(signal, retries, tier)

-----------------------------------------------------------------------------
(* decide_recovery_typed, for a failure its detection site has classified, *)
(* and the category a terminal outcome gives it.                           *)

FailureKind ==
    {"spec_ambiguity", "task_too_large", "missing_dependency",
     "execution_incomplete", "scope_violation", "contract_mismatch",
     "minor_defect"}

DecideRecoveryTyped(kind, retries) ==
    CASE kind \in {"spec_ambiguity", "contract_mismatch", "scope_violation"} -> Escalate
      [] kind = "missing_dependency" -> Cancel
      [] kind = "task_too_large" ->
            IF retries = 0 THEN Retry(TRUE, NoTier) ELSE Escalate
      [] OTHER -> IF Spent(retries) THEN Escalate ELSE Retry(FALSE, NoTier)

TerminalFailureType(kind) ==
    CASE kind = "spec_ambiguity"                               -> "unknown"
      [] kind \in {"task_too_large", "missing_dependency"}     -> "gate_violation"
      [] kind = "execution_incomplete"                         -> "stall_timeout"
      [] kind = "scope_violation"                              -> "audit_rejected"
      [] OTHER                                                 -> "verification_failed"
=============================================================================
