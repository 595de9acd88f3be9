------------------------------ MODULE RunVerdict ------------------------------
(***************************************************************************)
(* What is derived from the result of a run whenever it is shown: a        *)
(* correction of the verdict, a status, a kind of outcome and a diagnosis. *)
(*                                                                         *)
(* A result has two criteria: whether the controls are visible, and one    *)
(* other, which stands for all the rest.  Texts are left out; of what the  *)
(* steps observed, signal says that a refusal by the server is among it,   *)
(* direct that a step saw every control it looked for, and network that    *)
(* the browser recorded requests.  What the result itself says of the      *)
(* server is in refused: that it refused, by its code or by the business   *)
(* error it gave, or no more than its name.                                *)
(***************************************************************************)

Check == {"controls_visible", "other"}
Findings == {"absent", "met", "not_met", "undetermined"}
Blocker == {"none", "controls_visible", "session_missing", "server_error"}

NoResult == [status |-> "RUNNING", verdict |-> "none", blocker |-> "none",
             criteria |-> [c \in Check |-> "absent"], direct |-> FALSE,
             signal |-> FALSE, refused |-> "no", stopped |-> "no", network |-> FALSE]

Found(r, finding) == \E c \in Check : r.criteria[c] = finding

\* evaluate_verdict: a criterion that was not met, or an issue that blocked
\* the run, decides; everything has to be met, and there has to be something.
Evaluated(r) ==
    IF r.blocker \in {"session_missing", "server_error"} \/ Found(r, "not_met")
    THEN "expected_not_met"
    ELSE IF Found(r, "met") /\ ~Found(r, "undetermined") THEN "expected_met"
    ELSE "undetermined"

\* _reconcile_direct_visibility_evidence: a verdict against a run is taken back
\* when only the visibility of controls was not met, and a step saw them all.
Contradicted(r) ==
    /\ r.verdict = "expected_not_met"
    /\ ~r.signal
    /\ r.blocker \in {"none", "controls_visible"}
    /\ {c \in Check : r.criteria[c] = "not_met"} = {"controls_visible"}
    /\ r.direct

Reconciled(r) ==
    IF Contradicted(r)
    THEN [r EXCEPT !.verdict = "expected_met", !.blocker = "none",
                   !.criteria["controls_visible"] = "met"]
    ELSE r

\* _normalize_derived_outcome shows the status that goes with the evidence.
ShownStatus(r) ==
    LET s == Reconciled(r) IN
    IF r.status = "WAITING_FOR_REVIEW" /\ (s.verdict = "expected_not_met" \/ s.signal)
    THEN "AUTO_FAILED"
    ELSE IF Contradicted(r) /\ r.status = "AUTO_FAILED" THEN "WAITING_FOR_REVIEW"
    ELSE r.status

\* _classify_run_outcome
OutcomeOf(r) ==
    CASE r.signal -> "be_error"
      [] ~r.signal /\ r.verdict = "expected_not_met" ->
           (CASE r.blocker = "server_error" -> "be_error"
              [] r.blocker = "session_missing" -> "fe_error"
              [] OTHER -> "business_error")
      [] ~r.signal /\ r.verdict = "undetermined" -> "unknown"
      [] ~r.signal /\ r.verdict \in {"expected_met", "none"} ->
           (CASE r.refused = "business" -> "business_error"
              [] r.refused = "http" -> "be_error"
              [] r.refused \in {"no", "named"} /\ r.status = "WAITING_FOR_REVIEW" ->
                   IF r.verdict = "none" THEN "unknown" ELSE "success"
              [] r.refused = "named" /\ r.status = "AUTO_FAILED" -> "be_error"
              [] r.refused = "no" /\ r.status = "AUTO_FAILED" -> "fe_error"
              [] OTHER -> "unknown")

\* _build_run_diagnosis goes by the verdict, unless the run was stopped before
\* it submitted anything; it does not look at the status or at the signals.
DiagnosisOf(r) ==
    CASE r.stopped \in {"precondition", "policy"} -> "undetermined"
      [] r.stopped = "no" /\ r.verdict = "expected_met" -> "success"
      [] r.stopped = "no" /\ r.verdict = "expected_not_met" -> "failure"
      [] OTHER -> "undetermined"

\* The run as lists, details and reports show it.
Shown(r) == [Reconciled(r) EXCEPT !.status = ShownStatus(r)]

=============================================================================
