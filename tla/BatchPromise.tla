---------------------------- MODULE BatchPromise -----------------------------
(***************************************************************************)
(* What an unattended batch promises: once started, every pending case is  *)
(* executed exactly once and settled with a result that stays, and the     *)
(* batch is over only when every case is settled, with a verdict that      *)
(* tells whether a case failed or needs review.                            *)
(***************************************************************************)
CONSTANTS Case

VARIABLES status, caseStatus

Settled == {"COMPLETED", "FAILED", "REVIEW_REQUIRED", "SKIPPED", "CANCELLED"}

Init ==
    /\ status \in {"DRAFT", "READY"}
    /\ caseStatus \in [Case -> {"PENDING", "SKIPPED"}]

Start ==
    /\ status = "READY"
    /\ status' = "RUNNING"
    /\ UNCHANGED caseStatus

Execute(c) ==
    /\ status = "RUNNING"
    /\ caseStatus[c] = "PENDING"
    /\ caseStatus' = [caseStatus EXCEPT ![c] = "RUNNING"]
    /\ UNCHANGED status

Settle(c) ==
    /\ status = "RUNNING"
    /\ caseStatus[c] = "RUNNING"
    /\ \E st \in Settled \ {"SKIPPED"} :
         caseStatus' = [caseStatus EXCEPT ![c] = st]
    /\ UNCHANGED status

Conclude ==
    /\ status = "RUNNING"
    /\ \A c \in Case : caseStatus[c] \in Settled
    /\ status' = IF \E c \in Case : caseStatus[c] \in {"FAILED", "REVIEW_REQUIRED"}
                 THEN "COMPLETED_WITH_FAILURES" ELSE "COMPLETED"
    /\ UNCHANGED caseStatus

Progress == Conclude \/ \E c \in Case : Execute(c) \/ Settle(c)

Next == Start \/ Progress

Spec == Init /\ [][Next]_<<status, caseStatus>>
             /\ WF_<<status, caseStatus>>(Progress)
=============================================================================
