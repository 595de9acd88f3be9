--------------------------- MODULE BrowserExecution ---------------------------
(***************************************************************************)
(* The browser driver executing one scenario: its steps, one at a time,    *)
(* what the browser shows after each of them, the inputs it fills in by    *)
(* itself when the scenario has none, and the verdict.                     *)
(*                                                                         *)
(* The page, the target and the scenario's next step are chosen when the   *)
(* driver comes to them.  Screenshots, texts, values and secrets are left  *)
(* out.                                                                    *)
(***************************************************************************)
EXTENDS FiniteSets, Naturals

CONSTANTS
    Control,        \* selectors of controls that the scenario expects to see
    MaxSteps,       \* a bound on the steps executed
    MaxCriteria     \* a bound on the criteria of the verdict

VARIABLES
    memory,         \* what the driver has observed
    disk,           \* the CANCEL file, the progress and the result it has written
    thread,         \* where the driver is, the steps done, and the run's policy
    past            \* what a property has to remember:
                    \* refused, requests the target was seen to refuse
                    \* hard, a step ended in an error
                    \* kept, a trigger was left alone because it may create data

vars == <<memory, disk, thread, past>>

Check == {"session_established", "logout_effect", "controls_visible", "request_accepted", "other"}
Direct == {"request_accepted", "other"}     \* those that steps of the instance observe
None == "none"

Observed ==
    [errored |-> FALSE, direct |-> [c \in Direct |-> None], visible |-> {},
     session |-> None, ended |-> None, blocked |-> FALSE, invalid |-> FALSE,
     denied |-> FALSE, noRoute |-> FALSE, kept |-> FALSE, reused |-> FALSE,
     opened |-> FALSE, hasFill |-> FALSE, cancelled |-> FALSE]

Init ==
    /\ memory = Observed
    /\ disk = [cancel |-> FALSE, progress |-> None, status |-> None, verdict |-> None,
               criteria |-> {}, wanted |-> {}, network |-> None]
    /\ thread \in [at : {"consent"}, steps : {0}, allow : BOOLEAN, browser : {FALSE}]
    /\ past = [refused |-> FALSE, hard |-> FALSE, kept |-> FALSE]

At(place) == thread.at = place
Goes(place) == thread' = [thread EXCEPT !.at = place]

\* execute_scenario opens no browser, and closes none, without consent.
NoConsent ==
    /\ At("consent")
    /\ disk' = [disk EXCEPT !.status = "CANCELLED"]
    /\ Goes("ended")
    /\ UNCHANGED <<memory, past>>

Begins ==
    /\ At("consent")
    /\ thread' = [thread EXCEPT !.at = "steps", !.browser = TRUE]
    /\ disk' = [disk EXCEPT !.progress = "RUNNING"]
    /\ UNCHANGED <<memory, past>>

\* cancel_run writes the file, at any time.
Cancel ==
    /\ ~At("ended") /\ ~disk.cancel
    /\ disk' = [disk EXCEPT !.cancel = TRUE]
    /\ UNCHANGED <<memory, thread, past>>

-----------------------------------------------------------------------------
(* The steps.  Each is an action: its guard, what it observes, and its     *)
(* status.                                                                 *)

Runs == At("steps") /\ thread.steps < MaxSteps /\ ~disk.cancel

\* record_step and what follows it: no step after a precondition that was not
\* met, a form that cannot be submitted, or a page that did not open.
Recorded(m, status, stop) ==
    /\ memory' = [m EXCEPT !.errored = @ \/ status = "error"]
    /\ disk' = [disk EXCEPT !.progress = "RUNNING"]
    /\ thread' = [thread EXCEPT !.steps = @ + 1,
                    !.at = IF m.blocked \/ m.invalid \/ stop THEN "left" ELSE "steps"]

Remembers(status, denied) ==
    past' = [past EXCEPT !.hard = @ \/ status = "error", !.refused = @ \/ denied]

Step(m, status) == Recorded(m, status, FALSE) /\ Remembers(status, FALSE)

\* A page that shows a refusal makes the step a warning, whatever it was.
DeniedOr(status, denied) == IF denied THEN "warning" ELSE status
Seen(m, denied) == [m EXCEPT !.denied = @ \/ denied]

\* A session that was found to exist makes the other steps of the login
\* superfluous.
SkipsPrecondition ==
    /\ Runs /\ memory.reused
    /\ \E check \in BOOLEAN :
         Step(IF check THEN [memory EXCEPT !.session = "yes"] ELSE memory,
              IF check THEN "ok" ELSE "skipped")

\* A step without a route opens nothing.
NavigatesNowhere ==
    /\ Runs
    /\ Step([memory EXCEPT !.noRoute = TRUE], "warning")

\* The page may be a refusal, or show, instead of the login, that there is a
\* session; the login it may show instead is filled in.
Navigates ==
    /\ Runs
    /\ \E opens, denied, session \in BOOLEAN :
         LET status == DeniedOr(IF opens THEN "ok" ELSE "error", denied)
             m == [memory EXCEPT !.opened = TRUE, !.reused = @ \/ session,
                                 !.session = IF session THEN "yes" ELSE @] IN
           Recorded(Seen(m, denied), status, status = "error") /\ Remembers(status, denied)

\* fill opens the page of the scenario when none is open.
Fills ==
    /\ Runs
    /\ \E status \in {"ok", "error"} :
         Step([memory EXCEPT !.opened = TRUE, !.hasFill = TRUE], status)

Selects == Runs /\ \E status \in {"ok", "warning", "error"} : Step(memory, status)
Captures == Runs /\ \E status \in {"ok", "warning"} : Step(memory, status)

\* What a step observes of a criterion replaces what an earlier one did.
Finds(m, c, met) == [m EXCEPT !.direct[c] = IF met THEN "met" ELSE "not_met"]
Warning(met) == IF met THEN "ok" ELSE "warning"

\* verify_numeric_delta and verify_collection_change, and assert_invalid.
Verifies ==
    /\ Runs
    /\ \E c \in Direct, met \in BOOLEAN : Step(Finds(memory, c, met), Warning(met))

\* A trigger that may create data is left alone, unless the run allows it.
KeepsTrigger ==
    /\ Runs /\ ~thread.allow
    /\ Recorded([memory EXCEPT !.kept = TRUE], "skipped", FALSE)
    /\ past' = [past EXCEPT !.kept = TRUE]

\* A form that the browser would not submit.
FindsInvalid ==
    /\ Runs /\ thread.allow
    /\ Step([memory EXCEPT !.invalid = TRUE], "skipped")

Clicks ==
    /\ Runs
    /\ \E clicked, denied \in BOOLEAN :
         LET status == DeniedOr(IF clicked THEN "ok" ELSE "error", denied) IN
           Recorded(Seen(memory, denied), status, FALSE) /\ Remembers(status, denied)

Waits ==
    /\ Runs
    /\ \E denied \in BOOLEAN, status \in {"ok", "warning"} :
           /\ Recorded(Seen(memory, denied), DeniedOr(status, denied), FALSE)
           /\ Remembers(status, denied)

\* verify_navigation, of a criterion or of none: the page has to be the expected.
ChecksPage ==
    /\ Runs
    /\ \E c \in Direct \cup {None}, met \in BOOLEAN :
         LET m == [memory EXCEPT !.noRoute = @ \/ ~met] IN
           Step(IF c = None THEN m ELSE Finds(m, c, met), Warning(met))

\* verify_binding: the field has to be shown, on the expected page if there is one.
ChecksBinding ==
    /\ Runs
    /\ \E shown, met \in BOOLEAN :
         Step([memory EXCEPT !.noRoute = @ \/ ~met], Warning(shown /\ met))

\* assert_visible: the controls seen so far are remembered.
AssertsVisible ==
    /\ Runs
    /\ \E found, absent \in SUBSET Control :
         /\ found \cap absent = {}
         /\ Step([memory EXCEPT !.visible = @ \cup found],
                 Warning(absent = {} /\ found # {}))

AssertsText ==
    /\ Runs
    /\ \E c \in Direct, met \in BOOLEAN, found \in SUBSET Control :
         Step([Finds(memory, c, met) EXCEPT !.visible = IF met THEN @ \cup found ELSE @],
              Warning(met))

AssertsAbsent ==
    /\ Runs
    /\ \E found, session \in BOOLEAN :
         Step([memory EXCEPT !.ended = IF session THEN IF found THEN "no" ELSE "yes" ELSE @],
              Warning(~found))

\* The session check of the precondition: a blocking one stops the scenario.
ChecksSession ==
    /\ Runs
    /\ \E found \in SUBSET Control, blocking \in BOOLEAN :
         LET none == found = {} IN
           Step([memory EXCEPT !.visible = @ \cup found,
                   !.session = IF none THEN "no" ELSE "yes",
                   !.blocked = @ \/ (none /\ blocking)],
                IF none THEN IF blocking THEN "error" ELSE "warning" ELSE "ok")

Unsupported == Runs /\ Step(memory, "skipped")

\* Any step may raise; only a page that did not open ends the scenario.
Raises ==
    /\ Runs
    /\ \E opened, fill, navigate \in BOOLEAN :
         /\ Recorded([memory EXCEPT !.opened = @ \/ opened, !.hasFill = @ \/ fill],
                     "error", navigate)
         /\ Remembers("error", FALSE)

\* The steps have all been done: nobody looks for the file again.
LoopEnds ==
    /\ At("steps")
    /\ Goes("probe")
    /\ UNCHANGED <<memory, disk, past>>

LoopIsCancelled ==
    /\ At("steps") /\ disk.cancel /\ thread.steps < MaxSteps
    /\ memory' = [memory EXCEPT !.cancelled = TRUE]
    /\ Goes("probe")
    /\ UNCHANGED <<disk, past>>

\* A fill may be among the steps that were not executed.
LoopIsLeft ==
    /\ At("left")
    /\ \E fill \in BOOLEAN : memory' = [memory EXCEPT !.hasFill = @ \/ fill]
    /\ Goes("probe")
    /\ UNCHANGED <<disk, past>>

-----------------------------------------------------------------------------
(* What the driver does by itself: when the scenario fills nothing in, it  *)
(* fills in what the page has, and submits it.                             *)

MayFill == memory.opened /\ ~memory.cancelled /\ ~memory.hasFill

\* It may not; or the scenario only looks at a screen, or the page has no inputs.
ProbeSkips ==
    /\ At("probe")
    /\ Goes("verdict")
    /\ UNCHANGED <<memory, disk, past>>

\* A route whose name says that it creates data is not submitted.
ProbeKeeps ==
    /\ At("probe") /\ MayFill
    /\ memory' = [memory EXCEPT !.kept = TRUE]
    /\ Goes("verdict")
    /\ UNCHANGED <<disk, past>>

\* Otherwise the first button whose name is that of a submission is clicked.
ProbeSubmits ==
    /\ At("probe") /\ MayFill
    /\ Goes("verdict")
    /\ UNCHANGED <<memory, disk, past>>

-----------------------------------------------------------------------------
(* evaluate_verdict                                                        *)

ByRequest(network) ==
    IF memory.denied THEN "not_met"
    ELSE IF memory.invalid \/ memory.blocked \/ memory.noRoute \/ memory.kept \/ network = None
    THEN "undetermined"
    ELSE IF network = "accepted" THEN "met" ELSE "not_met"

BySession(flag) == CASE flag = "yes" -> "met" [] flag = "no" -> "not_met"
                     [] OTHER -> "undetermined"

ByControls(wanted) == IF wanted = {} \/ memory.visible = {} THEN "undetermined"
                      ELSE IF wanted \subseteq memory.visible THEN "met" ELSE "not_met"

\* What was observed of a criterion, by a step or by the rule of its check.
Result(c, wanted, network) ==
    IF c \in Direct /\ memory.direct[c] # None THEN memory.direct[c]
    ELSE CASE c = "session_established" -> BySession(memory.session)
           [] c = "logout_effect" ->
                IF memory.blocked THEN "undetermined" ELSE BySession(memory.ended)
           [] c = "controls_visible" -> ByControls(wanted)
           [] c = "request_accepted" -> ByRequest(network)
           [] OTHER -> "undetermined"

\* Some criteria that were met, and none that was not, are enough.
MutantVerdict(results) ==
    IF memory.invalid \/ memory.blocked \/ "not_met" \in results THEN "expected_not_met"
    ELSE IF "met" \in results THEN "expected_met" ELSE "undetermined"

\* Everything has to be met, and there has to be something.
Verdict(results) ==
    IF memory.invalid \/ memory.blocked \/ "not_met" \in results THEN "expected_not_met"
    ELSE IF results = {"met"} THEN "expected_met" ELSE "undetermined"

\* The status of the run: nothing is said to have passed.
FinalStatus(verdict) ==
    IF memory.cancelled THEN "CANCELLED"
    ELSE IF memory.errored \/ verdict = "expected_not_met" THEN "AUTO_FAILED"
    ELSE "WAITING_FOR_REVIEW"

\* The result and the progress are written, and the browser is closed.
Finishes ==
    /\ At("verdict")
    /\ \E criteria \in SUBSET Check, wanted \in SUBSET Control,
          network \in {None, "accepted", "refused"} :
         /\ Cardinality(criteria) <= MaxCriteria
         /\ "controls_visible" \in criteria \/ wanted = {}
         /\ "request_accepted" \in criteria \/ network = None
         /\ LET verdict == Verdict({Result(c, wanted, network) : c \in criteria})
                status == FinalStatus(verdict) IN
            disk' = [disk EXCEPT !.status = status, !.progress = status, !.verdict = verdict,
                       !.criteria = criteria, !.wanted = wanted, !.network = network]
    /\ thread' = [thread EXCEPT !.at = "ended", !.browser = FALSE]
    /\ UNCHANGED <<memory, past>>

\* Outside of the steps nothing is caught: there is no result, and the browser
\* is closed all the same.
Fails ==
    /\ thread.at \in {"probe", "verdict"}
    /\ thread' = [thread EXCEPT !.at = "ended", !.browser = FALSE]
    /\ UNCHANGED <<memory, disk, past>>

Next ==
    \/ NoConsent \/ Begins \/ Cancel
    \/ SkipsPrecondition \/ NavigatesNowhere \/ Navigates \/ Fills \/ Selects \/ Captures
    \/ Verifies \/ KeepsTrigger \/ FindsInvalid \/ Clicks \/ Waits \/ ChecksPage
    \/ ChecksBinding \/ AssertsVisible \/ AssertsText \/ AssertsAbsent \/ ChecksSession
    \/ Unsupported \/ Raises
    \/ LoopEnds \/ LoopIsCancelled \/ LoopIsLeft
    \/ ProbeSkips \/ ProbeKeeps \/ ProbeSubmits \/ Finishes \/ Fails

Spec == Init /\ [][Next]_vars

-----------------------------------------------------------------------------

\* A run that is reported as having met what was expected has earned it: no
\* step of it ended in an error, it has criteria, and each of them was
\* observed, the request with no refusal on any page before, unless a step
\* looked at that criterion itself ("reaching the end is no ground for
\* success", D-015).
SuccessIsEarned ==
    disk.status = "WAITING_FOR_REVIEW" /\ disk.verdict = "expected_met" =>
        /\ ~past.hard /\ ~memory.invalid /\ ~memory.blocked
        /\ disk.criteria # {}
        /\ \A c \in disk.criteria :
             \/ c \in Direct /\ memory.direct[c] = "met"
             \/ c = "session_established" /\ memory.session = "yes"
             \/ c = "logout_effect" /\ memory.ended = "yes"
             \/ c = "controls_visible" /\ disk.wanted # {} /\ disk.wanted \subseteq memory.visible
             \/ c = "request_accepted" /\ ~past.refused /\ ~past.kept /\ disk.network = "accepted"

=============================================================================
