------------------------------- MODULE RunReport -------------------------------
(***************************************************************************)
(* What becomes of the result of one run: its binding validation, its      *)
(* evidence package, and the review report made of both, each of them made *)
(* when somebody asks for it and kept.  The report is kept in two files.   *)
(***************************************************************************)
EXTENDS RunVerdict, Naturals

CONSTANTS
    Result,         \* results a run may end with, before they are evaluated
    MaxRequests     \* a bound on the requests to validate, finalize and report

VARIABLES
    memory,         \* the stored run, its events, binding result and manifest,
                    \* and whether its scenario expects a response of the server
    disk,           \* the files of the report: what report.json says, and
                    \* whether report.html says the same
    thread,         \* the request that makes a report: its step, and what it has read
    past            \* the bound

vars == <<memory, disk, thread, past>>

NoBinding == [field |-> "none", http |-> "none"]
NoManifest == [stored |-> "none", shots |-> FALSE, missing |-> FALSE]
NoReport == [outcome |-> "none", diagnosis |-> "none", attention |-> {},
             technical |-> "none"]
Idle == [step |-> "idle", run |-> NoResult, binding |-> NoBinding, manifest |-> NoManifest]

Init ==
    /\ \E expects \in BOOLEAN :
         memory = [run |-> NoResult, events |-> FALSE, binding |-> NoBinding,
                   manifest |-> NoManifest, expects |-> expects]
    /\ disk = [json |-> NoReport, ended |-> FALSE, same |-> TRUE]
    /\ thread = Idle
    /\ past = [requests |-> 0]

Request ==
    /\ past.requests < MaxRequests
    /\ past' = [requests |-> past.requests + 1]

-----------------------------------------------------------------------------
(* The run.                                                                *)

\* _persist_result, or an earlier build, saves the result with its verdict.
RunEnds ==
    /\ memory.run = NoResult
    /\ \E result \in Result :
         memory' = [memory EXCEPT !.run = [result EXCEPT !.verdict = Evaluated(result)]]
    /\ UNCHANGED <<disk, thread, past>>

LogsArrive ==
    /\ ~memory.events
    /\ memory' = [memory EXCEPT !.events = TRUE]
    /\ UNCHANGED <<disk, thread, past>>

-----------------------------------------------------------------------------
(* BindingValidationService.                                               *)

FieldResult(missing, equal, review) ==
    IF missing THEN "MISSING_DATA"
    ELSE IF ~equal THEN "MISMATCH"
    ELSE IF review THEN "REVIEW_REQUIRED"
    ELSE "MATCH"

\* What has not been seen ranks before what differs, unless that is technical.
TechnicalStatus(field, http) ==
    CASE http = "MISMATCH" -> "BLOCKED"
      [] http # "MISMATCH" /\ "MISSING_DATA" \in {field, http} -> "PARTIAL"
      [] http # "MISMATCH" /\ "MISSING_DATA" \notin {field, http} ->
           IF field = "MISMATCH" THEN "TECHNICAL_MISMATCH" ELSE "TECHNICALLY_MATCHED"

\* validate: the worst of the outputs of the contract, if it has any, and of
\* the technical rows, which are the route and, where the scenario expects a
\* response, its status; no response is found without events.
Validations ==
    [field : {"MATCH"} \cup
             {FieldResult(missing, equal, review) :
                missing \in (IF memory.events THEN BOOLEAN ELSE {TRUE}),
                equal \in BOOLEAN, review \in BOOLEAN},
     http : {"MISSING_DATA", "MISMATCH"} \cup
            (IF memory.expects /\ ~memory.events THEN {} ELSE {"MATCH"})]

\* The request to validate.
Validate ==
    /\ Request
    /\ \E b \in Validations : memory' = [memory EXCEPT !.binding = b]
    /\ UNCHANGED <<disk, thread>>

\* What a package made now cannot have: a run that has not ended has no
\* requests yet.
Lacks(m) ==
    \/ m.stored = "write_failed" \/ ~m.shots
    \/ memory.binding = NoBinding
    \/ memory.expects /\ ~memory.events
    \/ ~memory.run.network

Packages == [stored : {"ready", "write_failed"}, shots : BOOLEAN, missing : BOOLEAN]

\* Counting only what the package lacks, and not how the run ended.
MutantPackage == {m \in Packages : Lacks(m) => m.missing}

\* finalize, as far as the report goes: what it lacks is missing, and so is, in
\* a way, the end of a run that failed or was cancelled.  More may be missing:
\* the commits of the sources, and inputs.
Package ==
    {m \in Packages :
        Lacks(m) \/ memory.run.status \in {"AUTO_FAILED", "CANCELLED"} => m.missing}

Finalize ==
    /\ Request
    /\ \E m \in Package : memory' = [memory EXCEPT !.manifest = m]
    /\ UNCHANGED <<disk, thread>>

-----------------------------------------------------------------------------
(* RunReportService.generate.                                              *)

\* Taking the run as it is stored.
MutantBegins ==
    /\ Request
    /\ thread.step = "idle"
    /\ thread' = [Idle EXCEPT !.step = "bind", !.run = memory.run]
    /\ UNCHANGED <<memory, disk>>

\* Unless it is forced, there is no report yet: the run is read, and shown.
Begins ==
    /\ Request
    /\ thread.step = "idle"
    /\ thread' = [Idle EXCEPT !.step = "bind", !.run = Shown(memory.run)]
    /\ UNCHANGED <<memory, disk>>

\* The binding result is taken as it is, or made.
Binds ==
    /\ thread.step = "bind"
    /\ \E b \in IF memory.binding = NoBinding THEN Validations ELSE {memory.binding} :
         /\ memory' = [memory EXCEPT !.binding = b]
         /\ thread' = [thread EXCEPT !.step = "package", !.binding = b]
    /\ UNCHANGED <<disk, past>>

\* And so is the manifest.
Packs ==
    /\ thread.step = "package"
    /\ \E m \in IF memory.manifest = NoManifest THEN Package ELSE {memory.manifest} :
         /\ memory' = [memory EXCEPT !.manifest = m]
         /\ thread' = [thread EXCEPT !.step = "write", !.manifest = m]
    /\ UNCHANGED <<disk, past>>

\* build_report
Attention(run, b, m) ==
    {a \in {"mismatch", "missing", "review", "package", "failure", "undetermined"} :
        \/ a = "mismatch" /\ "MISMATCH" \in {b.field, b.http}
        \/ a = "missing" /\ (m.missing \/ run.stopped # "no" \/ "MISSING_DATA" \in {b.field, b.http})
        \/ a = "review" /\ b.field = "REVIEW_REQUIRED"
        \/ a = "package" /\ (m.stored # "ready" \/ ~m.shots)
        \/ a = DiagnosisOf(run)}

Built(run, b, m) ==
    [outcome |-> OutcomeOf(run), diagnosis |-> DiagnosisOf(run),
     attention |-> Attention(run, b, m), technical |-> TechnicalStatus(b.field, b.http)]

\* write_artifacts, by the skill and again by the service: one file, and then
\* the other; or the workflow fails, before or after.
WritesJson ==
    /\ thread.step = "write"
    /\ disk' = [json |-> Built(thread.run, thread.binding, thread.manifest),
                ended |-> thread.run.status # "RUNNING", same |-> FALSE]
    /\ thread' = [Idle EXCEPT !.step = "html"]
    /\ UNCHANGED <<memory, past>>

WritesHtml ==
    /\ thread.step = "html"
    /\ disk' = [disk EXCEPT !.same = TRUE]
    /\ thread' = Idle
    /\ UNCHANGED <<memory, past>>

Fails ==
    /\ thread.step \in {"write", "html"}
    /\ thread' = Idle
    /\ UNCHANGED <<memory, disk, past>>

Next ==
    \/ RunEnds \/ LogsArrive \/ Validate \/ Finalize
    \/ Begins \/ Binds \/ Packs \/ WritesJson \/ WritesHtml \/ Fails

Spec == Init /\ [][Next]_vars

-----------------------------------------------------------------------------

\* A report that calls nothing to the reviewer's attention was made of a run
\* that neither failed nor was cancelled, met all that was expected of it, and
\* saw every field and response it should: whenever its logs, its binding result
\* and its package were made, the package even before the run had ended.  Its
\* outcome is a success, except that nothing calls attention to a refusal by the
\* server, at which the diagnosis does not look.
QuietReportIsClean ==
    disk.ended /\ disk.json.attention = {} =>
        /\ disk.json.diagnosis = "success"
        /\ disk.json.technical = "TECHNICALLY_MATCHED"
        /\ memory.run.status = "WAITING_FOR_REVIEW"
        /\ \/ disk.json.outcome = "success"
           \/ memory.run.signal \/ memory.run.refused \in {"business", "http"}

\* The history, which is derived again whenever it is read, and a report made
\* after the run had ended say the same of the run.
ReportAgreesWithHistory ==
    disk.ended => disk.json.outcome = OutcomeOf(Shown(memory.run))

\* A run that was only partly observed is not shown as a success.
PartIsNoSuccess ==
    OutcomeOf(Shown(memory.run)) = "success" =>
        \A c \in Check : Shown(memory.run).criteria[c] \in {"met", "absent"}

=============================================================================
