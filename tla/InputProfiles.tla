----------------------------- MODULE InputProfiles ----------------------------
(***************************************************************************)
(* The recommendation and the input profiles of one scenario: requests     *)
(* recommend inputs, make profiles of their cases, approve them and make   *)
(* their cases again, and runs take their inputs from them, while the      *)
(* scenario may be generated again.                                        *)
(***************************************************************************)
EXTENDS InputRecommendation

CONSTANTS
    Worker,         \* the requests at work
    Bodies,         \* what the scenario may be: pins, the fields that its variant
                    \* gives a value or computes, in order, and their category
    Contract,       \* the inputs of its contract
    Known,          \* a pattern that the analyses have, or None
    Policies,       \* budgets, and what happens to cases that are uncertain
    Overrides,      \* values that users enter instead
    MaxRequests,    \* a bound on the requests
    MaxRestarts     \* a bound on the restarts of the process

VARIABLES
    memory,         \* the scenario, the recommendations, the profiles and the
                    \* last run, and whether a contract is built or ready
    disk,           \* those in the catalog
    thread,         \* of each worker: its step and what it has read
    past            \* the bounds, and what a property has to remember:
                    \* alone, no two requests have been at work at once
                    \* approvals, of each profile

vars == <<memory, disk, thread, past>>

\* A copy of the scenario is numbered by made, which says when it was
\* generated; of says the same of what was made for it.
NoCopy == [id |-> 0]
Free == [step |-> "idle", scenario |-> NoCopy, rec |-> NoCopy, item |-> NoCopy,
         policy |-> NoCopy, over |-> NoInputs, then |-> "idle"]
At(w, step) == thread[w].step = step
Becomes(w, t) == thread' = [thread EXCEPT ![w] = t]

\* What the skill recommends for the contract, and the service for a scenario:
\* the identifier is made from what it was before it was pinned.
Generic == Recommended(Contract, Known)
Recommendation(scenario, made) ==
    [id |-> 1, made |-> made, of |-> scenario.made, body |-> Scoped(Generic, scenario.body)]

\* The scenario is new, or the pipeline has recommended its inputs already.
Init ==
    /\ \E s \in Bodies, rec \in {TRUE, FALSE} :
         memory = [scenario |-> [body |-> s, made |-> 0], profiles |-> {}, run |-> NoCopy,
                   contract |-> IF rec THEN "ready" ELSE "none",
                   recs |-> IF rec THEN {Recommendation([body |-> s, made |-> 0], 0)}
                            ELSE {}]
    /\ disk = memory
    /\ thread = [w \in Worker |-> Free]
    /\ past = [requests |-> 0, restarts |-> 0, alone |-> TRUE, ids |-> 0,
               approvals |-> <<>>]

Saves(m) == memory' = m /\ disk' = m

Request(w) ==
    /\ At(w, "idle") /\ past.requests < MaxRequests
    /\ past' = [past EXCEPT !.requests = @ + 1,
                            !.alone = @ /\ \A v \in Worker : At(v, "idle")]

\* create_from_graph stores the scenario again; what was recommended stays.
Regenerate(w) ==
    /\ Request(w)
    /\ \E s \in Bodies :
         Saves([memory EXCEPT !.scenario = [body |-> s, made |-> past.requests + 1]])
    /\ UNCHANGED thread

\* get_recommendation_by_scenario: the newest.
Newest(recs) == {r \in recs : \A x \in recs : x.made <= r.made}

-----------------------------------------------------------------------------

\* recommend reads the scenario; then says what comes after it ...
Recommend(w, policy, then) ==
    /\ Request(w)
    /\ Becomes(w, [Free EXCEPT !.step = "contract", !.scenario = memory.scenario,
                               !.policy = policy, !.then = then])
    /\ UNCHANGED <<memory, disk>>

\* ... builds a contract unless there is one, which may fail ...
Contracts(w) ==
    /\ At(w, "contract")
    /\ \/ /\ memory.contract = "none"
          /\ Saves([memory EXCEPT !.contract = "built"])
          /\ Becomes(w, [thread[w] EXCEPT !.step = "recommend"])
       \/ /\ memory.contract = "none"
          /\ Becomes(w, Free)
          /\ UNCHANGED <<memory, disk>>
       \/ /\ memory.contract # "none"
          /\ Becomes(w, [thread[w] EXCEPT !.step = "recommend"])
          /\ UNCHANGED <<memory, disk>>
    /\ UNCHANGED past

\* ... saves what the skill recommends, pinned to the variant, and marks the
\* contract, which nobody looks at ...
Recommends(w) ==
    LET t == thread[w]
        rec == Recommendation(t.scenario, past.ids + 1) IN
    /\ At(w, "recommend")
    /\ Saves([memory EXCEPT !.recs = {r \in @ : r.id # rec.id} \cup {rec},
                            !.contract = "ready"])
    /\ past' = [past EXCEPT !.ids = @ + 1]
    /\ Becomes(w, IF t.then = "idle" THEN Free
                  ELSE [t EXCEPT !.step = t.then, !.rec = rec, !.scenario = NoCopy])

\* pinned and typed are what a property has to remember of a profile or a run:
\* that it was made of what was pinned, and the fields that a user has entered.
Profile(id, rec, cases, policy) ==
    [id |-> id, status |-> "DRAFT", version |-> 1, rec |-> rec.id, of |-> rec.of,
     policy |-> policy, cases |-> cases, pinned |-> TRUE, typed |-> {}]

\* ... and, when it is to, a profile: that of the workflow, which knows nothing
\* of the variant, or without a workflow one of what was pinned.
SavesProfile(w) ==
    LET t == thread[w]
        id == Cardinality(memory.profiles) + 1
        save(p) == Saves([memory EXCEPT !.profiles = @ \cup {p}]) IN
    /\ At(w, "save")
    /\ \/ save(Profile(id, t.rec, Cases(t.rec.body, t.policy), t.policy))
       \/ save([Profile(id, t.rec, Cases(Generic, t.policy), t.policy)
                  EXCEPT !.pinned = FALSE])
    /\ past' = [past EXCEPT !.approvals = Append(@, 0)]
    /\ Becomes(w, Free)

-----------------------------------------------------------------------------

\* create_profile reads the newest recommendation, or recommends first.
CreateProfile(w, policy, over) ==
    /\ Request(w)
    /\ \/ \E rec \in Newest(memory.recs) :
            Becomes(w, [Free EXCEPT !.step = "create", !.rec = rec,
                                    !.policy = policy, !.over = over])
       \/ /\ memory.recs = {}
          /\ Becomes(w, [Free EXCEPT !.step = "contract", !.scenario = memory.scenario,
                                     !.policy = policy, !.over = over,
                                     !.then = "create"])
    /\ UNCHANGED <<memory, disk>>

\* _with_override_case: what the user enters becomes the first case, with the
\* inputs of the case that was the first.
Overridden(cases, over) ==
    <<[category |-> "user_override", review |-> TRUE,
       inputs |-> Entered(IF cases = <<>> THEN NoInputs ELSE Head(cases).inputs, over)]>>
    \o cases

CreateSaves(w) ==
    LET t == thread[w]
        cases == Cases(t.rec.body, t.policy) IN
    /\ At(w, "create")
    /\ Saves([memory EXCEPT !.profiles = @ \cup
                {[Profile(Cardinality(@) + 1, t.rec,
                          IF t.over = NoInputs THEN cases ELSE Overridden(cases, t.over),
                          t.policy) EXCEPT !.typed = DOMAIN t.over]}])
    /\ past' = [past EXCEPT !.approvals = Append(@, 0)]
    /\ Becomes(w, Free)

\* approve_profile and generate_cases read the profile, and so does the page
\* that a run is started from ...
Reads(w, step) ==
    /\ Request(w)
    /\ \E item \in memory.profiles : Becomes(w, [Free EXCEPT !.step = step, !.item = item])
    /\ UNCHANGED <<memory, disk>>

ReadsForCases(w, policy) ==
    /\ Request(w)
    /\ \E item \in memory.profiles, rec \in memory.recs :
         /\ rec.id = item.rec
         /\ Becomes(w, [Free EXCEPT !.step = "cases", !.item = item, !.rec = rec,
                                    !.policy = policy])
    /\ UNCHANGED <<memory, disk>>

Replaces(item) ==
    Saves([memory EXCEPT !.profiles = {p \in @ : p.id # item.id} \cup {item}])

\* A new version of every approval, the first included.
MutantApproves(w) ==
    LET item == thread[w].item IN
    /\ At(w, "approve")
    /\ Replaces([item EXCEPT !.status = "APPROVED", !.version = @ + 1])
    /\ past' = [past EXCEPT !.approvals[item.id] = @ + 1]
    /\ Becomes(w, Free)

\* ... and save it: approved, with a new version when it was approved before ...
Approves(w) ==
    LET item == thread[w].item IN
    /\ At(w, "approve")
    /\ Replaces([item EXCEPT !.status = "APPROVED",
                             !.version = IF item.status = "APPROVED" THEN @ + 1 ELSE @])
    /\ past' = [past EXCEPT !.approvals[item.id] = @ + 1]
    /\ Becomes(w, Free)

\* ... or with other cases, and nothing else changed.
GeneratesCases(w) ==
    LET t == thread[w] IN
    /\ At(w, "cases")
    /\ Replaces([t.item EXCEPT !.cases = Cases(t.rec.body, t.policy), !.policy = t.policy,
                               !.of = t.rec.of, !.pinned = TRUE, !.typed = {}])
    /\ Becomes(w, Free)
    /\ UNCHANGED past

-----------------------------------------------------------------------------

\* _resolve_inputs, for a run that is given no inputs: the first case of its
\* profile, the defaults of the newest recommendation, or what the scenario's
\* variant says; then the user's values; and a customer for the textbook.
FirstOf(choices) ==
    LET given == {i \in DOMAIN choices : choices[i] # NoInputs} IN
    IF given = {} THEN NoInputs ELSE choices[First(given)]

\* With what the skill recommends, as it was before it was pinned.
MutantResolved(profiles, over) ==
    Entered(FirstOf(SetToSeq({Generic.defaults : r \in Newest(memory.recs)})
                      \o <<Values(memory.scenario.body.pins)>>), over)

Resolved(profiles, over) ==
    LET body == memory.scenario.body
        first == {IF p.cases = <<>> THEN NoInputs ELSE Head(p.cases).inputs : p \in profiles}
        default == {r.body.defaults : r \in Newest(memory.recs)}
        inputs == Entered(FirstOf(SetToSeq(first) \o SetToSeq(default)
                                    \o <<Values(body.pins)>>), over)
    IN IF body.textbook /\ "customerId" \notin DOMAIN inputs
       THEN Entered(inputs, [customerId |-> "CUS-1001"]) ELSE inputs

\* start_run for a profile that the user has seen, unless it has another
\* version by now (_assert_fresh_versions); or without a profile.  The run is
\* of the scenario as it is now if whatever it took its inputs from is.
Starts(profiles, over) ==
    memory' = [memory EXCEPT !.run =
        [id |-> 1, inputs |-> Resolved(profiles, over),
         typed |-> DOMAIN over \cup UNION {p.typed : p \in profiles},
         of |-> IF \A x \in profiles \cup Newest(memory.recs) : x.of = memory.scenario.made
                THEN memory.scenario.made ELSE MaxRequests + 1,
         pinned |-> \A p \in profiles : p.pinned]]

StartPlain(w, over) ==
    /\ Request(w)
    /\ Starts({}, over) /\ disk' = memory'
    /\ UNCHANGED thread

StartSeen(w, over) ==
    LET item == thread[w].item
        seen == {p \in memory.profiles : p.id = item.id /\ p.version = item.version} IN
    /\ At(w, "run")
    /\ IF seen = {} THEN UNCHANGED <<memory, disk>>
       ELSE Starts(seen, over) /\ disk' = memory'
    /\ Becomes(w, Free)
    /\ UNCHANGED past

Restart ==
    /\ past.restarts < MaxRestarts
    /\ memory' = disk
    /\ thread' = [w \in Worker |-> Free]
    /\ past' = [past EXCEPT !.restarts = @ + 1]
    /\ UNCHANGED disk

Next ==
    \/ \E w \in Worker :
         \/ Regenerate(w) \/ Contracts(w) \/ Recommends(w) \/ SavesProfile(w)
         \/ CreateSaves(w) \/ Approves(w) \/ GeneratesCases(w)
         \/ \E step \in {"approve", "run"} : Reads(w, step)
         \/ \E policy \in Policies :
              \/ \E then \in {"idle", "save"} : Recommend(w, policy, then)
              \/ \E over \in Overrides : CreateProfile(w, policy, over)
              \/ ReadsForCases(w, policy)
         \/ \E over \in Overrides : StartPlain(w, over) \/ StartSeen(w, over)
    \/ Restart

Spec == Init /\ [][Next]_vars

-----------------------------------------------------------------------------

Pins == memory.scenario.body.pins
Current(x) == x.of = memory.scenario.made

\* No other value for a pinned field than the variant's, and none for one that
\* is computed, but for the fields that were typed.
Agrees(inputs, typed) ==
    \A i \in DOMAIN Pins :
        Pins[i].field \in DOMAIN inputs \ typed => inputs[Pins[i].field] = Pins[i].value

\* "A generated below-minimum/maximum/required case must not be overwritten by
\* the happy-path recommendation, and runtime-observation strategies must
\* remain runtime-bound" (input_recommend_service, 134): no default, no case of
\* a profile, however often its cases are made again and under whatever policy,
\* and no run enters another value where the scenario's variant has one;
\* except for a field that the user has typed, in the case that is made of what
\* was typed and in the runs that enter it, where the scenario was generated
\* again since, and in the profiles that the workflow itself has made.
VariantIsPinned ==
    /\ \A r \in memory.recs : Current(r) => Agrees(r.body.defaults, {})
    /\ \A p \in memory.profiles : Current(p) /\ p.pinned =>
         \A i \in DOMAIN p.cases :
             Agrees(p.cases[i].inputs,
                    IF p.cases[i].category = "user_override" THEN p.typed ELSE {})
    /\ LET run == memory.run IN
       run # NoCopy => (Current(run) /\ run.pinned => Agrees(run.inputs, run.typed))

\* A profile is approved from its first approval on, whatever is made of its
\* cases since, and its version counts the approvals after the first: batches
\* take approved profiles only, and a user is told of another version; except
\* when two requests were at work at once.
ApprovalStays ==
    past.alone =>
        \A p \in memory.profiles :
            LET approvals == past.approvals[p.id] IN
            /\ p.status = IF approvals = 0 THEN "DRAFT" ELSE "APPROVED"
            /\ p.version = IF approvals = 0 THEN 1 ELSE approvals

=============================================================================
