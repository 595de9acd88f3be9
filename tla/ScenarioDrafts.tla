---------------------------- MODULE ScenarioDrafts ----------------------------
(***************************************************************************)
(* The scenarios that are made of a graph: one for each API that a screen  *)
(* or a call leads to, with variants for the limits of its amount, and one *)
(* for the controls of each screen; then each of them is given the login   *)
(* that it needs, or the trigger without which its route cannot be opened. *)
(*                                                                         *)
(* A source is what the graph has of a call, of an endpoint or of a screen *)
(* with controls: the routes of its screen and of the one that leads to    *)
(* it, the path that it requests, and features that say what the analysis  *)
(* found there.  Titles, selectors, evidence of the running screens and of *)
(* the project's documents, and the order in which scenarios are shown,    *)
(* are left out.                                                           *)
(***************************************************************************)
EXTENDS Lists, FiniteSets, Naturals, SequencesExt

None == "none"
NoAmount == [min |-> FALSE, max |-> None, required |-> FALSE, number |-> FALSE]

If(f, feature, steps) == IF feature \in f.has THEN steps ELSE <<>>

\* The control of another screen that leads to the one of the source.
EntrySteps(f) == IF f.entry = None THEN <<>> ELSE <<"click", "verify_navigation">>

-----------------------------------------------------------------------------
(* generate_scenarios                                                      *)

Nodes(graph, node) == Picked(graph, {i \in DOMAIN graph : graph[i].node = node})
Called(graph) == {graph[i].endpoint : i \in DOMAIN graph}

\* Every call, and the endpoints that no call leads to, when a screen or the
\* form of one does.
Flows(graph) ==
    LET endpoints == Nodes(graph, "endpoint") IN
    Nodes(graph, "call") \o
    Picked(endpoints, {i \in DOMAIN endpoints :
                         /\ endpoints[i].api \notin Called(graph)
                         /\ "screen" \in endpoints[i].has})

\* The first flow of each service, method and path.
Candidates(graph) ==
    LET flows == Flows(graph) IN
    Picked(flows, {i \in DOMAIN flows : \A j \in 1..(i-1) : flows[j].api # flows[i].api})

\* A flow through the form of a screen is a journey.
IsJourney(f) == "form" \in f.has

\* _scenario_from_flow
FlowSteps(f) ==
    <<"navigate">> \o EntrySteps(f)
    \o f.fills \o If(f, "submit", <<"submit">>)
    \o <<"wait_for_response">> \o If(f, "binding", <<"verify_binding">>)

HasAmount(f) == "amount" \in Range(f.fills)

\* _scenario_from_action_journey: the work that a form is for, from the screen
\* it starts on to what it changes there.
JourneySteps(f) ==
    <<"navigate">> \o EntrySteps(f)
    \o If(f, "balance", <<"capture_value">>) \o If(f, "list", <<"capture_collection">>)
    \o If(f, "opener", <<"click">>) \o If(f, "modal", <<"assert_visible">>)
    \o f.fills \o If(f, "submit", <<"submit">>)
    \o <<"wait_for_response">> \o If(f, "destination", <<"verify_destination">>)
    \o If(f, "message", <<"assert_text">>)
    \o (IF HasAmount(f) THEN If(f, "balance", <<"verify_numeric_delta">>) ELSE <<>>)
    \o If(f, "list", <<"verify_collection_change">>)

\* verdictCriteria of a journey, named by the step that observes each.
JourneyCriteria(f) ==
    {"verify_destination", "assert_text", "verify_numeric_delta", "verify_collection_change"}
      \cap Range(JourneySteps(f))

\* expand_evidenced_case_matrix: the variants of a journey that takes an
\* amount, in the order of their case numbers.
Variants(f) ==
    LET a == f.amount IN
    IF ~IsJourney(f) \/ ~HasAmount(f) THEN <<>>
    ELSE (IF a.min THEN <<"minimum_boundary", "below_minimum">> ELSE <<>>)
      \o (IF a.required THEN <<"required_missing">> ELSE <<>>)
      \o (CASE a.max = "number" -> <<"maximum_boundary", "above_maximum">>
            [] a.max = "balance" -> <<"observed_balance_boundary", "above_observed_balance">>
            [] OTHER -> <<>>)
      \o (IF a.number THEN <<"invalid_numeric_format">> ELSE <<>>)

ValidationOnly ==
    {"below_minimum", "required_missing", "above_maximum", "above_observed_balance",
     "invalid_numeric_format"}

Draft(f, kind, seq, variant) ==
    [source |-> f, case |-> [group |-> f.group, kind |-> kind, seq |-> seq],
     variant |-> variant]

Sequel(f) ==
    <<Draft(f, "E2E", 1, None)>>
      \o [i \in DOMAIN Variants(f) |-> Draft(f, "E2E", i + 1, Variants(f)[i])]

\* _scenario_ui_composition, numbered within the group.
UiDrafts(graph) ==
    LET screens == Nodes(graph, "screen") IN
    [i \in DOMAIN screens |->
        Draft(screens[i], "UI",
              Cardinality({j \in 1..i : screens[j].group = screens[i].group}), None)]

\* Without any source a draft is made that says so; it has no case.
Drafts(graph) ==
    FlattenSeq([i \in DOMAIN Candidates(graph) |-> Sequel(Candidates(graph)[i])])
      \o UiDrafts(graph)

-----------------------------------------------------------------------------
(* The steps of a draft: _business_variant, apply_session_precondition.    *)

IsValidation(d) == d.variant \in ValidationOnly

\* A variant for an amount that the screen refuses ends where it is filled in.
UntilAmount(steps) ==
    SubSeq(steps, 1, CHOOSE i \in DOMAIN steps : steps[i] = "amount")

OwnSteps(d) ==
    CASE d.case.kind = "UI" -> <<"navigate", "assert_controls">>
      [] d.case.kind = "E2E" /\ IsValidation(d) ->
           Append(UntilAmount(JourneySteps(d.source)), "assert_invalid")
      [] d.case.kind = "E2E" /\ ~IsValidation(d) ->
           IF IsJourney(d.source) THEN JourneySteps(d.source) ELSE FlowSteps(d.source)

IsLogout(d) == "logout" \in d.source.has
AuthRequired(d) == IsLogout(d) \/ "guarded" \in d.source.has

LoginSteps(auth) ==
    <<"login", "login_id", "login_password", "login_submit">>
      \o (IF "markers" \in auth.has THEN <<"session_check">> ELSE <<>>)

\* _routes_of, in its order: the screen on which the draft says it starts, what
\* it requests, and where its steps navigate to.
Start(d) ==
    IF d.case.kind = "UI" \/ d.source.entry = None THEN d.source.screen ELSE d.source.entry
Routes(d) ==
    LET f == d.source IN
    CASE d.case.kind = "UI" -> <<f.screen>>
      [] d.case.kind = "E2E" /\ IsJourney(f) -> <<Start(d), f.request>>
      [] d.case.kind = "E2E" /\ ~IsJourney(f) -> <<f.screen, f.request, Start(d)>>

\* The first of them that only a POST opens.
Target(d, auth) ==
    LET closed == {i \in DOMAIN Routes(d) : Routes(d)[i] \in auth.postOnly} IN
    IF closed = {} THEN None ELSE Routes(d)[First(closed)]

\* Not looking for the click that submits to it.
MutantDirectEntryBlocked(d, auth) == ~IsValidation(d) /\ Target(d, auth) # None

\* It is to be opened by its trigger, unless a click of the steps submits to
\* just this route, or nothing may be submitted.
DirectEntryBlocked(d, auth) ==
    /\ ~IsValidation(d) /\ Target(d, auth) # None
    /\ ~("submit" \in Range(OwnSteps(d)) /\ d.source.request = Target(d, auth))

\* The steps that go to it are replaced by its trigger, if one was found, which
\* may be in a menu that is opened before.
Triggered(d, auth) ==
    LET target == Target(d, auth) IN
    IF ~DirectEntryBlocked(d, auth) THEN OwnSteps(d)
    ELSE (IF target \in auth.triggers \cap auth.openers THEN <<"click">> ELSE <<>>)
           \o (IF target \in auth.triggers THEN <<"trigger">> ELSE <<>>)
           \o (IF Start(d) = target THEN Tail(OwnSteps(d)) ELSE OwnSteps(d))

Steps(d, auth) ==
    (IF AuthRequired(d) /\ "controls" \in auth.has THEN LoginSteps(auth) ELSE <<>>)
      \o Triggered(d, auth)
      \o (IF IsLogout(d) /\ "markers" \in auth.has THEN <<"logout_effect">> ELSE <<>>)

\* What is said to be missing.
Missing(d, auth) ==
    {m \in {"controls", "markers"} :
        /\ m \notin auth.has /\ AuthRequired(d)
        /\ m = "markers" => "controls" \in auth.has}
      \cup {m \in {"trigger"} :
              DirectEntryBlocked(d, auth) /\ Target(d, auth) \notin auth.triggers}

OwnCriteria(d) ==
    CASE d.case.kind = "UI" -> {"assert_controls"}
      [] d.case.kind = "E2E" /\ IsValidation(d) -> {"assert_invalid"}
      [] d.case.kind = "E2E" /\ ~IsValidation(d) ->
           IF IsJourney(d.source) THEN JourneyCriteria(d.source) ELSE {}

\* _verdict_criteria
Criteria(d, auth) ==
    OwnCriteria(d)
      \cup (IF AuthRequired(d) /\ "markers" \in auth.has THEN {"session_check"} ELSE {})
      \cup (IF IsLogout(d) THEN {"logout_effect"} ELSE {})
      \cup ({"wait_for_response"} \cap Range(OwnSteps(d)))

\* The length of the name, which for a variant ends with a label.
Labelled ==
    [minimum_boundary |-> 12, below_minimum |-> 15, required_missing |-> 14,
     maximum_boundary |-> 12, above_maximum |-> 15, observed_balance_boundary |-> 17,
     above_observed_balance |-> 17, invalid_numeric_format |-> 19]
NameLength(d) ==
    d.source.name + (IF d.variant \in DOMAIN Labelled THEN Labelled[d.variant] ELSE 0)

\* A scenario, as it is stored; a trigger and the click that submits a form
\* each post to a path.
Scenario(d, auth) ==
    [case |-> d.case, validationOnly |-> IsValidation(d), authRequired |-> AuthRequired(d),
     steps |-> Steps(d, auth), criteria |-> Criteria(d, auth), missing |-> Missing(d, auth),
     posts |-> [submit |-> d.source.request, trigger |-> Target(d, auth)],
     evidence |-> d.source.evidence, name |-> NameLength(d)]

-----------------------------------------------------------------------------
(* create_from_graph: of the scenarios with one case identifier, the one   *)
(* with the most steps, then the most evidence, and then the longest name; *)
(* of equals, the first.  What dedupe_scenarios drops before has the case  *)
(* and the request of another, and no two drafts have both.                *)

Better(s, t) ==
    \/ Len(s.steps) > Len(t.steps)
    \/ Len(s.steps) = Len(t.steps) /\ s.evidence > t.evidence
    \/ Len(s.steps) = Len(t.steps) /\ s.evidence = t.evidence /\ s.name > t.name

\* The scenarios that are kept, in the order in which their cases appear.
Kept(scenarios) ==
    LET Of(case) == {i \in DOMAIN scenarios : scenarios[i].case = case}
        Best(case) == scenarios[First({i \in Of(case) :
                        \A j \in Of(case) : ~Better(scenarios[j], scenarios[i])})]
        firsts == Picked(scenarios,
                         {i \in DOMAIN scenarios : i = First(Of(scenarios[i].case))}) IN
    [n \in DOMAIN firsts |-> Best(firsts[n].case)]

Generated(graph, auth) ==
    Kept([i \in DOMAIN Drafts(graph) |-> Scenario(Drafts(graph)[i], auth)])

=============================================================================
