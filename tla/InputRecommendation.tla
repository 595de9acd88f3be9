------------------------- MODULE InputRecommendation --------------------------
(***************************************************************************)
(* The input_recommend skill: candidates for the inputs of a contract, the *)
(* default of each input, and the cases of a profile; and how the service  *)
(* pins them to the variant of one scenario.  A value is a representative  *)
(* of the values that the code treats alike.                               *)
(***************************************************************************)
EXTENDS Lists, Naturals, FiniteSets, SequencesExt

None == "none"
Happy == "happy_path"
Masked == "***"

\* _category_for_value knows the customers of the fixtures, the restricted ones
\* among them, and two values at a boundary.
Fixtures == {"CUS-1001", "CUS-2002"}
Restricted == {"CUS-2002"}
Customers == Fixtures \cup {"CUS-0000", "CUS-9999"}

\* Patterns: that of a customer's number, and that of an amount.
Accepted == [customer |-> Customers, digits |-> {"1000", "1234567890", "1", "100"}]
Matches(pattern, value) == pattern # None => value \in Accepted[pattern]

Rank == [fixture |-> 1, existing_test |-> 2, schema_validation |-> 3,
         test_data_sheet |-> 4, best_practice_catalog |-> 5, derived_synthetic |-> 7]
CategoryOrder == <<Happy, "business_state", "not_found", "invalid_format",
                   "missing_required", "boundary">>
Place(category) == CHOOSE i \in DOMAIN CategoryOrder : CategoryOrder[i] = category

\* An input of a contract says: its name; whether it is required; its pattern,
\* or None; whether its name is that of a customer's number, of a login, or of
\* personal data; the values of existing tests; the rows of the test data
\* sheet; the entries of the catalogue; the first of its choices, the value
\* that its name suggests and the one that its type suggests, or None.
\* _dedupe_inputs: an input that is declared twice is one, required when one
\* of its declarations says so, with the first pattern that one has.
Merged(inputs, i) ==
    LET same == {j \in DOMAIN inputs : inputs[j].name = inputs[i].name}
        patterns == {j \in same : inputs[j].pattern # None} IN
    [inputs[i] EXCEPT
       !.required = \E j \in same : inputs[j].required,
       !.pattern = IF patterns = {} THEN None ELSE inputs[First(patterns)].pattern]

Deduped(inputs) ==
    Picked([i \in DOMAIN inputs |-> Merged(inputs, i)],
           {i \in DOMAIN inputs : \A j \in 1..(i-1) : inputs[j].name # inputs[i].name})

\* _extract_pattern: an input without a pattern gets the first one that the
\* analyses know, whatever input it belongs to.
PatternOf(input, known) == IF input.pattern # None THEN input.pattern ELSE known

\* Where the values of customers are offered.
AcceptsCustomer(input, pattern) ==
    IF pattern # None THEN Matches(pattern, "CUS-1001") ELSE input.kind = "customer"

CategoryFor(value, pattern) ==
    IF value = "" THEN "missing_required"
    ELSE IF ~Matches(pattern, value) THEN "invalid_format"
    ELSE IF value \in Restricted THEN "business_state"
    ELSE IF value = "CUS-0000" THEN "boundary"
    ELSE IF value \in Customers \ Fixtures THEN "not_found"
    ELSE Happy

\* synthesize_value: the first choice, the value that the name suggests, some
\* value of the pattern, or one for the type; or None.
Synthesized(input, pattern) ==
    IF input.choice # None THEN input.choice
    ELSE IF input.suggested # None /\ Matches(pattern, input.suggested)
        THEN input.suggested
    ELSE IF pattern # None THEN CHOOSE value \in Accepted[pattern] : TRUE
    ELSE input.typed

\* What a source offers for an input.
Offer(source, value, category, review) ==
    [source |-> source, value |-> value, category |-> category, review |-> review]

\* The offers for an input, in the order of their sources, but for a value
\* that is made up.
Offers(input, pattern) ==
    LET found(source, value) == Offer(source, value, CategoryFor(value, pattern), FALSE)
        customer == AcceptsCustomer(input, pattern)
        each(set, make(_)) == SetToSeq({make(x) : x \in set})
    IN  each(IF customer THEN Fixtures ELSE {}, LAMBDA v : found("fixture", v))
     \o each(input.tests, LAMBDA v : found("existing_test", v))
     \o (IF input.required
         THEN <<Offer("schema_validation", "", "missing_required", FALSE)>> ELSE <<>>)
     \o (IF customer /\ pattern # None
         THEN <<Offer("schema_validation", "CUS-AB12", "invalid_format", FALSE),
                Offer("schema_validation", "CUS-0000", "boundary", TRUE)>> ELSE <<>>)
     \o each(input.rows, LAMBDA row : Offer("test_data_sheet", row.value,
                           CategoryFor(row.value, pattern), ~row.approved))
     \o each(input.entries, LAMBDA entry : Offer("best_practice_catalog",
                              entry.value, entry.category, FALSE))

\* add_candidate: the offers of one value in one category are one candidate,
\* with the flags of the first and the best of the ranks.  Personal data are
\* masked, unless they are made up.
Candidate(input, offers, i) ==
    LET o == offers[i]
        same == {j \in DOMAIN offers :
                   offers[j].value = o.value /\ offers[j].category = o.category}
        ranks == {Rank[offers[j].source] : j \in same}
        made == o.source = "derived_synthetic"
    IN [field |-> input.name, category |-> o.category,
        value |-> IF input.kind = "personal" /\ o.value # "" /\ ~made
                    THEN Masked ELSE o.value,
        rank |-> CHOOSE rank \in ranks : \A other \in ranks : rank <= other,
        review |-> o.review,
        uncertain |-> o.review \/ made \/ o.source = "test_data_sheet",
        omit |-> FALSE]

Candidates(input, offers) ==
    Picked([i \in DOMAIN offers |-> Candidate(input, offers, i)],
           {k \in DOMAIN offers :
              \A j \in 1..(k-1) : \/ offers[j].value # offers[k].value
                                 \/ offers[j].category # offers[k].category})

\* By rank, then by category, and otherwise in the order of the offers.
Before(a, b) ==
    \/ a.rank < b.rank
    \/ a.rank = b.rank /\ Place(a.category) < Place(b.category)

Sorted(list) ==
    LET upTo(i) == {j \in DOMAIN list : \/ Before(list[j], list[i])
                                       \/ (j <= i /\ ~Before(list[i], list[j]))} IN
    [n \in DOMAIN list |-> list[CHOOSE i \in DOMAIN list : Cardinality(upTo(i)) = n]]

\* The candidates of an input, in order; a value is made up when none of the
\* others can be entered.
Ordered(input, pattern) ==
    LET offers == Offers(input, pattern)
        runnable == \E c \in ToSet(Candidates(input, offers)) : c.value # ""
        value == Synthesized(input, pattern)
        all == IF runnable \/ value = None THEN offers
               ELSE Append(offers, Offer("derived_synthetic", value, Happy, FALSE))
    IN Sorted(Candidates(input, all))

\* The default of an input: its first happy candidate, or its first.
DefaultOf(ordered) ==
    LET happy == {i \in DOMAIN ordered : ordered[i].category = Happy} IN
    ordered[IF happy = {} THEN 1 ELSE First(happy)].value

\* recommend_inputs.  A login is never recommended.
Recommended(contract, known) ==
    LET inputs == Deduped(contract)
        wanted == Picked(inputs, {i \in DOMAIN inputs : inputs[i].kind # "login"})
        of == [i \in DOMAIN wanted |-> Ordered(wanted[i], PatternOf(wanted[i], known))]
        filled == {i \in DOMAIN wanted : of[i] # <<>>}
    IN [list |-> FlattenSeq(of),
        defaults |-> [name \in {wanted[i].name : i \in filled} |->
                        DefaultOf(of[CHOOSE i \in filled : wanted[i].name = name])],
        needs |-> inputs # <<>>]

-----------------------------------------------------------------------------

\* The values that a variant has, and inputs with what is entered instead.
Values(pins) ==
    LET valued == {i \in DOMAIN pins : pins[i].value # None} IN
    [name \in {pins[i].field : i \in valued} |->
       pins[CHOOSE i \in valued : pins[i].field = name].value]

Entered(inputs, over) ==
    [name \in DOMAIN inputs \cup DOMAIN over |->
       IF name \in DOMAIN over THEN over[name] ELSE inputs[name]]

\* A field that the scenario's variant gives a value, or that is computed
\* while it runs (None), has this as its only candidate, the first of all.
Pinned(pin, category) ==
    [field |-> pin.field, category |-> category, value |-> pin.value, rank |-> 1,
     review |-> FALSE, uncertain |-> FALSE, omit |-> pin.value = None]

\* _scope_to_scenario: each pin is put before all that is there, in their order.
Scoped(rec, scenario) ==
    LET pins == scenario.pins
        fields == {pins[i].field : i \in DOMAIN pins} IN
    [rec EXCEPT
       !.list = [i \in DOMAIN pins |-> Pinned(pins[Len(pins) + 1 - i], scenario.category)]
                  \o Picked(@, {i \in DOMAIN @ : @[i].field \notin fields}),
       !.defaults = Entered([name \in DOMAIN @ \ fields |-> @[name]], Values(pins))]

\* generate_profile_cases: the best candidate of each category makes a case;
\* a policy skips what is uncertain, leaves it to a review or takes the
\* defaults for it.
Best(list, category, policy) ==
    LET fit == {i \in DOMAIN list :
                  /\ list[i].category = category
                  /\ ~(list[i].uncertain /\ policy.unresolved = "skip")}
        first == {i \in fit : \A j \in fit : \/ list[i].rank < list[j].rank
                                             \/ list[i].rank = list[j].rank /\ i <= j}
    IN {list[i] : i \in first}

NoInputs == <<>>

CaseOf(c, rec, policy) ==
    LET review == c.review \/ c.uncertain
        own == IF c.omit THEN NoInputs ELSE [name \in {c.field} |-> c.value]
    IN  IF review /\ policy.unresolved = "usePolicyDefault"
        THEN [category |-> c.category, review |-> FALSE,
              inputs |-> IF DOMAIN rec.defaults = {} THEN own ELSE rec.defaults]
        ELSE [category |-> c.category, review |-> review, inputs |-> own]

Cases(rec, policy) ==
    IF rec.list = <<>> /\ ~rec.needs
    THEN <<[category |-> Happy, review |-> FALSE, inputs |-> NoInputs]>>
    ELSE LET best(category) == Best(rec.list, category, policy)
             chosen == Picked(CategoryOrder,
                              {n \in DOMAIN CategoryOrder : best(CategoryOrder[n]) # {}})
             size == IF Len(chosen) < policy.budget THEN Len(chosen) ELSE policy.budget
         IN [n \in 1..size |->
               CaseOf(CHOOSE c \in best(chosen[n]) : TRUE, rec, policy)]

=============================================================================
