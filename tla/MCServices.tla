------------------------------ MODULE MCServices ------------------------------
(***************************************************************************)
(* Small instances of the services, for TLC.                               *)
(***************************************************************************)
EXTENDS Services, ScenarioDrafts, TLC

CONSTANTS
    w1, w2,     \* two threads, requests or workflows
    fe, be      \* the two roles of a repository

Two == {w1, w2}
Roles == {fe, be}
Symmetry == Permutations(Two) \cup Permutations(Roles)

\* Runs that ended in every way a driver may report, with at most one of the
\* troubles that decide an outcome or call attention to it, and none when they
\* were cancelled.  A verdict that a step contradicts is looked at with what
\* decides whether it is taken back, and with a criterion undetermined.
Troubles(r) ==
    (IF r.criteria.controls_visible = "met" \/ r.direct THEN {} ELSE {"unmet"})
      \cup (IF r.blocker = "none" THEN {} ELSE {"blocked"})
      \cup (IF r.signal THEN {"signal"} ELSE {})
      \cup (IF r.refused = "no" THEN {} ELSE {"refused"})
      \cup (IF r.stopped = "no" THEN {} ELSE {"stopped"})
      \cup (IF r.network THEN {} ELSE {"unrecorded"})
      \cup (IF r.criteria.other = "absent" THEN {} ELSE {"undetermined"})
Results1 ==
    {r \in [status : {"WAITING_FOR_REVIEW", "AUTO_FAILED", "CANCELLED"},
            verdict : {"none"}, blocker : {"none", "server_error"},
            direct : BOOLEAN, signal : BOOLEAN,
            criteria : [controls_visible : {"met", "not_met"},
                        other : {"absent", "undetermined"}],
            refused : {"no", "named", "http"}, stopped : {"no", "policy"}, network : BOOLEAN] :
        /\ Cardinality(Troubles(r)) <= IF r.status = "CANCELLED" THEN 0 ELSE 1
        /\ r.criteria.controls_visible = "met" => r.direct
        /\ r.direct /\ r.criteria.controls_visible = "not_met" =>
             r.refused = "no" /\ r.stopped = "no" /\ r.network
        /\ r.refused = "named" => r.status = "AUTO_FAILED"}

\* Sources of scenarios: a form on a page that only a POST opens, which posts
\* elsewhere; one that posts to such a route; a logout, which is opened by its
\* trigger; a query that calls one of them; and a screen.
Source(node, api, group, has, routes, fills, amount) ==
    [node |-> node, api |-> api, endpoint |-> None, group |-> group, has |-> has,
     screen |-> routes[1], entry |-> routes[2], request |-> routes[3],
     fills |-> fills, amount |-> amount, evidence |-> 1, name |-> 10]
Form == {"screen", "form", "guarded", "opener", "modal", "submit"}
Deposit == Source("call", "POST deposit", "DEPOSIT", Form \cup {"balance", "list"},
                  <<"/deposit", None, "/api/deposits">>,
                  <<"select", "amount", "fill">>, [NoAmount EXCEPT !.min = TRUE])
Pay == [Source("endpoint", "POST pay", "DEPOSIT", Form, <<"/pay", "/home", "/payment">>,
               <<"amount">>, [NoAmount EXCEPT !.required = TRUE]) EXCEPT !.name = 12]
Logout == Source("endpoint", "POST logout", "LOGOUT", {"screen", "logout"},
                 <<"/logout", None, "/logout">>, <<>>, NoAmount)
Query == [Source("call", "GET list", "LIST", {"screen", "binding"},
                 <<"/list", "/home", "/api/list">>, <<"fill">>, NoAmount)
          EXCEPT !.endpoint = "POST pay"]
Screen == Source("screen", None, "DEPOSIT", {"guarded"}, <<"/deposit", None, None>>,
                 <<>>, NoAmount)
Auth(has, triggers) ==
    [has |-> has, postOnly |-> {"/deposit", "/payment", "/logout"},
     triggers |-> triggers, openers |-> {"/logout"}]
Everything == Auth({"controls", "markers"}, {"/deposit", "/payment", "/logout"})
Graphs1 ==
    {[sources |-> <<Deposit, Screen>>, auth |-> Everything],
     [sources |-> <<Query, Logout, Pay>>, auth |-> Everything],
     [sources |-> <<Pay>>, auth |-> Everything],
     [sources |-> <<Pay, Deposit>>, auth |-> Auth({"controls"}, {})]}

\* Inputs of a contract.
Input(name, kind, required, pattern, suggested) ==
    [name |-> name, kind |-> kind, required |-> required, pattern |-> pattern,
     tests |-> {}, rows |-> {}, entries |-> {}, choice |-> "none",
     suggested |-> suggested, typed |-> "QA-value"]
Form1 ==
    <<Input("amount", "plain", TRUE, "none", "1000"),
      [Input("memo", "personal", FALSE, "none", "none") EXCEPT !.tests = {"010-1234"}],
      Input("password", "login", TRUE, "none", "none"),
      [Input("customerId", "customer", FALSE, "none", "none") EXCEPT
         !.rows = {[value |-> "CUS-9999", approved |-> FALSE]}],
      Input("amount", "plain", FALSE, "digits", "none")>>
CaseVariant(category, pins, textbook) ==
    [category |-> category, pins |-> pins, textbook |-> textbook]
Pin(field, value) == [field |-> field, value |-> value]
CaseVariants ==
    {CaseVariant("boundary", <<>>, TRUE),
     CaseVariant("missing_required", <<Pin("memo", ""), Pin("amount", "none")>>, FALSE)}
NoValues == <<>>
Policy(unresolved, budget) == [unresolved |-> unresolved, budget |-> budget]

\* Analyses of which a graph is composed: paths that are written alike, that are
\* one in the normal form, and that are only of one structure; a probe; a field
\* and a button with the same name and line.
Static(text) == [text |-> text, kind |-> "static"]
PathOf(segs) == [segs |-> segs, host |-> FALSE, slash |-> FALSE]
Home1 == PathOf(<<Static("home")>>)
Pay1 == PathOf(<<Static("payment")>>)
PayTo(name, kind) == PathOf(<<Static("payment"), [text |-> name, kind |-> kind]>>)
Health1 == PathOf(<<Static("health")>>)
Texts(path) == [i \in DOMAIN path.segs |-> path.segs[i].text]
Screens1 == {[route |-> Home1, file |-> "home"], [route |-> Pay1, file |-> "pay"]}
Get(path, from) == [method |-> "GET", path |-> path, from |-> from]
Calls1 == {Get(PayTo("id", "braced"), Home1), Get(PayTo("id", "other"), Home1),
           Get(Pay1, Pay1), Get(Health1, Pay1)}
Served(id, path, request, fields) ==
    [id |-> id, method |-> "GET", path |-> path, request |-> request,
     services |-> <<"pays">>, fields |-> fields, notFound |-> request]
Endpoints1 ==
    {Served(1, PayTo("id", "braced"), TRUE, <<"balance", "name">>),
     Served(2, PayTo("id", "braced"), FALSE, <<"balance">>),
     Served(3, PayTo("no", "braced"), FALSE, <<>>),
     Served(4, [Pay1 EXCEPT !.slash = TRUE], FALSE, <<>>), Served(5, Health1, FALSE, <<>>)}
Fields1 == {[field |-> "amount", line |-> 1, file |-> "home", trigger |-> FALSE],
            [field |-> "amount", line |-> 1, file |-> "pay", trigger |-> TRUE]}

\* The values of the constants.
RecordKey1 == {"project", "set1", "set2", "files", "analysis", "graph", "selection", "scenario", "run"}
Policies1 == {Policy("reviewRequired", 8), Policy("usePolicyDefault", 3)}
Overrides1 == {NoValues, [memo |-> "typed"]}
Links1 == {[selector |-> "nav", to |-> Pay1]}
Events1 == {[label |-> "onClick", line |-> 2, file |-> "home"]}
Rules1 == {[field |-> "amount", kind |-> "regex", file |-> "home"]}
Transitions1 == {[to |-> Pay1, kind |-> "push"]}
Bound1 ==
    [catalog |-> 3, edits |-> 2, edges |-> 2, edgeEdits |-> 3, models |-> 4, plan |-> 2,
     events |-> 3, driver |-> 3, criteria |-> 2, versions |-> 2, reports |-> 2,
     scenarios |-> 3, inputs |-> 3, pipeline |-> 2, items |-> 4, chunks |-> 1,
     restarts |-> 1, modelRestarts |-> 2]

\* Some of what the bounds admit is too much at once: two threads and a restart of
\* these services, of which one thread at a time is looked at after it, and more
\* than six records made by two pipelines, where one makes five at most.
AtMostOne ==
    service \in {"sync", "context", "inputs", "scenarios"} /\ past.restarts > 0 =>
        Cardinality({w \in Actor : thread[w].step # "idle"}) <= 1
AtMostSix == service = "pipeline" => past.ids <= 2 + 6
Small == AtMostOne /\ AtMostSix

=============================================================================
