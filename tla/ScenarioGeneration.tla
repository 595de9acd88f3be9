-------------------------- MODULE ScenarioGeneration --------------------------
(***************************************************************************)
(* The scenarios of one project: requests generate them from a graph, and  *)
(* store them one by one under the identifiers that the cases already      *)
(* have; others make a new version of one, or delete one.                  *)
(***************************************************************************)
EXTENDS ScenarioDrafts

CONSTANTS
    Worker,         \* the requests at work
    Graphs,         \* graphs of the project: their sources, in order, and their
                    \* authContext: what it has of "controls" and "markers", the
                    \* routes that only a POST opens, those that have a trigger, and
                    \* those whose trigger is in a menu
    MaxRequests,    \* a bound on the requests
    MaxRestarts     \* a bound on the restarts of the process

VARIABLES
    memory,         \* the stored scenarios, as a set
    disk,           \* those in the catalog
    thread,         \* of each worker: its step, its drafts, the identifiers of the
                    \* cases it has found, and the scenario it has read
    past            \* the bounds, and what a property has to remember:
                    \* alone, no two requests have been at work at once
                    \* newest, the generation that last stored each case

vars == <<memory, disk, thread, past>>

NoScenario == [id |-> 0, made |-> 0, version |-> 0]
Free == [step |-> "idle", made |-> 0, todo |-> <<>>, found |-> {},
         copy |-> NoScenario]
At(w, step) == thread[w].step = step
Becomes(w, t) == thread' = [thread EXCEPT ![w] = t]

Init ==
    /\ memory = {} /\ disk = {}
    /\ thread = [w \in Worker |-> Free]
    /\ past = [requests |-> 0, restarts |-> 0, alone |-> TRUE, newest |-> {}, ids |-> 0]

Request(w) ==
    /\ At(w, "idle") /\ past.requests < MaxRequests
    /\ past' = [past EXCEPT !.requests = @ + 1,
                            !.alone = @ /\ \A v \in Worker : At(v, "idle")]

\* save_scenario, which looks for nothing.
Saves(s) ==
    /\ memory' = {x \in memory : x.id # s.id} \cup {s}
    /\ disk' = memory'

\* create_from_graph: the workflow makes the drafts, at a time of its own, or
\* fails.
Generate(w, graph) ==
    /\ Request(w)
    /\ \/ Becomes(w, [Free EXCEPT !.step = "list", !.made = past.requests + 1,
                                  !.todo = Generated(graph.sources, graph.auth)])
       \/ UNCHANGED thread
    /\ UNCHANGED <<memory, disk>>

\* Looking only for the rows whose version is the first.
MutantExisting(case) ==
    {s \in memory : /\ s.result.case = case /\ s.version = 1
                    /\ \A x \in memory : x.result.case = case => x.made <= s.made}

\* The newest of the rows that the case has.
Existing(case) ==
    {s \in memory : /\ s.result.case = case
                    /\ \A x \in memory : x.result.case = case => x.made <= s.made}

\* The rows there are, when the drafts have come.
ListsExisting(w) ==
    LET todo == thread[w].todo
        cases == {todo[i].case : i \in DOMAIN todo} IN
    /\ At(w, "list")
    /\ \E found \in SUBSET UNION {Existing(case) : case \in cases} :
         /\ \A case \in cases : Cardinality({s \in found : s.result.case = case})
                                  = IF Existing(case) = {} THEN 0 ELSE 1
         /\ Becomes(w, [thread[w] EXCEPT !.step = "save",
                          !.found = {[case |-> s.result.case, id |-> s.id] : s \in found}])
    /\ UNCHANGED <<memory, disk, past>>

\* A draft is stored under the identifier of its case, or a new one.
Stores(w) ==
    LET t == thread[w]
        d == Head(t.todo)
        found == {f \in t.found : f.case = d.case}
        id == IF found = {} THEN past.ids + 1 ELSE (CHOOSE f \in found : TRUE).id IN
    /\ At(w, "save") /\ t.todo # <<>>
    /\ Saves([id |-> id, result |-> d, made |-> t.made, version |-> 1])
    /\ Becomes(w, IF Len(t.todo) = 1 THEN Free ELSE [t EXCEPT !.todo = Tail(@)])
    /\ past' = [past EXCEPT
         !.ids = IF found = {} THEN @ + 1 ELSE @,
         !.newest = {n \in @ : n.case # d.case} \cup {[case |-> d.case, made |-> t.made]}]

\* add_version reads a scenario ...
VersionReads(w) ==
    /\ Request(w)
    /\ \E s \in memory : Becomes(w, [Free EXCEPT !.step = "version", !.copy = s])
    /\ UNCHANGED <<memory, disk>>

\* ... and saves it.
VersionSaves(w) ==
    /\ At(w, "version")
    /\ Saves([thread[w].copy EXCEPT !.version = @ + 1])
    /\ Becomes(w, Free)
    /\ UNCHANGED past

\* delete, and delete_many one by one.
Delete(w) ==
    /\ Request(w)
    /\ \E s \in memory : memory' = memory \ {s} /\ disk' = memory'
    /\ UNCHANGED thread

Restart ==
    /\ past.restarts < MaxRestarts
    /\ memory' = disk
    /\ thread' = [w \in Worker |-> Free]
    /\ past' = [past EXCEPT !.restarts = @ + 1]
    /\ UNCHANGED disk

Next ==
    \/ \E w \in Worker :
         \/ \E graph \in Graphs : Generate(w, graph)
         \/ ListsExisting(w) \/ Stores(w)
         \/ VersionReads(w) \/ VersionSaves(w) \/ Delete(w)
    \/ Restart

Spec == Init /\ [][Next]_vars

-----------------------------------------------------------------------------

Submissions(steps) == {i \in DOMAIN steps : steps[i] \in {"submit", "trigger"}}
Inputs(steps) == {i \in DOMAIN steps : steps[i] \in {"fill", "select", "amount"}}
Has(steps, step) == step \in Range(steps)

\* Whatever the graph has of forms, routes and the login, a stored scenario is
\* safe to run: one that is only to be refused by the screen submits nothing
\* ("prepending a route trigger here would mutate data before the invalid input
\* is checked", session_precondition, 184); none submits twice to one path, and
\* a form is submitted after its inputs ("do not prepend a second submit before
\* its inputs", 196), also behind the trigger of a route that is not the form's;
\* and, unless something is said to be missing, none that needs a session
\* submits before the session was checked, and every criterion is observed by a
\* step, so that the run can meet it.  A trigger itself is the first of the
\* steps: inputs that follow it are not what it submits.
RowsAreSafeToRun ==
    \A s \in {row.result : row \in memory} :
        LET submissions == Submissions(s.steps) IN
        /\ s.validationOnly => submissions = {} /\ Has(s.steps, "assert_invalid")
        /\ \A i, j \in submissions :
             s.posts[s.steps[i]] = s.posts[s.steps[j]] => i = j
        /\ \A i \in Inputs(s.steps), j \in submissions : s.steps[j] = "submit" => i < j
        /\ s.missing = {} =>
             /\ s.criteria \subseteq Range(s.steps)
             /\ s.authRequired =>
                  \A j \in submissions : \E i \in 1..(j-1) : s.steps[i] = "session_check"

\* "Generating a case of a project again does not pile up a new row: the
\* newest draft is replaced" (scenario_service, 286): a case has one row, with
\* what the last generation made of it, however many generations, from other
\* graphs too, were cut off by a restart in between, and whatever was deleted;
\* except when two requests were at work at once.
RegenerationReplaces ==
    past.alone =>
        \A s \in memory :
            /\ \A x \in memory : x.result.case = s.result.case => x = s
            /\ [case |-> s.result.case, made |-> s.made] \in past.newest

=============================================================================
