------------------------------ MODULE ApiMapping ------------------------------
(***************************************************************************)
(* Which endpoint of the backend a call of the frontend is mapped to: by   *)
(* its method, and by its path in a normal form.                           *)
(*                                                                         *)
(* A path is [segs, host, slash]: its segments [text, kind], where kind    *)
(* says whether it is "static" or a parameter, written "braced" or in      *)
(* another way ("other"); whether it is written with a host, and with a    *)
(* slash at its end.                                                       *)
(***************************************************************************)
EXTENDS FiniteSetsExt, Sequences, Naturals

\* normalize_path: no host, no slash at the end, every parameter in braces.
Normal(path) ==
    [host |-> FALSE, slash |-> FALSE,
     segs |-> [i \in DOMAIN path.segs |->
                 [path.segs[i] EXCEPT !.kind = IF @ = "static" THEN @ ELSE "braced"]]]

SameStructure(p, q) ==
    /\ Len(p.segs) = Len(q.segs)
    /\ \A i \in DOMAIN p.segs :
         \/ p.segs[i] = q.segs[i]
         \/ p.segs[i].kind = "braced" /\ q.segs[i].kind = "braced"

\* The score of an endpoint for a call, in hundredths.
Score(call, endpoint) ==
    LET p == Normal(call.path)
        q == Normal(endpoint.path) IN
    (IF call.method = endpoint.method THEN 50 ELSE 0)
      + (IF p = q THEN 50 ELSE IF SameStructure(p, q) THEN 35 ELSE 0)

\* The endpoints with the best score, by their places; none, when no endpoint
\* has any score.
Peers(call, endpoints) ==
    LET score == [i \in DOMAIN endpoints |-> Score(call, endpoints[i])] IN
    {i \in DOMAIN endpoints :
        score[i] > 0 /\ \A j \in DOMAIN endpoints : score[j] <= score[i]}

\* The first of the best endpoints is taken, however many there are.
MutantMapped(call, endpoints) ==
    LET peers == Peers(call, endpoints)
        best == IF peers = {} THEN 0 ELSE Score(call, endpoints[Min(peers)])
        row(status, ids) == [method |-> call.method, path |-> Normal(call.path),
                             status |-> status, endpoint |-> ids] IN
    IF best >= 100 THEN row("confirmed", {endpoints[Min(peers)].id})
    ELSE row("unmapped", {})

\* The row of a call: only a single perfect match is confirmed, equally good
\* endpoints are left to a person, whatever their score.
Mapped(call, endpoints) ==
    LET peers == Peers(call, endpoints)
        best == IF peers = {} THEN 0 ELSE Score(call, endpoints[Min(peers)])
        row(status, ids) == [method |-> call.method, path |-> Normal(call.path),
                             status |-> status, endpoint |-> ids] IN
    IF Cardinality(peers) > 1 THEN row("ambiguous", {})
    ELSE IF best >= 100 THEN row("confirmed", {endpoints[i].id : i \in peers})
    ELSE IF best >= 70 THEN row("candidate", {endpoints[i].id : i \in peers})
    ELSE row("unmapped", {})

Mapping(calls, endpoints) == [i \in DOMAIN calls |-> Mapped(calls[i], endpoints)]

=============================================================================
