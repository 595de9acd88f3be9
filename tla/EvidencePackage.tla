---------------------------- MODULE EvidencePackage ----------------------------
(***************************************************************************)
(* The evidence package of one run: a directory that finalize empties and  *)
(* fills file by file, and a manifest with the hash of every file, which   *)
(* is written into the directory and saved in the store.  Requests, and    *)
(* the report of the run, may finalize at once; an expired package is      *)
(* deleted; a reader verifies the files against the manifest.              *)
(*                                                                         *)
(* The records of the run stand for all files made of them (scenario,      *)
(* input, events, assertions, network); their version is what the files    *)
(* contain, and a hash is the content.  Masking, text redaction and the    *)
(* snapshots, which are handled as the screenshots are, are left out.      *)
(***************************************************************************)
EXTENDS Naturals

CONSTANTS
    Caller,         \* the threads that finalize or clean up
    MaxVersion,     \* a bound on the versions of the records
    MaxRestarts     \* a bound on the restarts of the process

VARIABLES
    memory,         \* the manifest in the store
    disk,           \* the manifest in the catalog; the files; the manifest.json
    thread,         \* of each caller: its step, and what it has listed
    past            \* the run (takesInput, the number of screenshots, the version of
                    \* its records), the bound, and what a property has to remember:
                    \* overlapped, two callers have been at work at once

vars == <<memory, disk, thread, past>>

Records == 0            \* the files made of the records of the run
Stages == 1..3          \* the screenshots: source, input completed, destination
Artifact == {Records} \cup Stages
NoFiles == [a \in Artifact |-> 0]
NoManifest == [integrity |-> "none", read |-> 0, listed |-> NoFiles]

Free == [step |-> "idle", read |-> 0, listed |-> NoFiles, todo |-> {}]
At(c, step) == thread[c].step = step
Becomes(c, t) == thread' = [thread EXCEPT ![c] = t]

Init ==
    /\ memory = NoManifest
    /\ disk = [catalog |-> NoManifest, files |-> NoFiles, manifest |-> NoManifest]
    /\ thread = [c \in Caller |-> Free]
    /\ \E takesInput \in BOOLEAN, shots \in 0..3 :
         past = [takesInput |-> takesInput, shots |-> shots, version |-> 1,
                 restarts |-> 0, overlapped |-> FALSE]

\* _stage_file_sources: a run that takes input shows its stages one by one;
\* another one shows its first and its last screen.
Sources ==
    IF past.takesInput THEN 1..past.shots
    ELSE IF past.shots = 0 THEN {} ELSE {1, 3}

Expected == IF past.takesInput THEN Stages ELSE {1, 3}

Others(c) == \E d \in Caller \ {c} : ~At(d, "idle")

\* The events, the binding or the record of the run change.
Changes ==
    /\ past.version < MaxVersion
    /\ past' = [past EXCEPT !.version = @ + 1]
    /\ UNCHANGED <<memory, disk, thread>>

\* finalize, or the report of a run that has no manifest.
Begins(c) ==
    /\ At(c, "idle")
    /\ Becomes(c, [Free EXCEPT !.step = "reset"])
    /\ past' = [past EXCEPT !.overlapped = @ \/ Others(c)]
    /\ UNCHANGED <<memory, disk>>

Resets(c) ==
    /\ At(c, "reset")
    /\ disk' = [disk EXCEPT !.files = NoFiles, !.manifest = NoManifest]
    /\ Becomes(c, [thread[c] EXCEPT !.step = "write", !.read = past.version,
                                    !.todo = {Records} \cup Sources])
    /\ UNCHANGED <<memory, past>>

\* The files are written in order, the records first.
NextFile(c) == CHOOSE a \in thread[c].todo : \A b \in thread[c].todo : a <= b

Writes(c) ==
    LET a == NextFile(c) IN
    /\ At(c, "write") /\ thread[c].todo # {}
    /\ disk' = [disk EXCEPT !.files[a] = IF a = Records THEN thread[c].read ELSE 1]
    /\ Becomes(c, [thread[c] EXCEPT !.step = "list"])
    /\ UNCHANGED <<memory, past>>

\* _artifact: size and hash are those of the file that is there now.
Lists(c) ==
    LET a == NextFile(c) IN
    /\ At(c, "list") /\ disk.files[a] # 0
    /\ Becomes(c, [thread[c] EXCEPT !.step = "write", !.listed[a] = disk.files[a],
                                    !.todo = @ \ {a}])
    /\ UNCHANGED <<memory, disk, past>>

Manifest(c) ==
    [integrity |-> IF Expected \subseteq Sources THEN "complete" ELSE "partial",
     read |-> thread[c].read, listed |-> thread[c].listed]

WritesManifest(c) ==
    /\ At(c, "write") /\ thread[c].todo = {}
    /\ disk' = [disk EXCEPT !.manifest = Manifest(c)]
    /\ Becomes(c, [thread[c] EXCEPT !.step = "save"])
    /\ UNCHANGED <<memory, past>>

\* save_evidence_manifest
SavesManifest(c) ==
    /\ At(c, "save")
    /\ memory' = Manifest(c)
    /\ disk' = [disk EXCEPT !.catalog = Manifest(c)]
    /\ Becomes(c, Free)
    /\ UNCHANGED past

\* Something cannot be written, or has been deleted before it is hashed: a
\* manifest that lists nothing is saved, and the files stay.
Fails(c) ==
    LET failed == [NoManifest EXCEPT !.integrity = "partial"] IN
    /\ thread[c].step \in {"reset", "write", "list"}
    /\ memory' = failed
    /\ disk' = [disk EXCEPT !.catalog = failed]
    /\ Becomes(c, Free)
    /\ UNCHANGED past

\* cleanup_expired: the package, and then the manifest in the store.
DeletesPackage(c) ==
    /\ At(c, "idle") /\ memory.integrity # "none"
    /\ disk' = [disk EXCEPT !.files = NoFiles, !.manifest = NoManifest]
    /\ Becomes(c, [Free EXCEPT !.step = "forget"])
    /\ past' = [past EXCEPT !.overlapped = @ \/ Others(c)]
    /\ UNCHANGED memory

DeletesManifest(c) ==
    /\ At(c, "forget")
    /\ memory' = NoManifest
    /\ disk' = [disk EXCEPT !.catalog = NoManifest]
    /\ Becomes(c, Free)
    /\ UNCHANGED past

Restart ==
    /\ past.restarts < MaxRestarts
    /\ memory' = disk.catalog
    /\ thread' = [c \in Caller |-> Free]
    /\ past' = [past EXCEPT !.restarts = @ + 1]
    /\ UNCHANGED disk

Next ==
    \/ Changes \/ Restart
    \/ \E c \in Caller :
         \/ Begins(c) \/ Resets(c) \/ Writes(c) \/ Lists(c)
         \/ WritesManifest(c) \/ SavesManifest(c) \/ Fails(c)
         \/ DeletesPackage(c) \/ DeletesManifest(c)

Spec == Init /\ [][Next]_vars

-----------------------------------------------------------------------------
(* get_manifest and verify                                                 *)

Found == IF memory.integrity = "none" THEN disk.manifest ELSE memory

\* Taking a listed file that is not there for one that has expired.
MutantCorrupted(m) ==
    \E a \in Artifact : m.listed[a] # 0 /\ disk.files[a] \notin {0, m.listed[a]}

\* Files that are listed and missing, or have another hash.
Corrupted(m) == \E a \in Artifact : m.listed[a] # 0 /\ disk.files[a] # m.listed[a]

Reported == IF Corrupted(Found) THEN "corrupted" ELSE Found.integrity

\* A package that is reported complete holds every screenshot the run should
\* have, its records, and no other file: whatever failed, was deleted, was cut
\* off in between or was done at once.  And it has the records as one
\* finalization read them, except when two were at work on the package at once:
\* finalize takes no lock (evidence_package, 66).
CompleteIsWhole ==
    Reported = "complete" =>
        /\ {a \in Artifact : disk.files[a] # 0} = {Records} \cup Expected
        /\ ~past.overlapped => disk.files[Records] = Found.read

=============================================================================
