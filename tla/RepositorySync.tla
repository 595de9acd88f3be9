---------------------------- MODULE RepositorySync ----------------------------
(***************************************************************************)
(* One repository set: the requests that edit it, and the synchronisation, *)
(* which works on a copy of the set read before its lock is taken, fetches *)
(* the repositories of the copy, and saves the copy twice.                 *)
(*                                                                         *)
(* An edit has a number; the number of the edit that gave a repository its *)
(* identifier, or its url, stands for it, 0 when there is no repository.   *)
(* Repositories are on GitHub; the stack, the workspaces shared by commit, *)
(* and tokens are left out.                                                *)
(***************************************************************************)
EXTENDS Naturals

CONSTANTS
    Syncer,         \* the requests that synchronise the set
    Role,           \* RepoRole: a set has one repository of each role
    MaxEdits,       \* a bound on the edits
    MaxRestarts     \* a bound on the restarts of the process

VARIABLES
    memory,         \* the set, its inventory of files, and what it has in the project
    disk,           \* the set in the catalog; and the clones in the workspace
    thread,         \* of each syncer: its step, its copy, what it has synchronised
    past            \* the bounds, and what a property has to remember:
                    \* wanted, the url asked for last, of each role
                    \* raced, roles edited while a syncer held a copy, or lost by a restart
                    \* changed, repositories given another url
                    \* oldFiles, a restart lost the inventory

vars == <<memory, disk, thread, past>>

None == [id |-> 0, url |-> 0, status |-> "none", synced |-> FALSE]
NoFiles == [r \in Role |-> 0]
NewSet == [exists |-> TRUE, status |-> "pending", repos |-> [r \in Role |-> None],
           files |-> NoFiles, journey |-> "pending"]

Free == [step |-> "idle", force |-> FALSE, repos |-> [r \in Role |-> None],
         done |-> {}, files |-> NoFiles]
Becomes(t, s) == thread' = [thread EXCEPT ![t] = s]
Has(repos) == {r \in Role : repos[r].id > 0}

Init ==
    /\ memory = NewSet
    /\ disk = [set |-> NewSet, clone |-> [id \in 1..MaxEdits |-> 0]]
    /\ thread = [t \in Syncer |-> Free]
    /\ past = [edits |-> 0, restarts |-> 0, wanted |-> NoFiles, raced |-> {},
               changed |-> {}, oldFiles |-> FALSE]

-----------------------------------------------------------------------------
(* The edits: of the memory alone.                                         *)

\* Somebody has read the set and will save what was read.
CopyHeld == \E t \in Syncer : thread[t].step \in {"lock", "log", "work"}

Edited(set, rs, wanted) ==
    /\ past.edits < MaxEdits
    /\ memory.exists
    /\ memory' = set
    /\ past' = [past EXCEPT !.edits = @ + 1, !.wanted = wanted,
                            !.raced = IF CopyHeld THEN @ \cup rs ELSE @ \ rs,
                            !.changed = @ \cup {set.repos[r].id : r \in
                              {x \in rs : set.repos[x].url # set.repos[x].id}}]
    /\ UNCHANGED <<disk, thread>>

Number == past.edits + 1
Pending(repos) == [memory EXCEPT !.repos = repos, !.status = "pending"]
Put(r, repo) == [memory.repos EXCEPT ![r] = repo]

\* register and add_repository: a new repository takes the place of the one
\* of its role.
Register(r) ==
    Edited([Pending(Put(r, [None EXCEPT !.id = Number, !.url = Number, !.status = "pending"]))
              EXCEPT !.journey = "pending"],
           {r}, [past.wanted EXCEPT ![r] = Number])

\* update_repository keeps the identifier and the commit.
Update(r) ==
    /\ memory.repos[r].id > 0
    /\ Edited(Pending(Put(r, [memory.repos[r] EXCEPT !.url = Number, !.status = "pending"])),
              {r}, [past.wanted EXCEPT ![r] = Number])

\* delete_repository
Remove(r) ==
    /\ memory.repos[r].id > 0
    /\ Edited(Pending(Put(r, None)), {r}, [past.wanted EXCEPT ![r] = 0])

\* delete_repository_set, with its files; the project's journey stays.
DeleteSet ==
    Edited([NewSet EXCEPT !.exists = FALSE, !.journey = memory.journey], Role, NoFiles)

-----------------------------------------------------------------------------
(* The synchronisation.                                                    *)

\* sync reads the set ...
SyncReads(t, force) ==
    /\ thread[t].step = "idle"
    /\ memory.exists /\ Has(memory.repos) # {}
    /\ Becomes(t, [Free EXCEPT !.step = "lock", !.force = force, !.repos = memory.repos])
    /\ UNCHANGED <<memory, disk, past>>

\* ... and tries the lock of the set: it does not wait for it.
MutantLocked == FALSE
Locked == \E t \in Syncer : thread[t].step \in {"log", "work", "files"}

Busy(t) ==
    /\ thread[t].step = "lock" /\ Locked
    /\ Becomes(t, Free)
    /\ UNCHANGED <<memory, disk, past>>

\* save_set of a copy, which makes the set exist, and persists it.
Saved(status, repos) ==
    [memory EXCEPT !.exists = TRUE, !.status = status, !.repos = repos]

SyncBegins(t) ==
    LET set == Saved("progressing", thread[t].repos) IN
    /\ thread[t].step = "lock" /\ ~Locked
    /\ memory' = [set EXCEPT !.journey = "progressing"]
    /\ disk' = [disk EXCEPT !.set = set]
    /\ Becomes(t, [thread[t] EXCEPT !.step = "log"])
    /\ UNCHANGED past

\* append_log raises when the set has been deleted; the lock is released.
SyncLogs(t) ==
    /\ thread[t].step = "log"
    /\ Becomes(t, IF memory.exists THEN [thread[t] EXCEPT !.step = "work"] ELSE Free)
    /\ UNCHANGED <<memory, disk, past>>

\* A clone stays in the directory of the repository, and is fetched from
\* where it came from; only force removes it.
CloneOf(repo, force) ==
    IF disk.clone[repo.id] = 0 \/ force THEN repo.url ELSE disk.clone[repo.id]

\* _sync_one: the commit found is the one recorded, or a new one; or cloning,
\* fetching or reading fails, twice for the commands that are tried again.
SyncOne(t, r) ==
    LET repo == thread[t].repos[r]
        force == thread[t].force
        clone == CloneOf(repo, force)
        Ends(status, ok) ==
          Becomes(t, [thread[t] EXCEPT
            !.done = @ \cup {r}, !.repos[r].status = status,
            !.repos[r].synced = @ \/ ok, !.files[r] = IF ok THEN clone ELSE 0]) IN
    /\ thread[t].step = "work" /\ r \in Has(thread[t].repos) \ thread[t].done
    /\ \/ /\ \E same \in BOOLEAN :
               Ends(IF same /\ repo.synced /\ ~force THEN "cached" ELSE "complete", TRUE)
          /\ disk' = [disk EXCEPT !.clone[repo.id] = clone]
       \/ /\ Ends("error", FALSE)
          /\ disk' = [disk EXCEPT !.clone[repo.id] = IF force THEN 0 ELSE @]
    /\ UNCHANGED <<memory, past>>

StatusOf(repos) ==
    LET statuses == {repos[r].status : r \in Has(repos)} IN
    IF "error" \in statuses THEN "error"
    ELSE IF statuses = {"cached"} THEN "cached" ELSE "complete"

SyncSaves(t) ==
    LET repos == thread[t].repos
        set == Saved(StatusOf(repos), repos) IN
    /\ thread[t].step = "work" /\ thread[t].done = Has(repos)
    /\ memory' = set
    /\ disk' = [disk EXCEPT !.set = set]
    /\ Becomes(t, [thread[t] EXCEPT !.step = "files"])
    /\ UNCHANGED past

\* Saving the copy once more with its files.
MutantSyncEnds(t) ==
    /\ thread[t].step = "files"
    /\ memory' = [Saved(StatusOf(thread[t].repos), thread[t].repos) EXCEPT
                    !.files = thread[t].files]
    /\ past' = [past EXCEPT !.oldFiles = FALSE]
    /\ Becomes(t, Free)
    /\ UNCHANGED disk

\* set_files and update_project_journey, in memory; the lock is released.
SyncEnds(t) ==
    /\ thread[t].step = "files"
    /\ memory' = [memory EXCEPT !.files = thread[t].files,
                    !.journey = IF StatusOf(thread[t].repos) = "error"
                                THEN "error" ELSE "complete"]
    /\ past' = [past EXCEPT !.oldFiles = FALSE]
    /\ Becomes(t, Free)
    /\ UNCHANGED disk

\* Another operation of the store persists the catalog, this set with it.
PersistCatalog ==
    /\ disk' = [disk EXCEPT !.set = memory]
    /\ UNCHANGED <<memory, thread, past>>

Restart ==
    /\ past.restarts < MaxRestarts
    /\ memory' = disk.set
    /\ thread' = [t \in Syncer |-> Free]
    /\ past' = [past EXCEPT
         !.restarts = @ + 1, !.oldFiles = TRUE,
         !.raced = @ \cup {r \in Role : disk.set.repos[r].url # past.wanted[r]}]
    /\ UNCHANGED disk

Next ==
    \/ \E r \in Role : Register(r) \/ Update(r) \/ Remove(r)
    \/ DeleteSet
    \/ \E t \in Syncer :
         \/ \E force \in BOOLEAN : SyncReads(t, force)
         \/ Busy(t) \/ SyncBegins(t) \/ SyncLogs(t)
         \/ \E r \in Role : SyncOne(t, r)
         \/ SyncSaves(t) \/ SyncEnds(t)
    \/ PersistCatalog \/ Restart

Spec == Init /\ [][Next]_vars

-----------------------------------------------------------------------------

\* Whatever synchronisations run, fail and overlap, the set keeps the
\* repositories as the user registered, changed or removed them last; except
\* those edited while a synchronisation held a copy of the set (sync, 112),
\* or since the catalog was written.
EditsKept ==
    memory.exists =>
        \A r \in Role \ past.raced : memory.repos[r].url = past.wanted[r]

\* When a set is said to be complete, the inventory is that of the
\* repositories it names, all of them, and nothing else; except for one whose
\* url was changed after it was registered, because the clone is fetched from
\* where it came from, and for an inventory lost by a restart, because
\* set_files is not persisted (sync, 180).
InventoryBacked ==
    (/\ memory.exists /\ memory.status \in {"complete", "cached"}
     /\ ~past.oldFiles /\ \A t \in Syncer : thread[t].step # "files")
    => \A r \in Role : memory.repos[r].id \notin past.changed
                         => memory.files[r] = memory.repos[r].url

=============================================================================
