---------------------------- MODULE ModelProfiles ----------------------------
(***************************************************************************)
(* One language model's profile.  Its key is kept in the vault of the      *)
(* operating system, never in the catalog; the profile says whether there  *)
(* is one.  Requests hold the registry's lock from the vault to the        *)
(* catalog; a health check calls the model without it, and then saves the  *)
(* profile that it read.                                                   *)
(***************************************************************************)
EXTENDS Naturals

CONSTANTS
    Secret,         \* API keys, numbers above 0, which stands for no key
    MaxChanges,     \* a bound on the requests
    MaxRestarts     \* a bound on the restarts of the process

VARIABLES
    memory,         \* the profile and the key in memory
    disk,           \* the profile in the catalog, the key in the vault
    thread,         \* the request that holds the lock, and the health check
    past            \* the bounds, and what a property has to remember:
                    \* created, the profile has been: its identifier is fresh
                    \* deleted, it has been
                    \* raced, a health check saved a profile changed since it was read
                    \* leftover, the vault has kept a key: it could not be reached, or
                    \* the creation of the profile was cut off

vars == <<memory, disk, thread, past>>

NoProfile == [exists |-> FALSE, hasApiKey |-> FALSE, version |-> 0]
NoRequest == [request |-> "none", key |-> 0, check |-> NoProfile]

Init ==
    /\ memory = [profile |-> NoProfile, key |-> 0]
    /\ disk = [profile |-> NoProfile, vault |-> 0]
    /\ thread = NoRequest
    /\ past = [changes |-> 0, restarts |-> 0, created |-> FALSE,
               deleted |-> FALSE, raced |-> FALSE, leftover |-> FALSE]

\* The registry's lock.
Unlocked == thread.request = "none"
Requested == Unlocked /\ past.changes < MaxChanges
Holds(request, key) == thread' = [thread EXCEPT !.request = request, !.key = key]
Released == Holds("none", 0)

\* A profile is saved in memory, and in the catalog.
Saves(profile, key) ==
    /\ memory' = [profile |-> profile, key |-> key]
    /\ disk' = [disk EXCEPT !.profile = profile]

\* SystemKeyringModelSecretStore.set: the key is stored, or the request fails
\* and leaves what the vault has become.
VaultSet(request, key) ==
    \E vault \in {disk.vault, key} :
        /\ disk' = [disk EXCEPT !.vault = vault]
        /\ Released \/ (vault = key /\ Holds(request, key))

\* ... and delete: a vault that cannot be reached keeps the key.
VaultDelete(request) ==
    /\ \E vault \in {disk.vault, 0} : disk' = [disk EXCEPT !.vault = vault]
    /\ Holds(request, 0)

Create ==
    /\ Requested /\ ~past.created
    /\ \/ \E key \in Secret : VaultSet("create", key)
       \/ Holds("create", 0) /\ UNCHANGED disk
    /\ past' = [past EXCEPT !.changes = @ + 1, !.created = TRUE,
                            !.leftover = thread'.request = "none" /\ disk'.vault > 0]
    /\ UNCHANGED memory

CreateSaves ==
    /\ thread.request = "create"
    /\ Saves([exists |-> TRUE, hasApiKey |-> thread.key > 0, version |-> past.changes],
             thread.key)
    /\ Released
    /\ UNCHANGED past

\* update, with a key, with an empty key, or with none.
Update ==
    /\ Requested /\ memory.profile.exists
    /\ \/ \E key \in Secret : VaultSet("key", key)
       \/ VaultDelete("noKey")
       \/ Holds("other", 0) /\ UNCHANGED disk
    /\ past' = [past EXCEPT !.changes = @ + 1]
    /\ UNCHANGED memory

\* An empty key does not change what the profile says.
MutantUpdated == [memory.profile EXCEPT !.hasApiKey = @ \/ thread.key > 0,
                                        !.version = past.changes]

\* The profile that an update saves.
Updated == [memory.profile EXCEPT
              !.hasApiKey = IF thread.request = "other" THEN @ ELSE thread.key > 0,
              !.version = past.changes]

UpdateSaves ==
    /\ thread.request \in {"key", "noKey", "other"}
    /\ Saves(Updated, IF thread.request = "other" THEN memory.key ELSE thread.key)
    /\ Released
    /\ UNCHANGED past

Delete ==
    /\ Requested /\ memory.profile.exists
    /\ VaultDelete("delete")
    /\ past' = [past EXCEPT !.changes = @ + 1, !.leftover = disk'.vault > 0]
    /\ UNCHANGED memory

DeleteSaves ==
    /\ thread.request = "delete"
    /\ Saves(NoProfile, 0)
    /\ Released
    /\ past' = [past EXCEPT !.deleted = TRUE, !.raced = FALSE]

-----------------------------------------------------------------------------
(* health_check: a read under the lock, the call of the model, and a save  *)
(* under the lock again.                                                   *)

CheckReads ==
    /\ Unlocked /\ memory.profile.exists /\ ~thread.check.exists
    /\ thread' = [thread EXCEPT !.check = memory.profile]
    /\ UNCHANGED <<memory, disk, past>>

\* The model answers, or does not: the profile that was read is saved.
CheckSaves ==
    /\ Unlocked /\ thread.check.exists
    /\ Saves(thread.check, memory.key)
    /\ thread' = [thread EXCEPT !.check = NoProfile]
    /\ past' = [past EXCEPT !.raced = @ \/ thread.check # memory.profile]

\* load: what the profile says of its key is what the vault has.  Without any
\* profile the models of the settings are created, which are other profiles.
Hydrated(key) ==
    [profile |-> [disk.profile EXCEPT !.hasApiKey = disk.profile.exists /\ key > 0],
     key |-> IF disk.profile.exists THEN key ELSE 0]

\* The vault may not answer.
Restart ==
    /\ past.restarts < MaxRestarts
    /\ \E key \in {0, disk.vault} : memory' = Hydrated(key)
    /\ thread' = NoRequest
    /\ past' = [past EXCEPT
         !.restarts = @ + 1, !.raced = past.deleted /\ disk.profile.exists,
         !.leftover = @ \/ thread.request = "create"]
    /\ UNCHANGED disk

Next ==
    \/ Create \/ CreateSaves \/ Update \/ UpdateSaves \/ Delete \/ DeleteSaves
    \/ CheckReads \/ CheckSaves \/ Restart

Spec == Init /\ [][Next]_vars

-----------------------------------------------------------------------------

\* The key and the profile go together, whatever failed or was cut off between
\* the vault and the catalog.  A profile says that it has a key when the calls
\* of its model carry one, and only then.  One that was deleted does not come
\* back, and its key does not stay in the vault.  Except when a health check
\* saved a profile that had been changed since (health_check, 214), until the
\* next restart; and for the key, when the vault could not be reached, or a
\* creation was cut off.
KeyFollowsProfile ==
    /\ ~past.raced => memory.profile.hasApiKey = (memory.key > 0)
    /\ past.deleted /\ ~past.raced => ~memory.profile.exists /\ ~disk.profile.exists
    /\ ~disk.profile.exists /\ Unlocked /\ ~past.leftover => disk.vault = 0

=============================================================================
