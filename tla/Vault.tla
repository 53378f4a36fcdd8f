------------------------------- MODULE Vault --------------------------------
(***************************************************************************)
(* core/secret: the encrypted credential store of one core process, over a *)
(* directory of three files (store.id, master.key, secrets.vault).         *)
(*                                                                         *)
(* Every file is written by writeFileAtomic: a temporary file is written   *)
(* and flushed, renamed over the old one, and the directory is flushed.    *)
(* `seen' is the directory as processes see it; `disk' is what a power     *)
(* loss leaves, an earlier state of `seen'.  A killed process loses its    *)
(* memory only.  s.mu is held across a change, so there is one at a time.  *)
(***************************************************************************)
EXTENDS FiniteSets, Naturals

CONSTANTS
    Refs, Materials,  \* valid references and material of an acceptable size
    Ids, Keys,        \* store identifiers and master keys rand may produce
    None,             \* no file, no secret
    MaxSecrets,       \* secrets one store holds
    Fits(_),          \* whether a sealed map is within MaxVaultBytes
    DirSync           \* whether the file system can flush a directory

ASSUME NoneAssumption == None \notin Materials \cup Ids \cup Keys
ASSUME LimitAssumption == MaxSecrets \in Nat
ASSUME SyncAssumption == DirSync \in BOOLEAN

VARIABLES
    seen, disk,   \* the directory: visible, durable
    pc,           \* where the process is
    id, key,      \* s.id, s.key
    items,        \* s.items
    prev,         \* items as they were before the change under way
    job           \* the run of writeFileAtomic under way, or None

vars == <<seen, disk, pc, id, key, items, prev, job>>

Files == {"id", "key", "vault"}
Maps == [Refs -> Materials \cup {None}]
Empty == [r \in Refs |-> None]
Sealed == [key : Keys, id : Ids, items : Maps]
Dirs == [id : Ids \cup {None}, key : Keys \cup {None}, vault : Sealed \cup {None}]
NewDir == [f \in Files |-> None]
Jobs == [file : Files, data : Ids \cup Keys \cup Sealed, phase : {"write", "rename", "sync"}]

\* None is none of the records either.
ASSUME RecordAssumption == None \notin Sealed \cup Jobs \cup [to : Maps, done : BOOLEAN]

VaultTypeOK ==
    /\ seen \in Dirs /\ disk \in Dirs
    /\ pc \in {"down", "id", "key", "vault", "open", "refused", "closed"}
    /\ id \in Ids \cup {None} /\ key \in Keys \cup {None}
    /\ items \in Maps /\ prev \in Maps
    /\ job \in Jobs \cup {None}

Init ==
    /\ seen = NewDir /\ disk = NewDir
    /\ pc = "down" /\ id = None /\ key = None
    /\ items = Empty /\ prev = Empty /\ job = None

-----------------------------------------------------------------------------
(***************************************************************************)
(* writeFileAtomic.                                                        *)
(***************************************************************************)

Write(file, data) == job' = [file |-> file, data |-> data, phase |-> "write"]

\* Open returns an error, or the process is gone: nothing stays in memory.
Forget ==
    /\ pc' = "down" /\ id' = None /\ key' = None
    /\ items' = Empty /\ prev' = Empty /\ job' = None

\* Create, harden, write, flush and close the temporary file.
WriteTemp ==
    /\ job # None /\ job.phase = "write"
    /\ job' = [job EXCEPT !.phase = "rename"]
    /\ UNCHANGED <<seen, disk, pc, id, key, items, prev>>

Rename ==
    /\ job # None /\ job.phase = "rename"
    /\ seen' = [seen EXCEPT ![job.file] = job.data]
    /\ job' = [job EXCEPT !.phase = "sync"]
    /\ UNCHANGED <<disk, pc, id, key, items, prev>>

SyncDirSkipped ==
    /\ job # None /\ job.phase = "sync"
    /\ job' = None /\ prev' = Empty
    /\ pc' = CASE job.file = "id" -> "key"
               [] job.file = "key" -> "vault"
               [] job.file = "vault" -> "open"
    /\ UNCHANGED <<seen, disk, id, key, items>>
\* syncDir answers success even where a directory cannot be flushed; the
\* caller goes on: Open to its next file, a change to its answer.
SyncDir ==
    /\ job # None /\ job.phase = "sync"
    /\ disk' = IF DirSync THEN seen ELSE disk
    /\ job' = None /\ prev' = Empty
    /\ pc' = CASE job.file = "id" -> "key"
               [] job.file = "key" -> "vault"
               [] job.file = "vault" -> "open"
    /\ UNCHANGED <<seen, id, key, items>>

\* Any step up to the rename may fail.  The temporary file is removed; Open
\* gives up, and a change puts memory back to what the file holds.
WriteFailsIgnored ==
    /\ job # None /\ job.phase # "sync"
    /\ items' = IF job.file = "vault" THEN prev ELSE items
    /\ pc' = CASE job.file = "id" -> "key" [] job.file = "key" -> "vault" [] OTHER -> pc
    /\ prev' = Empty /\ job' = None
    /\ UNCHANGED <<seen, disk, id, key>>
WriteFails ==
    /\ job # None /\ job.phase # "sync"
    /\ IF job.file = "vault"
       THEN items' = prev /\ prev' = Empty /\ job' = None /\ UNCHANGED <<pc, id, key>>
       ELSE Forget
    /\ UNCHANGED <<seen, disk>>

-----------------------------------------------------------------------------
(***************************************************************************)
(* Open: the identifier, the master key, then the vault.                   *)
(***************************************************************************)

Start == pc = "down" /\ pc' = "id" /\ UNCHANGED <<seen, disk, id, key, items, prev, job>>

LoadOrCreateID ==
    /\ pc = "id" /\ job = None
    /\ IF seen.id # None THEN id' = seen.id /\ pc' = "key" /\ UNCHANGED job
       ELSE id' \in Ids /\ Write("id", id') /\ UNCHANGED pc
    /\ UNCHANGED <<seen, disk, key, items, prev>>

LoadOrCreateKey ==
    /\ pc = "key" /\ job = None
    /\ IF seen.key # None THEN key' = seen.key /\ pc' = "vault" /\ UNCHANGED job
       ELSE key' \in Keys /\ Write("key", key') /\ UNCHANGED pc
    /\ UNCHANGED <<seen, disk, id, items, prev>>

\* unseal fails its integrity check under another key or another store id.
Unseals(sealed) == sealed.key = key /\ sealed.id = id

Read ==
    /\ pc = "vault" /\ job = None
    /\ IF seen.vault = None THEN pc' = "open" /\ UNCHANGED items
       ELSE IF Unseals(seen.vault)
            THEN pc' = "open" /\ items' = seen.vault.items
            ELSE pc' = "refused" /\ UNCHANGED items
    /\ UNCHANGED <<seen, disk, id, key, prev, job>>

\* A file cannot be read, or rand has no bytes.
OpenFails ==
    /\ pc \in {"id", "key", "vault"} /\ job = None
    /\ Forget
    /\ UNCHANGED <<seen, disk>>

-----------------------------------------------------------------------------
(***************************************************************************)
(* Changes.                                                                *)
(***************************************************************************)

Held(map) == {r \in Refs : map[r] # None}

Changed(map, puts, deletes) ==
    [r \in Refs |-> IF puts[r] # None THEN puts[r]
                    ELSE IF r \in deletes THEN None ELSE map[r]]

\* Memory first, then writeLocked: a map that does not fit is not written.
ChangeTo(next) ==
    /\ Fits(next)
    /\ items' = next /\ prev' = items
    /\ Write("vault", [key |-> key, id |-> id, items |-> next])
    /\ UNCHANGED <<seen, disk, pc, id, key>>

Ready == pc = "open" /\ job = None

Put(r, m) ==
    /\ Ready
    /\ items[r] # None \/ Cardinality(Held(items)) < MaxSecrets
    /\ ChangeTo([items EXCEPT ![r] = m])

Delete(r) ==
    /\ Ready
    /\ items[r] # None
    /\ ChangeTo([items EXCEPT ![r] = None])

ApplyChange(puts, deletes) ==
    /\ Ready
    /\ Cardinality(Held(Changed(items, puts, deletes))) <= MaxSecrets
    /\ ChangeTo(Changed(items, puts, deletes))

Close ==
    /\ Ready
    /\ pc' = "closed" /\ id' = None /\ key' = None /\ items' = Empty
    /\ UNCHANGED <<seen, disk, prev, job>>

\* Get: a credential, nothing under the reference, or a closed store.
Get(r) == IF pc = "closed" THEN "closed" ELSE items[r]

-----------------------------------------------------------------------------
(***************************************************************************)
(* The machine.                                                            *)
(***************************************************************************)

Flush == disk' = seen /\ UNCHANGED <<seen, pc, id, key, items, prev, job>>

Kill == pc # "down" /\ Forget /\ UNCHANGED <<seen, disk>>

PowerLoss == seen' = disk /\ Forget /\ UNCHANGED disk

Next ==
    \/ WriteTemp \/ Rename \/ SyncDir \/ WriteFails
    \/ Start \/ LoadOrCreateID \/ LoadOrCreateKey \/ Read \/ OpenFails
    \/ \E r \in Refs, m \in Materials : Put(r, m)
    \/ \E r \in Refs : Delete(r)
    \/ \E puts \in Maps, deletes \in SUBSET Refs : ApplyChange(puts, deletes)
    \/ Close
    \/ Flush \/ Kill \/ PowerLoss

Spec == Init /\ [][Next]_vars

-----------------------------------------------------------------------------
(***************************************************************************)
(* Properties.                                                             *)
(***************************************************************************)

Contents(dir) == IF dir.vault = None THEN Empty ELSE dir.vault.items

\* Wherever a process was killed or the power failed, also between the three
\* writes that create a store, the next Open does not find a vault that its
\* identifier and master key cannot open.
NeverRefused == pc # "refused"

\* "Failed writes must preserve memory/disk consistency across restarts": with
\* no change under way, Get answers what the vault file holds.
ReadsTheFile ==
    Ready => \A r \in Refs : Get(r) = Contents(seen)[r]

\* The store is the map its callers are promised: changes are whole, a refused
\* one leaves nothing, and where a directory can be flushed an answered one
\* survives a power loss.
Map == INSTANCE SecretMap WITH
    shown <- Contents(seen),
    kept <- Contents(disk),
    asked <- IF job = None \/ job.file # "vault" THEN None
             ELSE [to |-> job.data.items, done |-> job.phase = "sync"],
    up <- pc = "open"

\* The store is that map, through every crash and power loss: what writeLocked
\* answered is durable, and what it refused leaves no trace.
Implements == Map!MapSpec

=============================================================================
