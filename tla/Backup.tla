-------------------------------- MODULE Backup ------------------------------
(***************************************************************************)
(* Backup and restore of a workspace (adapters/filesystem_backup.py, and   *)
(* consistent_backup of adapters/sqlite_catalog_core.py) beside the        *)
(* writers and the maintenance calls of Maintenance.                       *)
(*                                                                         *)
(* A backup holds the write reservation of the catalog from its copy of    *)
(* the catalog to the end: no other call writes to the catalog meanwhile,  *)
(* and one that must gives up.  Files are not reserved: they are published,*)
(* and linked and unlinked by calls that are late, while the trees are     *)
(* read one after the other and the files are copied one by one.           *)
(*                                                                         *)
(* Left out: lengths and digests (a copied file is the file or the copy    *)
(* fails), the two physical forms, and the migration a backup may precede. *)
(***************************************************************************)
EXTENDS Maintenance

VARIABLES
    saving,     \* where the backup under way stands
    saved       \* the backup that was published, or None

backupVars == <<saving, saved>>
allVars == <<vars, backupVars>>

\* Mutant: BEGIN where the code has BEGIN IMMEDIATE keeps no writer out.
Reserved_Deferred == FALSE

Reserved == saving # Idle

\* Nothing but the ordinary work goes on.
Ordinary == ~Reserved /\ saved = None

BackupInit ==
    /\ Init
    /\ saving = Idle
    /\ saved = None

-----------------------------------------------------------------------------
(* The backup.                                                              *)

CatalogNow == [roots |-> roots, holds |-> holds, batches |-> batches]

NoFiles == [t \in Trees |-> [o \in Objects |-> 0]]

\* BEGIN IMMEDIATE, the question for an active operation, and the copy of the
\* catalog: nothing comes between them.
Reserve ==
    /\ Ordinary
    /\ ~Fenced
    /\ saving' = [at |-> "reserved", catalog |-> CatalogNow]
    /\ UNCHANGED <<vars, saved>>

ListActive ==
    /\ saving.at = "reserved"
    /\ saving' = [at |-> "listing", catalog |-> saving.catalog, active |-> files["active"]]
    /\ UNCHANGED <<vars, saved>>

\* The other tree, and the checks: no object in both, none of the roots in
\* neither.
ListQuarantine ==
    LET listed == [active |-> saving.active, quarantine |-> files["quarantine"]]
    IN  /\ saving.at = "listing"
        /\ \A o \in Objects : listed.active[o] = 0 \/ listed.quarantine[o] = 0
        /\ \A o \in roots : listed.active[o] # 0 \/ listed.quarantine[o] # 0
        /\ saving' = [at |-> "copying", catalog |-> saving.catalog,
                      listed |-> listed, copied |-> NoFiles]
        /\ UNCHANGED <<vars, saved>>

ToCopy == {file \in Trees \X Objects :
              /\ saving.listed[file[1]][file[2]] # 0
              /\ saving.copied[file[1]][file[2]] = 0}

\* Active files come first, in their order.
First(t, o) ==
    \A file \in ToCopy : IF file[1] = t THEN o <= file[2] ELSE t = "active"

\* The path must be there and linked from nowhere else; it may be another file
\* with the same bytes by now.
Copy(t, o) ==
    /\ saving.at = "copying"
    /\ <<t, o>> \in ToCopy
    /\ First(t, o)
    /\ files[t][o] # 0
    /\ Single(o)
    /\ saving' = [saving EXCEPT !.copied[t][o] = files[t][o]]
    /\ UNCHANGED <<vars, saved>>

\* The marker COMPLETE is renamed last; with it the copy counts, and the
\* reservation ends whatever happens next.
PublishBackup ==
    /\ saving.at = "copying"
    /\ ToCopy = {}
    /\ saved' = [catalog |-> saving.catalog, files |-> saving.copied]
    /\ saving' = Idle
    /\ UNCHANGED vars

\* A check or a copy that fails, a full disk, the death of the process.
BreakOff ==
    /\ Reserved
    /\ saving' = Idle
    /\ UNCHANGED <<vars, saved>>

\* A call whose write transaction waits for the reservation until it times out.
GiveUp(c) ==
    /\ Reserved
    /\ \/ task[c].at \in {"observed", "claimed"}
       \/ task[c].at = "applying" /\ task[c].todo = {}
    /\ task' = [task EXCEPT ![c] = Idle]
    /\ UNCHANGED <<storage, catalog, writers, crashes, backupVars>>

-----------------------------------------------------------------------------
(* Restore, to a fresh place.  The model goes on in the restored workspace: *)
(* nobody is at work in it, and its files are new ones.  What a copy  *)
(* becomes does not depend on when it is restored, so that the model does   *)
(* it at once or never.  Bound: a restored file is a publication more.      *)

Copied(o) == \E t \in Trees : saved.files[t][o] # 0

RestoreBackup ==
    /\ saved # None
    /\ saved.catalog.roots \subseteq {o \in Objects : Copied(o)}
    /\ \A o \in Objects : Copied(o) => made[o] <= MaxPuts[o]
    /\ made' = [o \in Objects |-> IF Copied(o) THEN made[o] + 1 ELSE made[o]]
    /\ files' = [t \in Trees |-> [o \in Objects |->
                    IF saved.files[t][o] = 0 THEN 0 ELSE made'[o]]]
    /\ aged' = [o \in Objects |-> 0]
    /\ roots' = saved.catalog.roots
    /\ holds' = saved.catalog.holds
    /\ batches' = saved.catalog.batches
    /\ intent' = None
    /\ pending' = {}
    /\ sighted' = {}
    /\ task' = [c \in Calls |-> Idle]
    /\ saving' = Idle
    /\ saved' = None
    /\ UNCHANGED crashes

KeepBackup ==
    /\ saved # None
    /\ saved' = None
    /\ UNCHANGED <<vars, saving>>

-----------------------------------------------------------------------------
\* What needs no write transaction goes on during a backup.  The backup is, as
\* every call, over before anything is a day older.
Unreserved ==
    \/ \E c \in Calls :
          \/ Observe(c) \/ Unlink(c) \/ Crash(c)
          \/ \E o \in Objects :
                FindMoved(c, o) \/ Link(c, o) \/ Remove(c, o) \/ Refused(c, o)
    \/ \E o \in Objects : Publish(o) \/ Verify(o) \/ Abandon(o)
    \/ \E o \in Holdable : SightForHold(o) \/ HoldExpires(o)

BackupNext ==
    \/ Reserve \/ ListActive \/ ListQuarantine \/ PublishBackup \/ BreakOff
    \/ \E t \in Trees, o \in Objects : Copy(t, o)
    \/ \E c \in Calls : GiveUp(c)
    \/ RestoreBackup \/ KeepBackup
    \/ Reserved /\ Unreserved /\ UNCHANGED backupVars
    \/ Ordinary /\ Next /\ UNCHANGED backupVars

BackupSpec == BackupInit /\ [][BackupNext]_allVars

-----------------------------------------------------------------------------
(* Properties.                                                              *)

\* A published copy is a workspace of its own, whatever went on in the trees
\* while it was made: it has bytes for all its catalog refers to, no batch in
\* it is under way, a batch it calls QUARANTINED is all in its quarantine, and
\* nothing else is in there.
BackupIsWhole ==
    saved # None =>
        LET copy == saved.catalog
            aside == {o \in Objects : saved.files["quarantine"][o] # 0}
            waiting == {plan \in DOMAIN copy.batches : copy.batches[plan].state \notin Ended}
        IN  /\ \A o \in copy.roots : Copied(o)
            /\ \A plan \in waiting :
                  copy.batches[plan].state = "QUARANTINED" /\ plan.candidates \subseteq aside
            /\ \A o \in aside : Cardinality({plan \in waiting : o \in plan.candidates}) = 1
=============================================================================
