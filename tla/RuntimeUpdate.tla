---------------------------- MODULE RuntimeUpdate ----------------------------
(***************************************************************************)
(* The transactional Runtime updater of plumOS Bubble                      *)
(* (share/update/plumos-system-update.py): its commands apply-pending,     *)
(* mark-healthy and request-latest, one action per durable change they     *)
(* make, so that a power cut can fall between any two of them.             *)
(*                                                                         *)
(* Data abstraction.  A managed path holds a file or nothing; a file is    *)
(* the version of the package that shipped it, and NoFile stands for no    *)
(* file.  A package is identified by its version, a positive number (the   *)
(* SemVer order is the order of numbers).  Path names are model values, so *)
(* the alphabetical part of runtime_sort_key is left open: only its        *)
(* metadata-last part constrains the order of operations.                  *)
(*                                                                         *)
(* last-result.json, the progress pictures and the logs are written and    *)
(* never read by the program; they are left out.                           *)
(***************************************************************************)
EXTENDS Integers, FiniteSets

CONSTANTS
    Paths,        \* managed Runtime paths
    Metadata,     \* METADATA_LAST: VERSION, manifest.json, checksums.sha256
    VersionFile,  \* the path VERSION
    Base,         \* paths of the Runtime the device shipped with
    Packages,     \* packages that can be in the inbox, by version
    Files,        \* Files[k]: paths package k installs
    Deletes,      \* Deletes[k]: paths package k deletes
    Source,       \* Source[k]: version k upgrades from; AnySource is "*"
    IOFaults      \* whether writes of a rollback or of a state file may fail

NoFile == 0
AnySource == 0
NoPackage == 0
BaseVersion == 1
NoPath == "none"

\* validate_manifest, and build-bubble-update-package.py's check of VERSION: a
\* package replaces VERSION and deletes nothing it installs.
ValidManifest(k) == VersionFile \in Files[k] /\ Files[k] \cap Deletes[k] = {}

ASSUME PackageAssumption ==
    /\ Metadata \subseteq Paths
    /\ VersionFile \in Metadata
    /\ NoPath \notin Paths
    /\ Base \subseteq Paths
    /\ VersionFile \in Base
    /\ Packages \subseteq Nat \ {NoPackage, BaseVersion}
    /\ Files \in [Packages -> SUBSET Paths]
    /\ Deletes \in [Packages -> SUBSET Paths]
    /\ Source \in [Packages -> Nat]
    /\ IOFaults \in BOOLEAN
    /\ \A k \in Packages : ValidManifest(k)

Tree == [Paths -> Nat]
Empty == [p \in Paths |-> NoFile]

VARIABLES
    live,      \* the Runtime under PLUMOS_ROOT
    backup,    \* BACKUP_ROOT/files
    staged,    \* STAGING_ROOT/runtime-<version>.partial
    journal,   \* runtime-transaction.json
    pending,   \* runtime-pending.json: the version on probation, or NoPackage
    request,   \* request.json: the requested package, or NoPackage
    inbox,     \* packages in the inbox with the bytes that were signed
    pc,        \* where the command holding update_lock stands; "idle": lock free
    todo,      \* operations the running loop has still to treat
    cur,       \* the operation in the middle of being treated
    resume,    \* what follows the running rollback
    launched,  \* an apply-pending has returned to the launcher since power-on
    before     \* history: the live tree when the journal was last opened

disk == <<live, backup, staged, journal, pending, request>>
vars == <<live, backup, staged, journal, pending, request, inbox, pc, todo, cur, resume, launched, before>>

Statuses == {"none", "applying", "pending_health", "healthy", "rolled_back"}
Journal == [status : Statuses, version : Nat, ops : SUBSET Paths, existed : SUBSET Paths]
NoJournal == [status |-> "none", version |-> NoPackage, ops |-> {}, existed |-> {}]

\* The tree package k turns t into.
Applied(t, k) ==
    [p \in Paths |-> IF p \in Files[k] THEN k
                     ELSE IF p \in Deletes[k] THEN NoFile ELSE t[p]]

Operations(k) == Files[k] \cup Deletes[k]

\* Mutant of NextForward: the sort ignores METADATA_LAST.
NextForwardUnsorted(p) == p \in todo

\* runtime_sort_key: an operation may be treated while no operation of a lower
\* rank remains; rollback goes through the same list backwards.
NextForward(p) == p \in todo /\ (p \in Metadata => todo \subseteq Metadata)
NextBackward(p) == p \in todo /\ (p \notin Metadata => todo \cap Metadata = {})

\* The package lies in the inbox, unchanged since it was signed and requested.
Authentic(k) == k \in inbox

\* current_compatibility: source version, no reinstallation, no downgrade.
Compatible(k) ==
    /\ Source[k] \in {AnySource, live[VersionFile]}
    /\ live[VersionFile] # NoFile
    /\ k > live[VersionFile]

Goto(label) == pc' = label

\* The command ends: update_lock is free and the command's local state is gone.
Release == pc' = "idle" /\ todo' = {} /\ cur' = NoPath

\* apply-pending ends, well or badly; the launcher goes on either way.
EndApply == Release /\ launched' = TRUE

Init ==
    /\ live = [p \in Paths |-> IF p \in Base THEN BaseVersion ELSE NoFile]
    /\ before = live
    /\ backup = Empty
    /\ staged = Empty
    /\ journal = NoJournal
    /\ pending = NoPackage
    /\ request = NoPackage
    /\ inbox \in SUBSET Packages
    /\ pc = "idle"
    /\ todo = {}
    /\ cur = NoPath
    /\ resume = "clean"
    /\ launched = FALSE

-----------------------------------------------------------------------------
(* The user's side: packages come and go, the frontend asks for one.       *)

\* A package is copied into, removed from or altered in the inbox.
ChangeInbox ==
    /\ \E k \in Packages : inbox' \in {inbox \cup {k}, inbox \ {k}}
    /\ inbox' # inbox
    /\ UNCHANGED <<disk, pc, todo, cur, resume, launched, before>>

\* request-latest: the newest compatible package of the inbox; which one is
\* newest is the user's doing.
RequestLatest ==
    /\ pc = "idle"
    /\ \E k \in Packages : Authentic(k) /\ Compatible(k) /\ request' = k
    /\ UNCHANGED <<live, backup, staged, journal, pending, inbox, pc, todo, cur, resume, launched, before>>

-----------------------------------------------------------------------------
(* rollback_runtime.  Progress is read off the target/backup layout.       *)

BeginRollback(then) ==
    /\ Goto("rollback")
    /\ todo' = journal.ops
    /\ cur' = NoPath
    /\ resume' = then

\* A replaced target is removed before its backup is moved back.
RollbackRemove(p) ==
    /\ pc = "rollback"
    /\ NextBackward(p) /\ cur \in {NoPath, p}
    /\ p \in journal.existed /\ backup[p] # NoFile /\ live[p] # NoFile
    /\ live' = [live EXCEPT ![p] = NoFile]
    /\ cur' = p
    /\ UNCHANGED <<backup, staged, journal, pending, request, inbox, pc, todo, resume, launched, before>>

RollbackRestore(p) ==
    /\ pc = "rollback"
    /\ NextBackward(p) /\ cur \in {NoPath, p}
    /\ p \in journal.existed /\ backup[p] # NoFile /\ live[p] = NoFile
    /\ live' = [live EXCEPT ![p] = backup[p]]
    /\ backup' = [backup EXCEPT ![p] = NoFile]
    /\ todo' = todo \ {p}
    /\ cur' = NoPath
    /\ UNCHANGED <<staged, journal, pending, request, inbox, pc, resume, launched, before>>

\* Mutant of RollbackSettle: a target without a backup is always removed.
RollbackSettleRemovesAll(p) ==
    /\ pc = "rollback"
    /\ NextBackward(p) /\ cur = NoPath
    /\ p \in journal.existed => backup[p] = NoFile
    /\ live' = [live EXCEPT ![p] = NoFile]
    /\ todo' = todo \ {p}
    /\ UNCHANGED <<backup, staged, journal, pending, request, inbox, pc, cur, resume, launched, before>>

\* Mutant of RollbackSettle: only replaced files are rolled back.
RollbackSettleKeepsAdded(p) ==
    /\ pc = "rollback"
    /\ NextBackward(p) /\ cur = NoPath
    /\ p \in journal.existed => backup[p] = NoFile
    /\ todo' = todo \ {p}
    /\ UNCHANGED <<disk, inbox, pc, cur, resume, launched, before>>

\* A path the transaction added is removed; one it has not reached, or that
\* is already restored, is left alone.
RollbackSettle(p) ==
    /\ pc = "rollback"
    /\ NextBackward(p) /\ cur = NoPath
    /\ p \in journal.existed => backup[p] = NoFile
    /\ live' = IF p \in journal.existed THEN live ELSE [live EXCEPT ![p] = NoFile]
    /\ todo' = todo \ {p}
    /\ UNCHANGED <<backup, staged, journal, pending, request, inbox, pc, cur, resume, launched, before>>

RollbackClose ==
    /\ pc = "rollback" /\ todo = {}
    /\ journal' = [journal EXCEPT !.status = "rolled_back"]
    /\ Goto("disarm")
    /\ UNCHANGED <<live, backup, staged, pending, request, inbox, todo, cur, resume, launched, before>>

RollbackDisarm ==
    /\ pc = "disarm"
    /\ pending' = NoPackage
    /\ IF resume = "clean" THEN Goto("clean") /\ UNCHANGED <<todo, cur, launched>> ELSE EndApply
    /\ UNCHANGED <<live, backup, staged, journal, request, inbox, resume, before>>

-----------------------------------------------------------------------------
(* apply_pending and apply_runtime.                                        *)

StartApply ==
    /\ pc = "idle"
    /\ Goto("recover")
    /\ UNCHANGED <<disk, inbox, todo, cur, resume, launched, before>>

\* Mutant of Recover: the interrupted-transaction branch is missing.
RecoverPendingOnly ==
    /\ pc = "recover"
    /\ IF pending # NoPackage
       THEN BeginRollback("clean")
       ELSE Goto("clean") /\ UNCHANGED <<todo, cur, resume>>
    /\ UNCHANGED <<disk, inbox, launched, before>>

\* Mutant of Recover: the missing-readiness branch is missing.
RecoverApplyingOnly ==
    /\ pc = "recover"
    /\ IF journal.status = "applying"
       THEN BeginRollback("clean")
       ELSE Goto("clean") /\ UNCHANGED <<todo, cur, resume>>
    /\ UNCHANGED <<disk, inbox, launched, before>>

\* recover_prior_runtime.
Recover ==
    /\ pc = "recover"
    /\ IF pending # NoPackage \/ journal.status = "applying"
       THEN BeginRollback("clean")
       ELSE Goto("clean") /\ UNCHANGED <<todo, cur, resume>>
    /\ UNCHANGED <<disk, inbox, launched, before>>

CleanStaging ==
    /\ pc = "clean"
    /\ staged' = Empty
    /\ IF request = NoPackage THEN EndApply ELSE Goto("verify") /\ UNCHANGED <<todo, cur, launched>>
    /\ UNCHANGED <<live, backup, journal, pending, request, inbox, resume, before>>

\* Hash, signature, manifest and compatibility of the requested package.
Verify ==
    /\ pc = "verify"
    /\ IF Authentic(request) /\ Compatible(request)
       THEN Goto("extract") /\ UNCHANGED <<todo, cur, launched>>
       ELSE EndApply
    /\ UNCHANGED <<disk, inbox, resume, before>>

Extract ==
    /\ pc = "extract"
    /\ staged' = [p \in Paths |-> IF p \in Files[request] THEN request ELSE NoFile]
    /\ Goto("discard")
    /\ UNCHANGED <<live, backup, journal, pending, request, inbox, todo, cur, resume, launched, before>>

\* remove_path(BACKUP_ROOT) unlinks one file after the other.
DiscardBackup(p) ==
    /\ pc = "discard" /\ backup[p] # NoFile
    /\ backup' = [backup EXCEPT ![p] = NoFile]
    /\ UNCHANGED <<live, staged, journal, pending, request, inbox, pc, todo, cur, resume, launched, before>>

\* Mutant of OpenJournal: the plan lists installed files only.
OpenJournalInstallsOnly ==
    /\ pc = "discard" /\ backup = Empty
    /\ journal' = [status |-> "applying", version |-> request, ops |-> Files[request],
                   existed |-> {p \in Operations(request) : live[p] # NoFile}]
    /\ before' = live
    /\ todo' = Operations(request)
    /\ cur' = NoPath
    /\ Goto("move")
    /\ UNCHANGED <<live, backup, staged, pending, request, inbox, resume, launched>>

\* The complete rollback plan is durable before any live path changes.
OpenJournal ==
    /\ pc = "discard" /\ backup = Empty
    /\ journal' = [status |-> "applying", version |-> request, ops |-> Operations(request),
                   existed |-> {p \in Operations(request) : live[p] # NoFile}]
    /\ before' = live
    /\ todo' = Operations(request)
    /\ cur' = NoPath
    /\ Goto("move")
    /\ UNCHANGED <<live, backup, staged, pending, request, inbox, resume, launched>>

\* No space, a package that changed under the reader, a target that is a
\* directory, an I/O error: the command ends before the journal is opened.
FailEarly ==
    /\ pc \in {"extract", "discard"}
    /\ EndApply
    /\ UNCHANGED <<disk, inbox, resume, before>>

MoveToBackup(p) ==
    /\ pc = "move" /\ NextForward(p) /\ p \in journal.existed
    /\ backup' = [backup EXCEPT ![p] = live[p]]
    /\ live' = [live EXCEPT ![p] = NoFile]
    /\ cur' = p
    /\ Goto("place")
    /\ UNCHANGED <<staged, journal, pending, request, inbox, todo, resume, launched, before>>

\* The staged file, if the operation installs one, becomes the target.
Place(p) ==
    /\ \/ pc = "place" /\ cur = p
       \/ pc = "move" /\ NextForward(p) /\ p \notin journal.existed
    /\ IF p \in Files[journal.version]
       THEN /\ live' = [live EXCEPT ![p] = staged[p]]
            /\ staged' = [staged EXCEPT ![p] = NoFile]
       ELSE UNCHANGED <<live, staged>>
    /\ todo' = todo \ {p}
    /\ cur' = NoPath
    /\ Goto("move")
    /\ UNCHANGED <<backup, journal, pending, request, inbox, resume, launched, before>>

\* An exception in the loop (the last fsync included) rolls back and gives the
\* request up for this start.
FailInLoop ==
    /\ pc \in {"move", "place"}
    /\ BeginRollback("fail")
    /\ UNCHANGED <<disk, inbox, launched, before>>

\* An OSError inside a rollback, or from the write of a journal or state file,
\* ends the command where it stands.
FailDeep ==
    /\ IOFaults
    /\ \/ pc \in {"rollback", "disarm", "arm", "consume", "confirm"}
       \/ pc = "move" /\ todo = {}
    /\ EndApply
    /\ UNCHANGED <<disk, inbox, resume, before>>

CloseJournal ==
    /\ pc = "move" /\ todo = {}
    /\ journal' = [journal EXCEPT !.status = "pending_health"]
    /\ Goto("arm")
    /\ UNCHANGED <<live, backup, staged, pending, request, inbox, todo, cur, resume, launched, before>>

ArmProbation ==
    /\ pc = "arm"
    /\ pending' = journal.version
    /\ Goto("consume")
    /\ UNCHANGED <<live, backup, staged, journal, request, inbox, todo, cur, resume, launched, before>>

ConsumeRequest ==
    /\ pc = "consume"
    /\ request' = NoPackage
    /\ staged' = Empty
    /\ EndApply
    /\ UNCHANGED <<live, backup, journal, pending, inbox, resume, before>>

-----------------------------------------------------------------------------
(* mark_healthy: a no-op without runtime-pending.json.                     *)

MarkHealthy ==
    /\ pc = "idle" /\ pending # NoPackage
    /\ journal' = [journal EXCEPT !.status = "healthy"]
    /\ Goto("confirm")
    /\ UNCHANGED <<live, backup, staged, pending, request, inbox, todo, cur, resume, launched, before>>

Confirm ==
    /\ pc = "confirm"
    /\ pending' = NoPackage
    /\ Release
    /\ UNCHANGED <<live, backup, staged, journal, request, inbox, resume, launched, before>>

-----------------------------------------------------------------------------
\* Power is cut: the disk stays as it is, everything else is gone.
Crash ==
    /\ pc # "idle" \/ launched
    /\ Release /\ launched' = FALSE
    /\ UNCHANGED <<disk, inbox, resume, before>>

\* The steps of the command that holds the lock.
Step ==
    \/ \E p \in Paths : RollbackRemove(p) \/ RollbackRestore(p) \/ RollbackSettle(p)
    \/ RollbackClose \/ RollbackDisarm
    \/ Recover \/ CleanStaging \/ Verify \/ Extract
    \/ \E p \in Paths : DiscardBackup(p) \/ MoveToBackup(p) \/ Place(p)
    \/ OpenJournal \/ CloseJournal \/ ArmProbation \/ ConsumeRequest
    \/ Confirm

Fault == FailEarly \/ FailInLoop \/ FailDeep \/ Crash

\* The launcher runs mark-healthy only after an apply-pending has returned.
Next ==
    \/ ChangeInbox \/ RequestLatest
    \/ StartApply \/ (launched /\ MarkHealthy)
    \/ Step \/ Fault

Spec == Init /\ [][Next]_vars

-----------------------------------------------------------------------------
(* Properties.                                                             *)

Labels == {"idle", "recover", "rollback", "disarm", "clean", "verify", "extract",
           "discard", "move", "place", "arm", "consume", "confirm"}

TypeOK ==
    /\ live \in Tree /\ backup \in Tree /\ staged \in Tree /\ before \in Tree
    /\ journal \in Journal
    /\ pending \in Packages \cup {NoPackage}
    /\ request \in Packages \cup {NoPackage}
    /\ inbox \in SUBSET Packages
    /\ pc \in Labels
    /\ todo \in SUBSET Paths
    /\ cur \in Paths \cup {NoPath}
    /\ resume \in {"clean", "fail"}
    /\ launched \in BOOLEAN

\* The next apply-pending will roll back (recover_prior_runtime's condition).
InTransaction == journal.status = "applying" \/ pending # NoPackage

\* What rollback_runtime makes of the live and backup trees as they stand.
RolledBack ==
    [p \in Paths |->
        IF p \notin journal.ops THEN live[p]
        ELSE IF p \notin journal.existed THEN NoFile
        ELSE IF backup[p] # NoFile THEN backup[p] ELSE live[p]]

\* Whatever was replaced, deleted, half restored or interrupted, a rollback of
\* the layout on disk yields exactly the Runtime the transaction started from
\* (apply_runtime, rollback_runtime: "derives per-path progress from the
\* atomic target/backup layout").
NothingLost == InTransaction => RolledBack = before

\* When no rollback is due the live Runtime is one whole version: the one the
\* transaction started from, or that one with the package fully applied.
WholeTree ==
    ~InTransaction =>
        live = IF journal.status \in {"none", "rolled_back"}
               THEN before ELSE Applied(before, journal.version)

\* VERSION names the new version only when every other operation of the
\* package is in place, in both directions (runtime_sort_key, METADATA_LAST).
VersionIsLast ==
    journal.status # "none" /\ live[VersionFile] = journal.version =>
        \A p \in Paths \ Metadata : live[p] = Applied(before, journal.version)[p]

\* A live path changes only while a durable journal that lists it is open, so
\* a failed request, signature or extraction never touches the Runtime.
ChangeOnlyUnderJournal ==
    [][\A p \in Paths : live'[p] # live[p] => InTransaction /\ p \in journal.ops]_vars
=============================================================================
