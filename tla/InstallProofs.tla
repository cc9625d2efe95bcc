---------------------------- MODULE InstallProofs ----------------------------
(***************************************************************************)
(* Proofs about what is installed on the card: RuntimeUpdate and           *)
(* RuntimeBoot first, StorageProvision in the last part.                   *)
(*                                                                         *)
(* RuntimeUpdate and RuntimeBoot, for every set of paths and packages,     *)
(* every restart limit and any number of power cuts.                       *)
(*                                                                         *)
(* NothingLost is not inductive: that a path still to be moved has its old *)
(* file in place, and that the backup of the path in the middle of an      *)
(* operation is that file, is what carries it through the loop of          *)
(* apply_runtime; that no rollback is due while the backup directory is    *)
(* emptied is what carries it from one transaction to the next.            *)
(*                                                                         *)
(* The supervisor is then shown to drive the updater the way RuntimeUpdate *)
(* assumes (BootSpec implements Spec), so what is proved of it holds on    *)
(* the device.  The two properties of the composition need one fact the    *)
(* updater cannot know: while a launcher is past its apply-pending, no     *)
(* command but a confirmation is under way, so the Runtime the frontend    *)
(* was started on, and proved itself with, is the one still in place.      *)
(***************************************************************************)
EXTENDS RuntimeBoot, StorageProvision, TLAPS

\* The journal on disk is the plan of the package it names, made on before.
JournalInv ==
    /\ journal.status = "none" => journal.ops = {} /\ journal.existed = {}
    /\ journal.status # "none" =>
          /\ journal.version \in Packages
          /\ journal.ops = Operations(journal.version)
          /\ journal.existed = {p \in journal.ops : before[p] # NoFile}
    /\ pending # NoPackage => journal.status # "none" /\ pending = journal.version

\* Where each label of a command stands with respect to the transaction.
LabelInv ==
    /\ pc \in {"clean", "verify", "extract", "discard"} => ~InTransaction
    /\ pc \in {"verify", "extract", "discard"} => request \in Packages
    /\ pc = "rollback" => InTransaction
    /\ pc = "disarm" => journal.status = "rolled_back"
    /\ pc \in {"move", "place"} => journal.status = "applying" /\ pending = NoPackage
    /\ pc = "arm" => journal.status = "pending_health" /\ pending = NoPackage

\* The loop of apply_runtime: what is still to do is untouched, and the path
\* in the middle of its operation has its old file in the backup.
LoopInv ==
    /\ pc \in {"move", "place", "rollback"} => todo \subseteq journal.ops
    /\ pc \in {"move", "place"} =>
          \A p \in todo : p # cur => live[p] = before[p] /\ backup[p] = NoFile
    /\ pc = "move" => cur = NoPath
    /\ pc = "place" =>
          /\ cur \in todo /\ cur \in journal.existed
          /\ backup[cur] = before[cur] /\ live[cur] = NoFile

\* A rollback of the present layout restores before; between closing the
\* journal and arming the probation too, although no rollback is due there.
Covered == InTransaction \/ pc = "arm" => RolledBack = before

SafeInv == TypeOK /\ JournalInv /\ LabelInv /\ LoopInv /\ Covered

LEMMA InitSafe == Init => SafeInv
  <1> SUFFICES ASSUME Init PROVE SafeInv
    OBVIOUS
  <1>1. journal.status = "none" /\ journal.ops = {} /\ journal.existed = {}
    BY DEF Init, NoJournal
  <1>2. live \in Tree /\ backup \in Tree /\ staged \in Tree /\ before \in Tree
    BY DEF Init, Tree, Empty, NoFile, BaseVersion
  <1>3. journal \in Journal
    BY DEF Init, Journal, NoJournal, Statuses, NoPackage
  <1>4. TypeOK
    BY <1>2, <1>3 DEF Init, TypeOK, Labels
  <1> QED
    BY <1>1, <1>4 DEF Init, SafeInv, JournalInv, LabelInv, LoopInv, Covered, InTransaction

LEMMA StepSafe == SafeInv /\ [Next]_vars => SafeInv'
  <1> SUFFICES ASSUME SafeInv, [Next]_vars PROVE SafeInv'
    OBVIOUS
  <1> USE PackageAssumption DEF ValidManifest, SafeInv, TypeOK, JournalInv, LabelInv, LoopInv, Covered, InTransaction,
     Journal, Statuses, Labels, Tree, NoFile, NoPackage, BaseVersion, disk, Goto, Release, EndApply
  <1>1. CASE ChangeInbox
    BY <1>1 DEF ChangeInbox, RolledBack
  <1>2. CASE RequestLatest
    BY <1>2 DEF RequestLatest, RolledBack
  <1>3. CASE StartApply
    BY <1>3 DEF StartApply, RolledBack
  <1>4. CASE MarkHealthy
    BY <1>4 DEF MarkHealthy, RolledBack
  <1>5. ASSUME NEW q \in Paths, RollbackRemove(q) PROVE SafeInv'
    BY <1>5 DEF RollbackRemove, RolledBack, NextBackward
  <1>6. ASSUME NEW q \in Paths, RollbackRestore(q) PROVE SafeInv'
    BY <1>6 DEF RollbackRestore, RolledBack, NextBackward
  <1>7. ASSUME NEW q \in Paths, RollbackSettle(q) PROVE SafeInv'
    <2>1. TypeOK' /\ JournalInv' /\ LabelInv' /\ LoopInv'
      BY <1>7 DEF RollbackSettle, NextBackward
    <2>2. InTransaction /\ q \in Paths
      BY <1>7 DEF RollbackSettle
    <2>3. CASE q \in journal.existed
      BY <1>7, <2>1, <2>2, <2>3 DEF RollbackSettle, RolledBack
    <2>4. CASE q \notin journal.existed
      <3>1. live' = [live EXCEPT ![q] = NoFile] /\ backup' = backup /\ journal' = journal /\ before' = before
        BY <1>7, <2>4 DEF RollbackSettle
      <3>2. q \in journal.ops
        BY <1>7 DEF RollbackSettle, NextBackward
      <3>3. RolledBack' = RolledBack
        BY <3>1, <3>2, <2>4 DEF RolledBack
      <3> QED
        BY <2>1, <2>2, <3>1, <3>3
    <2> QED
      BY <2>3, <2>4
  <1>8. CASE RollbackClose
    BY <1>8 DEF RollbackClose, RolledBack
  <1>9. CASE RollbackDisarm
    BY <1>9 DEF RollbackDisarm, RolledBack
  <1>10. CASE Recover
    BY <1>10 DEF Recover, RolledBack, BeginRollback
  <1>11. CASE CleanStaging
    BY <1>11 DEF CleanStaging, RolledBack, Empty
  <1>12. CASE Verify
    BY <1>12 DEF Verify, RolledBack
  <1>13. CASE Extract
    BY <1>13 DEF Extract, RolledBack
  <1>14. ASSUME NEW q \in Paths, DiscardBackup(q) PROVE SafeInv'
    BY <1>14 DEF DiscardBackup, RolledBack
  <1>15. ASSUME NEW q \in Paths, MoveToBackup(q) PROVE SafeInv'
    BY <1>15 DEF MoveToBackup, RolledBack, NextForward
  <1>16. ASSUME NEW q \in Paths, Place(q) PROVE SafeInv'
    BY <1>16 DEF Place, RolledBack, NextForward
  <1>17. CASE OpenJournal
    BY <1>17 DEF OpenJournal, RolledBack, Operations, Empty
  <1>18. CASE CloseJournal
    BY <1>18 DEF CloseJournal, RolledBack
  <1>19. CASE ArmProbation
    BY <1>19 DEF ArmProbation, RolledBack
  <1>20. CASE ConsumeRequest
    BY <1>20 DEF ConsumeRequest, RolledBack, Empty
  <1>21. CASE Confirm
    BY <1>21 DEF Confirm, RolledBack
  <1>22. CASE FailEarly
    BY <1>22 DEF FailEarly, RolledBack
  <1>23. CASE FailInLoop
    BY <1>23 DEF FailInLoop, RolledBack, BeginRollback
  <1>24. CASE FailDeep
    BY <1>24 DEF FailDeep, RolledBack
  <1>25. CASE Crash
    BY <1>25 DEF Crash, RolledBack
  <1>26. CASE UNCHANGED vars
    BY <1>26 DEF vars, RolledBack
  <1> QED
    BY <1>1, <1>2, <1>3, <1>4, <1>5, <1>6, <1>7, <1>8, <1>9, <1>10, <1>11, <1>12, <1>13, <1>14, <1>15, <1>16, <1>17, <1>18, <1>19, <1>20, <1>21, <1>22, <1>23, <1>24, <1>25, <1>26 DEF Next, Step, Fault

\* NothingLost holds in every reachable state, I/O errors inside rollbacks and
\* state-file writes included.
THEOREM NothingLostHolds == Spec => []NothingLost
  <1>1. SafeInv => NothingLost
    BY DEF SafeInv, Covered, NothingLost
  <1> QED
    BY InitSafe, StepSafe, <1>1, PTL DEF Spec

\* Every variable keeps its type; the probation and the request name packages.
THEOREM TypeCorrect == Spec => []TypeOK
  <1>1. SafeInv => TypeOK
    BY DEF SafeInv
  <1> QED
    BY InitSafe, StepSafe, <1>1, PTL DEF Spec

\* No live path changes outside a durable plan that lists it.
THEOREM ChangeJournalled == Spec => ChangeOnlyUnderJournal
  <1>1. SafeInv /\ [Next]_vars =>
           [\A p \in Paths : live'[p] # live[p] => InTransaction /\ p \in journal.ops]_vars
    <2> SUFFICES ASSUME SafeInv, Next, NEW p \in Paths, live'[p] # live[p]
                 PROVE InTransaction /\ p \in journal.ops
      OBVIOUS
    <2> USE DEF SafeInv, TypeOK, LabelInv, LoopInv, InTransaction, Tree, disk
    <2>1. \E q \in Paths : RollbackRemove(q) \/ RollbackRestore(q) \/ RollbackSettle(q)
                             \/ MoveToBackup(q) \/ Place(q)
      BY DEF Next, Step, Fault, ChangeInbox, RequestLatest, StartApply, MarkHealthy, RollbackClose,
         RollbackDisarm, Recover, CleanStaging, Verify, Extract, DiscardBackup, OpenJournal, CloseJournal,
         ArmProbation, ConsumeRequest, Confirm, FailEarly, FailInLoop, FailDeep, Crash
    <2>2. ASSUME NEW q \in Paths, RollbackRemove(q) \/ RollbackRestore(q) \/ RollbackSettle(q)
          PROVE InTransaction /\ p \in journal.ops
      BY <2>2 DEF RollbackRemove, RollbackRestore, RollbackSettle, NextBackward
    <2>3. ASSUME NEW q \in Paths, MoveToBackup(q) \/ Place(q)
          PROVE InTransaction /\ p \in journal.ops
      BY <2>3 DEF MoveToBackup, Place, NextForward
    <2> QED
      BY <2>1, <2>2, <2>3
  <1> QED
    BY InitSafe, StepSafe, <1>1, PTL DEF Spec, ChangeOnlyUnderJournal

-----------------------------------------------------------------------------
(* WholeTree, when no write of a rollback or of a state file fails.        *)

\* The live tree is the old one with the package applied.
FullyApplied == \A p \in Paths : live[p] = Applied(before, journal.version)[p]

\* The staged payload is complete when the loop starts, every treated path is
\* new in the loop and old again in a rollback, and a Runtime on probation is
\* whole once apply-pending has returned.
WholeInv ==
    /\ pc = "discard" => \A p \in Files[request] : staged[p] = request
    /\ pc \in {"move", "place"} =>
          /\ \A p \in Files[journal.version] : p \in todo => staged[p] = journal.version
          /\ \A p \in Paths : p \notin todo => live[p] = Applied(before, journal.version)[p]
    /\ pc \in {"arm", "consume", "confirm"} =>
          FullyApplied /\ journal.status \in {"pending_health", "healthy"}
    /\ pc = "consume" => pending # NoPackage
    /\ pc = "idle" /\ launched /\ pending # NoPackage => FullyApplied
    /\ pc = "rollback" => \A p \in Paths : p \notin todo => live[p] = before[p]
    /\ pc = "disarm" => \A p \in Paths : live[p] = before[p]
    /\ WholeTree

LEMMA InitWhole == Init => WholeInv
  BY DEF Init, WholeInv, WholeTree, NoJournal, NoPackage

LEMMA StepWhole ==
  ASSUME IOFaults = FALSE, SafeInv, WholeInv, [Next]_vars
  PROVE  WholeInv'
  <1> USE PackageAssumption DEF ValidManifest, SafeInv, TypeOK, JournalInv, LabelInv, LoopInv, Covered, InTransaction,
     WholeInv, WholeTree, FullyApplied, Applied, Journal, Tree, Labels,
     NoFile, NoPackage, disk, Goto, Release, EndApply
  <1>1. CASE ChangeInbox
    BY <1>1 DEF ChangeInbox
  <1>2. CASE RequestLatest
    BY <1>2 DEF RequestLatest
  <1>3. CASE StartApply
    BY <1>3 DEF StartApply
  <1>4. CASE launched /\ MarkHealthy
    BY <1>4 DEF MarkHealthy
  <1>5. ASSUME NEW q \in Paths, RollbackRemove(q) PROVE WholeInv'
    BY <1>5 DEF RollbackRemove, NextBackward, RolledBack
  <1>6. ASSUME NEW q \in Paths, RollbackRestore(q) PROVE WholeInv'
    BY <1>6 DEF RollbackRestore, NextBackward, RolledBack
  <1>7. ASSUME NEW q \in Paths, RollbackSettle(q) PROVE WholeInv'
    BY <1>7 DEF RollbackSettle, NextBackward, RolledBack
  <1>8. CASE RollbackClose
    BY <1>8 DEF RollbackClose
  <1>9. CASE RollbackDisarm
    BY <1>9 DEF RollbackDisarm
  <1>10. CASE Recover
    BY <1>10 DEF Recover, BeginRollback, RolledBack
  <1>11. CASE CleanStaging
    BY <1>11 DEF CleanStaging, Empty
  <1>12. CASE Verify
    BY <1>12 DEF Verify
  <1>13. CASE Extract
    BY <1>13 DEF Extract
  <1>14. ASSUME NEW q \in Paths, DiscardBackup(q) PROVE WholeInv'
    BY <1>14 DEF DiscardBackup
  <1>15. ASSUME NEW q \in Paths, MoveToBackup(q) PROVE WholeInv'
    BY <1>15 DEF MoveToBackup, NextForward
  <1>16. ASSUME NEW q \in Paths, Place(q) PROVE WholeInv'
    <2>1. q \in todo /\ q \in journal.ops /\ journal' = journal /\ before' = before /\ todo' = todo \ {q}
      BY <1>16 DEF Place, NextForward
    <2>2. journal.version \in Packages /\ (q \in Files[journal.version] \/ q \in Deletes[journal.version])
      BY <2>1, <1>16 DEF Operations, Place
    <2>3. CASE q \in Files[journal.version]
      <3>1. live' = [live EXCEPT ![q] = journal.version] /\ staged' = [staged EXCEPT ![q] = NoFile]
        BY <1>16, <2>1, <2>2, <2>3 DEF Place
      <3> QED
        BY <1>16, <2>1, <2>2, <2>3, <3>1 DEF Place
    <2>4. CASE q \notin Files[journal.version]
      <3>1. live' = live /\ staged' = staged /\ live[q] = NoFile
        BY <1>16, <2>1, <2>2, <2>4 DEF Place
      <3> QED
        BY <1>16, <2>1, <2>2, <2>4, <3>1 DEF Place
    <2> QED
      BY <2>3, <2>4
  <1>17. CASE OpenJournal
    BY <1>17 DEF OpenJournal, Operations, Empty
  <1>18. CASE CloseJournal
    BY <1>18 DEF CloseJournal
  <1>19. CASE ArmProbation
    BY <1>19 DEF ArmProbation
  <1>20. CASE ConsumeRequest
    BY <1>20 DEF ConsumeRequest, Empty
  <1>21. CASE Confirm
    BY <1>21 DEF Confirm
  <1>22. CASE FailEarly
    BY <1>22 DEF FailEarly
  <1>23. CASE FailInLoop
    BY <1>23 DEF FailInLoop, BeginRollback, RolledBack
  <1>24. CASE FailDeep
    BY <1>24 DEF FailDeep
  <1>25. CASE Crash
    BY <1>25 DEF Crash
  <1>26. CASE UNCHANGED vars
    BY <1>26 DEF vars
  <1> QED
    BY <1>1, <1>2, <1>3, <1>4, <1>5, <1>6, <1>7, <1>8, <1>9, <1>10, <1>11, <1>12, <1>13, <1>14, <1>15, <1>16, <1>17, <1>18, <1>19, <1>20, <1>21, <1>22, <1>23, <1>24, <1>25, <1>26 DEF Next, Step, Fault

\* When no rollback is due the live Runtime is one whole version, whatever the
\* power does.
THEOREM WholeTreeHolds == (IOFaults = FALSE) => (Spec => []WholeTree)
  <1> SUFFICES ASSUME IOFaults = FALSE PROVE Spec => []WholeTree
    OBVIOUS
  <1>1. SafeInv /\ WholeInv /\ [Next]_vars => WholeInv'
    BY StepWhole
  <1>2. WholeInv => WholeTree
    BY DEF WholeInv
  <1> QED
    BY InitSafe, StepSafe, InitWhole, <1>1, <1>2, PTL DEF Spec
-----------------------------------------------------------------------------
(* VersionIsLast, I/O errors included.  VERSION cannot name the version of *)
(* an open plan by accident: the package that was verified is newer than   *)
(* the VERSION it found, so only placing VERSION, after every path that is *)
(* not metadata, makes the two equal, and rollback undoes VERSION before   *)
(* it touches any of those.                                                *)

VersionInv ==
    /\ pc \in {"extract", "discard"} => request > live[VersionFile] /\ live[VersionFile] # NoFile
    /\ journal.status # "none" => before[VersionFile] \notin {NoFile, journal.version}
    /\ pc = "discard" => \A p \in Files[request] : staged[p] = request
    /\ pc \in {"move", "place"} =>
          /\ \A p \in Files[journal.version] : p \in todo => staged[p] = journal.version
          /\ \A p \in Paths : p \notin todo => live[p] = Applied(before, journal.version)[p]
          /\ VersionFile \notin todo => todo \subseteq Metadata
    /\ pc = "place" /\ cur \in Metadata => todo \subseteq Metadata
    /\ pc = "rollback" /\ VersionFile \notin todo => live[VersionFile] # journal.version
    /\ VersionIsLast

LEMMA InitVersion == Init => VersionInv
  BY DEF Init, VersionInv, VersionIsLast, NoJournal

LEMMA StepVersion == SafeInv /\ VersionInv /\ [Next]_vars => VersionInv'
  <1> SUFFICES ASSUME SafeInv, VersionInv, [Next]_vars PROVE VersionInv'
    OBVIOUS
  <1> USE PackageAssumption DEF ValidManifest, SafeInv, TypeOK, JournalInv, LabelInv, LoopInv, Covered, InTransaction,
     VersionInv, VersionIsLast, Applied, Journal, Tree, Labels,
     NoFile, NoPackage, disk, Goto, Release, EndApply
  <1>1. CASE ChangeInbox
    BY <1>1 DEF ChangeInbox
  <1>2. CASE RequestLatest
    BY <1>2 DEF RequestLatest
  <1>3. CASE StartApply
    BY <1>3 DEF StartApply
  <1>4. CASE launched /\ MarkHealthy
    BY <1>4 DEF MarkHealthy
  <1>5. ASSUME NEW q \in Paths, RollbackRemove(q) PROVE VersionInv'
    BY <1>5 DEF RollbackRemove, NextBackward, RolledBack
  <1>6. ASSUME NEW q \in Paths, RollbackRestore(q) PROVE VersionInv'
    BY <1>6 DEF RollbackRestore, NextBackward, RolledBack
  <1>7. ASSUME NEW q \in Paths, RollbackSettle(q) PROVE VersionInv'
    BY <1>7 DEF RollbackSettle, NextBackward, RolledBack
  <1>8. CASE RollbackClose
    BY <1>8 DEF RollbackClose
  <1>9. CASE RollbackDisarm
    BY <1>9 DEF RollbackDisarm
  <1>10. CASE Recover
    BY <1>10 DEF Recover, BeginRollback, Operations
  <1>11. CASE CleanStaging
    BY <1>11 DEF CleanStaging, Empty
  <1>12. CASE Verify
    BY <1>12 DEF Verify, Compatible
  <1>13. CASE Extract
    BY <1>13 DEF Extract
  <1>14. ASSUME NEW q \in Paths, DiscardBackup(q) PROVE VersionInv'
    BY <1>14 DEF DiscardBackup
  <1>15. ASSUME NEW q \in Paths, MoveToBackup(q) PROVE VersionInv'
    BY <1>15 DEF MoveToBackup, NextForward
  <1>16. ASSUME NEW q \in Paths, Place(q) PROVE VersionInv'
    <2>1. q \in todo /\ q \in journal.ops /\ journal' = journal /\ before' = before /\ todo' = todo \ {q}
      BY <1>16 DEF Place, NextForward
    <2>2. /\ journal.version \in Packages
          /\ q \in Files[journal.version] \/ q \in Deletes[journal.version]
          /\ VersionFile \in Files[journal.version] /\ VersionFile \notin Deletes[journal.version]
      BY <2>1, <1>16 DEF Operations, Place
    <2>3. q \in Metadata => todo \subseteq Metadata
      BY <1>16 DEF Place, NextForward
    <2>4. CASE q \in Files[journal.version]
      <3>1. live' = [live EXCEPT ![q] = journal.version] /\ staged' = [staged EXCEPT ![q] = NoFile]
        BY <1>16, <2>1, <2>2, <2>4 DEF Place
      <3>2. \A p \in Paths : p \notin todo' => live'[p] = Applied(before, journal.version)[p]
        BY <1>16, <2>1, <2>2, <2>4, <3>1 DEF Place
      <3> QED
        BY <1>16, <2>1, <2>2, <2>3, <2>4, <3>1, <3>2 DEF Place
    <2>5. CASE q \notin Files[journal.version]
      <3>1. live' = live /\ staged' = staged /\ live[q] = NoFile
        BY <1>16, <2>1, <2>2, <2>5 DEF Place
      <3>2. \A p \in Paths : p \notin todo' => live'[p] = Applied(before, journal.version)[p]
        BY <1>16, <2>1, <2>2, <2>5, <3>1 DEF Place
      <3> QED
        BY <1>16, <2>1, <2>2, <2>3, <2>5, <3>1, <3>2 DEF Place
    <2> QED
      BY <2>4, <2>5
  <1>17. CASE OpenJournal
    BY <1>17 DEF OpenJournal, Operations, Empty
  <1>18. CASE CloseJournal
    BY <1>18 DEF CloseJournal
  <1>19. CASE ArmProbation
    BY <1>19 DEF ArmProbation
  <1>20. CASE ConsumeRequest
    BY <1>20 DEF ConsumeRequest, Empty
  <1>21. CASE Confirm
    BY <1>21 DEF Confirm
  <1>22. CASE FailEarly
    BY <1>22 DEF FailEarly
  <1>23. CASE FailInLoop
    BY <1>23 DEF FailInLoop, BeginRollback, Operations
  <1>24. CASE FailDeep
    BY <1>24 DEF FailDeep
  <1>25. CASE Crash
    BY <1>25 DEF Crash
  <1>26. CASE UNCHANGED vars
    BY <1>26 DEF vars
  <1> QED
    BY <1>1, <1>2, <1>3, <1>4, <1>5, <1>6, <1>7, <1>8, <1>9, <1>10, <1>11, <1>12, <1>13, <1>14, <1>15, <1>16, <1>17, <1>18, <1>19, <1>20, <1>21, <1>22, <1>23, <1>24, <1>25, <1>26 DEF Next, Step, Fault

\* VERSION never names a version whose other files are not all in place, I/O
\* errors inside rollbacks and state-file writes included.
THEOREM VersionIsLastHolds == Spec => []VersionIsLast
  <1>1. VersionInv => VersionIsLast
    BY DEF VersionInv
  <1> QED
    BY InitSafe, StepSafe, InitVersion, StepVersion, <1>1, PTL DEF Spec

-----------------------------------------------------------------------------
(* The updater under PID 1's supervision.                                  *)

\* The locked command and PID 1: apply-pending runs only while the launcher
\* waits for it, and whoever confirms follows one that has returned.
TurnInv ==
    /\ sup \in {"off", "boot", "start", "apply", "launch", "fe", "console"}
    /\ watching \in Nat
    /\ confirming \in [Versions -> Nat]
    /\ sup = "apply" <=> pc \notin {"idle", "confirm"}
    /\ pc = "idle" => todo = {} /\ cur = NoPath
    /\ pc = "confirm" \/ watching > 0 \/ (\E v \in Versions : confirming[v] > 0) => launched
    /\ sup = "launch" /\ pending # NoPackage /\ Present(RequiredByLauncher) => launched

LEMMA InitTurn == BootInit => TurnInv
  BY DEF BootInit, Init, TurnInv, NoPackage, NobodyConfirms

\* What the locked command can do outside apply-pending: end a confirmation.
LEMMA QuietStep ==
  ASSUME TypeOK, pc \in {"idle", "confirm"}, Step \/ FailEarly \/ FailInLoop \/ FailDeep
  PROVE  /\ pc = "confirm"
         /\ Confirm \/ (IOFaults /\ EndApply /\ UNCHANGED <<disk, inbox, resume, before>>)
  <1>1. CASE Step
    <2>1. Confirm
      BY <1>1 DEF Step, RollbackRemove, RollbackRestore, RollbackSettle, RollbackClose, RollbackDisarm,
         Recover, CleanStaging, Verify, Extract, DiscardBackup, MoveToBackup, Place, OpenJournal,
         CloseJournal, ArmProbation, ConsumeRequest
    <2> QED
      BY <2>1 DEF Confirm
  <1>2. CASE FailEarly \/ FailInLoop
    BY <1>2 DEF FailEarly, FailInLoop
  <1>3. CASE FailDeep
    <2>1. pc = "confirm"
      BY <1>3 DEF FailDeep
    <2> QED
      BY <1>3, <2>1, Zenon DEF FailDeep
  <1> QED
    BY <1>1, <1>2, <1>3

\* What a step of apply-pending can do: go on, or end with the launcher told.
LEMMA ApplyStep ==
  ASSUME TypeOK, pc \notin {"idle", "confirm"}, Step \/ FailEarly \/ FailInLoop \/ FailDeep
  PROVE  /\ pc' # "confirm"
         /\ launched' = launched \/ launched' = TRUE
         /\ pc' = "idle" => EndApply
  <1> USE DEF Goto, EndApply, Release, BeginRollback, TypeOK, Labels
  <1>1. CASE Step
    BY <1>1 DEF Step, RollbackRemove, RollbackRestore, RollbackSettle, RollbackClose, RollbackDisarm,
       Recover, CleanStaging, Verify, Extract, DiscardBackup, MoveToBackup, Place, OpenJournal,
       CloseJournal, ArmProbation, ConsumeRequest, Confirm
  <1>2. CASE FailEarly \/ FailInLoop \/ FailDeep
    BY <1>2 DEF FailEarly, FailInLoop, FailDeep
  <1> QED
    BY <1>1, <1>2

\* Every step of the supervised system is a step of the updater or leaves its
\* variables alone.
LEMMA StepRefines == TypeOK /\ TurnInv /\ [BootNext]_allVars => [Next]_vars
  <1> SUFFICES ASSUME TypeOK, TurnInv, [BootNext]_allVars PROVE [Next]_vars
    OBVIOUS
  <1>1. CASE StartLauncher
    BY <1>1 DEF StartLauncher, Next
  <1>2. CASE UpdaterStep
    BY <1>2 DEF UpdaterStep, Next, Fault
  <1>3. ASSUME NEW v \in Versions, WatcherConfirms(v) PROVE [Next]_vars
    BY <1>3 DEF WatcherConfirms, Next, TurnInv
  <1>4. CASE RequestUpdate
    BY <1>4 DEF RequestUpdate, Next
  <1>5. CASE ReceivePackage
    BY <1>5 DEF ReceivePackage, Next
  <1>6. ASSUME PowerGone PROVE [Next]_vars
    <2>1. CASE pc # "idle" \/ launched
      BY <1>6, <2>1 DEF PowerGone, Next, Fault, Crash
    <2>2. CASE pc = "idle" /\ ~launched
      BY <1>6, <2>2 DEF PowerGone, Release, TurnInv, TypeOK, vars, disk
    <2> QED
      BY <2>1, <2>2
  <1>7. CASE SwitchOff \/ PowerCut
    BY <1>6, <1>7 DEF SwitchOff, PowerCut
  <1>8. CASE PowerOn \/ CheckAppLayer \/ LaunchFrontend \/ FrontendReady \/ WatcherSees
             \/ WatcherGivesUp \/ FrontendExit
    BY <1>8 DEF PowerOn, CheckAppLayer, LaunchFrontend, FrontendReady, WatcherSees, WatcherGivesUp,
       FrontendExit
  <1>9. CASE UNCHANGED allVars
    BY <1>9 DEF allVars
  <1> QED
    BY <1>1, <1>2, <1>3, <1>4, <1>5, <1>7, <1>8, <1>9 DEF BootNext

LEMMA StepTurn == SafeInv /\ TurnInv /\ [BootNext]_allVars => TurnInv'
  <1> SUFFICES ASSUME SafeInv, TurnInv, [BootNext]_allVars PROVE TurnInv'
    OBVIOUS
  <1> USE DEF SafeInv, TypeOK, TurnInv, Labels, Present, vars, disk, bootVars, watchVars
  <1>1. CASE PowerOn \/ CheckAppLayer
    BY <1>1 DEF PowerOn, CheckAppLayer
  <1>2. CASE StartLauncher
    BY <1>2 DEF StartLauncher, StartApply, Goto
  <1>3. CASE UpdaterStep
    <2>1. CASE sup = "apply"
      <3>1. TypeOK /\ pc \notin {"idle", "confirm"} /\ (Step \/ FailEarly \/ FailInLoop \/ FailDeep)
        BY <1>3, <2>1 DEF UpdaterStep
      <3>2. pc' # "confirm" /\ (launched' = launched \/ launched' = TRUE) /\ (pc' = "idle" => EndApply)
        BY <3>1, ApplyStep
      <3> QED
        BY <1>3, <2>1, <3>1, <3>2 DEF UpdaterStep, EndApply, Release
    <2>2. CASE sup # "apply"
      <3>1. TypeOK /\ pc \in {"idle", "confirm"} /\ (Step \/ FailEarly \/ FailInLoop \/ FailDeep)
        BY <1>3, <2>2 DEF UpdaterStep
      <3>2. /\ pc = "confirm"
            /\ Confirm \/ (IOFaults /\ EndApply /\ UNCHANGED <<disk, inbox, resume, before>>)
        BY <3>1, QuietStep
      <3> QED
        BY <1>3, <2>2, <3>2 DEF UpdaterStep, Confirm, EndApply, Release
    <2> QED
      BY <2>1, <2>2
  <1>4. CASE LaunchFrontend
    BY <1>4 DEF LaunchFrontend
  <1>5. CASE FrontendReady
    BY <1>5 DEF FrontendReady
  <1>6. CASE WatcherSees
    <2> DEFINE v == live[VersionFile]
    <2>1. confirming' = [confirming EXCEPT ![v] = @ + 1] /\ launched
      BY <1>6 DEF WatcherSees
    <2>2. confirming' \in [Versions -> Nat]
      <3>1. \A n \in Nat : n + 1 \in Nat
        OBVIOUS
      <3> QED
        BY <2>1, <3>1
    <2> QED
      BY <1>6, <2>1, <2>2 DEF WatcherSees
  <1>13. ASSUME NEW v \in Versions, WatcherConfirms(v) PROVE TurnInv'
    <2>1. /\ confirming[v] > 0 /\ launched /\ watching' = watching /\ sup' = sup
          /\ confirming' = [confirming EXCEPT ![v] = @ - 1]
      BY <1>13 DEF WatcherConfirms
    <2>2. confirming' \in [Versions -> Nat]
      BY <2>1
    <2>3. CASE UNCHANGED vars
      BY <2>1, <2>2, <2>3
    <2>4. CASE MarkHealthy
      <3>1. /\ pc = "idle" /\ pc' = "confirm"
            /\ UNCHANGED <<live, pending, todo, cur, launched>>
        BY <2>4 DEF MarkHealthy, Goto
      <3> QED
        BY <2>1, <2>2, <3>1
    <2> QED
      BY <1>13, <2>3, <2>4 DEF WatcherConfirms
  <1>7. CASE WatcherGivesUp
    BY <1>7 DEF WatcherGivesUp
  <1>8. CASE FrontendExit
    BY <1>8 DEF FrontendExit
  <1>9. CASE RequestUpdate
    BY <1>9 DEF RequestUpdate, RequestLatest
  <1>10. CASE ReceivePackage
    BY <1>10 DEF ReceivePackage, ChangeInbox
  <1>11. CASE SwitchOff \/ PowerCut
    BY <1>11 DEF SwitchOff, PowerCut, PowerGone, Release, NobodyConfirms
  <1>12. CASE UNCHANGED allVars
    BY <1>12 DEF allVars
  <1> QED
    BY <1>1, <1>2, <1>3, <1>4, <1>5, <1>6, <1>7, <1>8, <1>9, <1>10, <1>11, <1>12, <1>13 DEF BootNext

LEMMA SafeImpliesType == SafeInv => TypeOK
  BY DEF SafeInv

\* PID 1, the launcher and its watchers use the updater as RuntimeUpdate says:
\* one command at a time, mark-healthy only after an apply-pending returned,
\* and a power cut that leaves the disk as it is.
THEOREM BootImplementsUpdate == BootSpec => Spec
  <1>1. BootInit => Init
    BY DEF BootInit
  <1> QED
    BY <1>1, InitSafe, InitTurn, StepSafe, StepTurn, StepRefines, SafeImpliesType, PTL DEF BootSpec, Spec

-----------------------------------------------------------------------------
(* ConfirmedWorks and FrontendSeesWholeTree.                               *)

\* The ready file was written by the frontend of the live Runtime, and a
\* mark-healthy that was started followed a frame of the Runtime it is counted
\* under.
DrawInv ==
    /\ ready => sup \in {"fe", "console"} /\ CanDraw
    /\ \A v \in Versions : confirming[v] > 0 => v \in Works \cup {NoFile}
    /\ ConfirmedWorks

\* A launcher that can run the updater starts its frontend on a whole Runtime.
LaunchInv == sup \in {"launch", "fe"} => Whole \/ ~Present(RequiredByLauncher)

LEMMA InitLaunch == BootInit => DrawInv /\ LaunchInv
  BY DEF BootInit, Init, DrawInv, LaunchInv, ConfirmedWorks, NoJournal, NobodyConfirms

\* apply-pending never ends with its plan open when the writes succeed.
LEMMA ApplyEndsWhole ==
  ASSUME IOFaults = FALSE, SafeInv, WholeInv, SafeInv', WholeInv', sup = "apply", TurnInv,
         Step \/ FailEarly \/ FailInLoop \/ FailDeep, pc' = "idle"
  PROVE  Whole'
  <1>1. launched'
    BY ApplyStep DEF EndApply, SafeInv, TurnInv
  <1>2. journal'.status # "applying"
    BY DEF Step, RollbackRemove, RollbackRestore, RollbackSettle, RollbackClose, RollbackDisarm, Recover,
       CleanStaging, Verify, Extract, DiscardBackup, MoveToBackup, Place, OpenJournal, CloseJournal,
       ArmProbation, ConsumeRequest, Confirm, FailEarly, FailInLoop, FailDeep, Goto, BeginRollback, disk,
       SafeInv, LabelInv, InTransaction, WholeInv, TurnInv
  <1>3. CASE pending' = NoPackage
    BY <1>2, <1>3 DEF Whole, WholeInv, WholeTree, InTransaction
  <1>4. CASE pending' # NoPackage
    <2>1. FullyApplied' /\ journal'.status # "none"
      BY <1>1, <1>4 DEF WholeInv, SafeInv, JournalInv
    <2>2. live' \in [Paths -> Nat]
      BY DEF SafeInv, TypeOK, Tree
    <2> QED
      BY <2>1, <2>2 DEF Whole, FullyApplied, Applied
  <1> QED
    BY <1>3, <1>4

\* Nothing moves in the live tree or the journal while no apply-pending runs,
\* except that a watcher confirms a Runtime on probation.
LEMMA QuietTree ==
  ASSUME SafeInv, TurnInv, BootNext, sup # "apply"
  PROVE  /\ live' = live /\ before' = before /\ journal'.version = journal.version
         /\ journal'.status = journal.status \/ (\E v \in Versions : WatcherConfirms(v) /\ MarkHealthy)
  <1> USE DEF SafeInv, TypeOK, TurnInv, Labels, vars, disk
  <1>1. CASE PowerOn \/ CheckAppLayer \/ LaunchFrontend \/ FrontendReady \/ WatcherSees
             \/ WatcherGivesUp \/ FrontendExit
    BY <1>1 DEF PowerOn, CheckAppLayer, LaunchFrontend, FrontendReady, WatcherSees, WatcherGivesUp,
       FrontendExit
  <1>2. CASE StartLauncher
    BY <1>2 DEF StartLauncher, StartApply
  <1>3. CASE UpdaterStep
    <2>1. TypeOK /\ pc \in {"idle", "confirm"} /\ (Step \/ FailEarly \/ FailInLoop \/ FailDeep)
      BY <1>3 DEF UpdaterStep
    <2>2. Confirm \/ UNCHANGED <<disk, inbox, resume, before>>
      BY <2>1, QuietStep
    <2> QED
      BY <2>2 DEF Confirm
  <1>4. CASE \E v \in Versions : WatcherConfirms(v)
    BY <1>4 DEF WatcherConfirms, MarkHealthy, Journal
  <1>5. CASE RequestUpdate \/ ReceivePackage
    BY <1>5 DEF RequestUpdate, RequestLatest, ReceivePackage, ChangeInbox
  <1>6. CASE SwitchOff \/ PowerCut
    BY <1>6 DEF SwitchOff, PowerCut, PowerGone
  <1> QED
    BY <1>1, <1>2, <1>3, <1>4, <1>5, <1>6 DEF BootNext

LEMMA StepDraw ==
  ASSUME SafeInv, TurnInv, DrawInv, [BootNext]_allVars
  PROVE  DrawInv'
  <1>1. (ready => sup \in {"fe", "console"} /\ CanDraw)'
    <2> SUFFICES ASSUME ready' PROVE sup' \in {"fe", "console"} /\ CanDraw'
      OBVIOUS
    <2>1. CASE UNCHANGED allVars
      BY <2>1 DEF allVars, vars, bootVars, DrawInv, CanDraw
    <2>2. CASE sup = "apply" /\ BootNext
      <3>1. ~ready
        BY <2>2 DEF DrawInv
      <3> QED
        BY <2>2, <3>1 DEF BootNext, PowerOn, CheckAppLayer, StartLauncher, UpdaterStep, LaunchFrontend,
           FrontendReady, WatcherSees, WatcherConfirms, WatcherGivesUp, FrontendExit, RequestUpdate,
           ReceivePackage, SwitchOff, PowerCut, PowerGone, bootVars, watchVars
    <2>3. CASE sup # "apply" /\ BootNext
      <3>1. live' = live
        BY <2>3, QuietTree
      <3> QED
        BY <2>3, <3>1 DEF DrawInv, CanDraw, BootNext, PowerOn, CheckAppLayer, StartLauncher,
           UpdaterStep, LaunchFrontend, FrontendReady, WatcherSees, WatcherConfirms, WatcherGivesUp,
           FrontendExit, RequestUpdate, ReceivePackage, SwitchOff, PowerCut, PowerGone, bootVars, watchVars
    <2> QED
      BY <2>1, <2>2, <2>3
  <1>2. \A v \in Versions : confirming'[v] > 0 => v \in Works \cup {NoFile}
    <2>1. CASE WatcherSees
      BY <2>1 DEF WatcherSees, DrawInv, CanDraw, TurnInv
    <2>2. CASE \E v \in Versions : WatcherConfirms(v)
      BY <2>2 DEF WatcherConfirms, DrawInv, TurnInv
    <2>3. CASE SwitchOff \/ PowerCut
      BY <2>3 DEF SwitchOff, PowerCut, PowerGone, NobodyConfirms
    <2>4. CASE UNCHANGED confirming
      BY <2>4 DEF DrawInv
    <2>5. CASE UNCHANGED allVars
      BY <2>4, <2>5 DEF allVars, bootVars, watchVars
    <2>6. CASE PowerOn \/ CheckAppLayer \/ StartLauncher \/ UpdaterStep \/ LaunchFrontend \/ FrontendReady
               \/ WatcherGivesUp \/ FrontendExit \/ RequestUpdate \/ ReceivePackage
      BY <2>4, <2>6 DEF PowerOn, CheckAppLayer, StartLauncher, UpdaterStep, LaunchFrontend, FrontendReady,
         WatcherGivesUp, FrontendExit, RequestUpdate, ReceivePackage, bootVars, watchVars
    <2> QED
      BY <2>1, <2>2, <2>3, <2>5, <2>6 DEF BootNext
  <1>3. ConfirmedWorks'
    <2>1. CASE UNCHANGED allVars
      BY <2>1 DEF allVars, vars, bootVars, watchVars, DrawInv, ConfirmedWorks, Overtaken
    <2>2. ASSUME NEW v \in Versions, WatcherConfirms(v) PROVE ConfirmedWorks'
      <3>1. CASE UNCHANGED <<vars, confirmedBy>>
        BY <3>1 DEF vars, DrawInv, ConfirmedWorks, Overtaken
      <3>2. CASE MarkHealthy /\ confirmedBy' = v
        <4>1. journal.version \in Packages /\ journal'.version = journal.version
          BY <3>2 DEF MarkHealthy, SafeInv, JournalInv, TypeOK, Journal
        <4>2. v \in Works \cup {NoFile}
          BY <2>2 DEF WatcherConfirms, DrawInv
        <4>3. journal.version # NoFile
          BY <4>1, PackageAssumption DEF NoFile, NoPackage
        <4> QED
          BY <3>2, <4>1, <4>2, <4>3 DEF ConfirmedWorks, Overtaken
      <3> QED
        BY <2>2, <3>1, <3>2 DEF WatcherConfirms
    <2>3. CASE BootNext /\ ~(\E v \in Versions : WatcherConfirms(v))
      <3>1. confirmedBy' = confirmedBy
        BY <2>3 DEF BootNext, PowerOn, CheckAppLayer, StartLauncher, UpdaterStep, LaunchFrontend,
           FrontendReady, WatcherSees, WatcherGivesUp, FrontendExit, RequestUpdate,
           ReceivePackage, SwitchOff, PowerCut, PowerGone, bootVars, watchVars
      <3>2. \/ journal'.status = journal.status /\ journal'.version = journal.version
            \/ journal'.status # "healthy"
        <4>1. CASE sup # "apply"
          BY <2>3, <4>1, QuietTree
        <4>2. CASE sup = "apply"
          BY <2>3, <4>2 DEF BootNext, PowerOn, CheckAppLayer, StartLauncher, LaunchFrontend, FrontendReady,
             WatcherSees, WatcherGivesUp, FrontendExit, RequestUpdate, RequestLatest, ReceivePackage,
             ChangeInbox, SwitchOff, PowerCut, PowerGone, vars, disk, UpdaterStep, Step, FailEarly,
             FailInLoop, FailDeep, RollbackRemove, RollbackRestore, RollbackSettle, RollbackClose,
             RollbackDisarm, Recover, CleanStaging, Verify, Extract, DiscardBackup, MoveToBackup, Place,
             OpenJournal, CloseJournal, ArmProbation, ConsumeRequest, Confirm, TurnInv, SafeInv,
             TypeOK, Journal
        <4> QED
          BY <4>1, <4>2
      <3> QED
        BY <3>1, <3>2 DEF DrawInv, ConfirmedWorks, Overtaken
    <2> QED
      BY <2>1, <2>2, <2>3
  <1> QED
    BY <1>1, <1>2, <1>3 DEF DrawInv

LEMMA StepLaunch ==
  ASSUME IOFaults = FALSE, SafeInv, WholeInv, TurnInv, LaunchInv, SafeInv', WholeInv', [BootNext]_allVars
  PROVE  LaunchInv'
  <1>1. sup' \in {"launch", "fe"} => Whole' \/ ~Present(RequiredByLauncher)'
    <2> SUFFICES ASSUME sup' \in {"launch", "fe"} PROVE Whole' \/ ~Present(RequiredByLauncher)'
      OBVIOUS
    <2>1. CASE UNCHANGED allVars
      BY <2>1 DEF allVars, vars, bootVars, watchVars, LaunchInv, Whole, Present
    <2>2. CASE sup = "apply" /\ BootNext
      <3>1. /\ Step \/ FailEarly \/ FailInLoop \/ FailDeep
            /\ pc' = "idle"
        BY <2>2 DEF BootNext, PowerOn, CheckAppLayer, StartLauncher, UpdaterStep, LaunchFrontend,
           FrontendReady, WatcherSees, WatcherConfirms, WatcherGivesUp, FrontendExit, RequestUpdate, ReceivePackage,
           SwitchOff, PowerCut, PowerGone, bootVars, watchVars, LaunchInv
      <3> QED
        BY <2>2, <3>1, ApplyEndsWhole
    <2>3. CASE sup # "apply" /\ BootNext
      <3>1. /\ live' = live /\ before' = before /\ journal'.version = journal.version
            /\ journal'.status = journal.status \/ (\E v \in Versions : WatcherConfirms(v) /\ MarkHealthy)
        BY <2>3, QuietTree
      <3>2. journal.status # "none" => journal'.status # "none"
        BY <3>1 DEF MarkHealthy, SafeInv, TypeOK, Journal
      <3>3. Whole => Whole'
        BY <3>1, <3>2 DEF Whole
      <3>4. Present(RequiredByLauncher)' = Present(RequiredByLauncher)
        BY <3>1 DEF Present
      <3>5. CASE sup \in {"launch", "fe"}
        BY <3>3, <3>4, <3>5 DEF LaunchInv
      <3>6. CASE sup \notin {"launch", "fe"}
        <4>1. StartLauncher /\ sup' = "launch"
          BY <2>3, <3>6 DEF BootNext, PowerOn, CheckAppLayer, StartLauncher, UpdaterStep, LaunchFrontend,
             FrontendReady, WatcherSees, WatcherConfirms, WatcherGivesUp, FrontendExit, RequestUpdate, ReceivePackage,
             SwitchOff, PowerCut, PowerGone, bootVars, watchVars
        <4>2. \/ ~Present(RequiredByLauncher)
              \/ journal.status = "none" /\ pending = NoPackage
              \/ pc = "confirm"
          BY <4>1, <2>3 DEF StartLauncher, TurnInv
        <4>3. CASE journal.status = "none" /\ pending = NoPackage
          BY <4>3, <3>3 DEF WholeInv, WholeTree, InTransaction, Whole
        <4>4. CASE pc = "confirm"
          <5>1. FullyApplied /\ journal.status # "none"
            BY <4>4 DEF WholeInv
          <5>2. live \in [Paths -> Nat]
            BY DEF SafeInv, TypeOK, Tree
          <5> QED
            BY <5>1, <5>2, <3>3 DEF Whole, FullyApplied, Applied
        <4> QED
          BY <4>2, <4>3, <4>4, <3>4
      <3> QED
        BY <3>5, <3>6
    <2> QED
      BY <2>1, <2>2, <2>3
  <1> QED
    BY <1>1 DEF LaunchInv

\* A Runtime whose frontend cannot draw is confirmed only by a mark-healthy
\* that was overtaken, whatever watchers earlier launches left behind and
\* whichever writes fail.
THEOREM ConfirmedWorksHolds == BootSpec => []ConfirmedWorks
  <1>1. BootInit => Init
    BY DEF BootInit
  <1>2. DrawInv => ConfirmedWorks
    BY DEF DrawInv
  <1>3. SafeInv /\ TurnInv /\ DrawInv /\ [BootNext]_allVars => DrawInv'
    BY StepDraw
  <1> QED
    BY <1>1, <1>2, <1>3, InitSafe, InitTurn, InitLaunch, StepSafe, StepTurn, StepRefines,
       SafeImpliesType, PTL DEF BootSpec

\* A frontend runs on a half-replaced Runtime only if a path the launcher needs
\* to run the updater is itself among what is missing.
THEOREM FrontendSeesWholeTreeHolds == (IOFaults = FALSE) => (BootSpec => []FrontendSeesWholeTree)
  <1> SUFFICES ASSUME IOFaults = FALSE PROVE BootSpec => []FrontendSeesWholeTree
    OBVIOUS
  <1>1. BootInit => Init
    BY DEF BootInit
  <1>2. SafeInv /\ WholeInv /\ [Next]_vars => WholeInv'
    BY StepWhole
  <1>3. SafeInv /\ WholeInv /\ TurnInv /\ LaunchInv /\ SafeInv' /\ WholeInv' /\ [BootNext]_allVars
          => LaunchInv'
    BY StepLaunch
  <1>4. LaunchInv => FrontendSeesWholeTree
    BY DEF LaunchInv, FrontendSeesWholeTree
  <1> QED
    BY <1>1, <1>2, <1>3, <1>4, InitSafe, InitWhole, InitTurn, InitLaunch, StepSafe, StepTurn, StepRefines,
       SafeImpliesType, PTL DEF BootSpec

-----------------------------------------------------------------------------
(***************************************************************************)
(* StorageProvision                                                        *)
(*                                                                         *)
(* DataKept and CompleteIsReady for any number of interruptions, any edits *)
(* of the card and any leftovers where p4 is created.                      *)
(***************************************************************************)

\* Files are only on a p4 that blkid recognises, and the steps that create or
\* format p4 run only when it is absent or has no type.
FilesAreVisible ==
    /\ data => p4 \notin NoType \cup {"absent"}
    /\ step \in {"intent", "create"} => p4 = "absent"
    /\ step = "format" => p4 \in NoType
    /\ step \in {"verify", "seed", "complete", "up"} => p4 \in Labelled

\* What each step of an unedited first boot finds done, also when an earlier
\* boot did it.
Progress ==
    edits = 0 =>
        /\ step \in {"resize", "intent", "create", "inspect", "format", "verify",
                   "seed", "complete"} => p3part = "target"
        /\ step \in {"intent", "create", "inspect", "format", "verify", "seed",
                   "complete"} => p3fs = "target"
        /\ step \in {"seed", "complete"} => p4 = "fat"
        /\ step = "complete" => seeded
        /\ step \in {"expand", "resize", "intent", "create", "inspect", "format",
                   "verify"} => ~complete

ProvisionInv ==
    /\ FilesAreVisible /\ Progress /\ CompleteIsReady
    /\ edits \in Nat /\ p3part \in {"seed", "target"}

\* A card in the state the image ships in.
LEMMA ProvisionStart == ProvisionInit => ProvisionInv
  BY DEF ProvisionInit, ProvisionInv, FilesAreVisible, Progress, CompleteIsReady, NoType, Labelled

\* Every step keeps the invariant.
LEMMA ProvisionStep == ProvisionInv /\ [ProvisionNext]_provisionVars => ProvisionInv'
<1> SUFFICES ASSUME ProvisionInv, [ProvisionNext]_provisionVars PROVE ProvisionInv'
  OBVIOUS
<1> USE ProvisionAssumption DEF ProvisionInv, FilesAreVisible, Progress, CompleteIsReady,
        NoType, Labelled, card
<1>1. CASE SwitchOn
  BY <1>1 DEF SwitchOn
<1>2. CASE CheckLayout
  BY <1>2 DEF CheckLayout
<1>3. CASE ExpandP3
  BY <1>3 DEF ExpandP3
<1>4. CASE ResizeP3
  BY <1>4 DEF ResizeP3
<1>5. CASE WriteIntent
  BY <1>5 DEF WriteIntent
<1>6. CASE CreateP4
  BY <1>6 DEF CreateP4
<1>7. CASE InspectP4
  BY <1>7 DEF InspectP4
<1>8. CASE FormatP4
  BY <1>8 DEF FormatP4
<1>9. CASE VerifyP4
  BY <1>9 DEF VerifyP4
<1>10. CASE SeedP4
  BY <1>10 DEF SeedP4
<1>11. CASE MarkComplete
  BY <1>11 DEF MarkComplete
<1>12. CASE UserWrites
  BY <1>12 DEF UserWrites
<1>13. CASE ShutDown
  BY <1>13 DEF ShutDown
<1>14. CASE Upset
  BY <1>14 DEF Upset, Interrupted
<1>15. CASE EditCard
  <2>1. step' = "off" /\ edits' \in Nat /\ edits' # 0 /\ p3part' = p3part
    BY <1>15 DEF EditCard
  <2>2. data' => p4' = "foreign"
    BY <1>15, Zenon DEF EditCard
  <2> QED
    BY <2>1, <2>2
<1>16. CASE UNCHANGED provisionVars
  BY <1>16 DEF provisionVars
<1> QED
  BY <1>1, <1>2, <1>3, <1>4, <1>5, <1>6, <1>7, <1>8,
     <1>9, <1>10, <1>11, <1>12, <1>13, <1>14, <1>15, <1>16 DEF ProvisionNext, Provision

(***************************************************************************)
(* CompleteIsReadyHolds: the complete marker of an unedited card implies   *)
(* grown and resized p3, a checked p4 and the seeded directories, from     *)
(* whatever interruptions it was reached.                                  *)
(***************************************************************************)
THEOREM CompleteIsReadyHolds == ProvisionSpec => []CompleteIsReady
<1>1. ProvisionInv => CompleteIsReady
  BY DEF ProvisionInv
<1> QED
  BY <1>1, ProvisionStart, ProvisionStep, PTL DEF ProvisionSpec

(***************************************************************************)
(* DataIsKept: no step of the provisioning script removes files from p4.   *)
(***************************************************************************)
THEOREM DataIsKept == ProvisionSpec => DataKept
<1>1. ProvisionInv /\ [ProvisionNext]_provisionVars => [step # "off" /\ data => data']_provisionVars
  <2> SUFFICES ASSUME ProvisionInv, ProvisionNext, step # "off", data PROVE data'
    BY DEF provisionVars, card
  <2> USE DEF ProvisionInv, FilesAreVisible, NoType, Labelled, card
  <2>1. CASE CreateP4 BY <2>1 DEF CreateP4
  <2>2. CASE FormatP4 BY <2>2 DEF FormatP4
  <2>3. CASE Upset BY <2>3 DEF Upset, Interrupted
  <2>4. CASE UserWrites BY <2>4 DEF UserWrites
  <2>5. CASE SwitchOn \/ EditCard BY <2>5 DEF SwitchOn, EditCard
  <2>6. CASE CheckLayout \/ ExpandP3 \/ ResizeP3 \/ WriteIntent
    BY <2>6 DEF CheckLayout, ExpandP3, ResizeP3, WriteIntent
  <2>7. CASE InspectP4 \/ VerifyP4 \/ SeedP4 \/ MarkComplete \/ ShutDown
    BY <2>7 DEF InspectP4, VerifyP4, SeedP4, MarkComplete, ShutDown
  <2> QED BY <2>1, <2>2, <2>3, <2>4, <2>5, <2>6, <2>7 DEF ProvisionNext, Provision
<1> QED
  BY <1>1, ProvisionStart, ProvisionStep, PTL DEF ProvisionSpec, DataKept

=============================================================================
