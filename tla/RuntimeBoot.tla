----------------------------- MODULE RuntimeBoot -----------------------------
(***************************************************************************)
(* The Runtime updater inside its supervisor: PID 1 (rootfs/bubble-        *)
(* frontend/init) checks the app layer, runs the launcher in a restart     *)
(* loop and falls into a recovery console; the launcher                    *)
(* (bin/plumos-frontend-launch) runs apply-pending, leaves a watcher that  *)
(* waits for the renderer-ready file, and execs the frontend.              *)
(*                                                                         *)
(* The updater, PID 1 and the launcher are themselves managed files, so an *)
(* interrupted transaction may have taken away what would repair it:       *)
(* RequiredByInit and RequiredByLauncher name those paths.                 *)
(***************************************************************************)
EXTENDS RuntimeUpdate

CONSTANTS
    RequiredByInit,      \* paths PID 1 refuses to start without
    RequiredByLauncher,  \* paths the launcher needs to run the updater
    Works,               \* versions whose frontend can draw its first frame
    RestartLimit,        \* frontend exits before the recovery console
    MaxCuts              \* bound: power cuts at arbitrary moments

ASSUME BootAssumption ==
    /\ RequiredByInit \subseteq Paths
    /\ RequiredByLauncher \subseteq Paths
    /\ Works \subseteq Packages \cup {BaseVersion}
    /\ RestartLimit \in Nat \ {0}
    /\ MaxCuts \in Nat

VARIABLES
    sup,       \* what PID 1 is at
    ready,     \* /tmp/plumos-fe-ready
    watching,  \* launcher watchers still polling for it
    confirming,   \* mark-healthy commands that a watcher has started and that
                  \* have not reached update_lock yet, counted by the VERSION
                  \* (history) that was live when their watcher saw the file
    confirmedBy,  \* history: that VERSION of the last one that confirmed
    restarts,  \* restart_count
    cuts       \* power cuts so far

watchVars == <<watching, confirming, confirmedBy>>
bootVars == <<sup, ready, watchVars, restarts, cuts>>
allVars == <<vars, bootVars>>

Present(S) == \A p \in S : live[p] # NoFile

\* What a VERSION file can say, its absence included.
Versions == Packages \cup {BaseVersion, NoFile}
NobodyConfirms == [v \in Versions |-> 0]

\* The live Runtime can draw a frame; nobody knows of one without VERSION,
\* which an interrupted transaction has taken apart.
CanDraw == live[VersionFile] \in Works \cup {NoFile}

BootInit ==
    /\ Init
    /\ sup = "off"
    /\ ready = FALSE
    /\ watching = 0
    /\ confirming = NobodyConfirms
    /\ confirmedBy = NoFile
    /\ restarts = 0
    /\ cuts = 0

\* The initramfs mounts the storage and execs PID 1.
PowerOn ==
    /\ sup = "off"
    /\ sup' = "boot"
    /\ UNCHANGED <<vars, ready, watchVars, restarts, cuts>>

\* PID 1 accepts the app layer by the presence of its files.
CheckAppLayer ==
    /\ sup = "boot"
    /\ sup' = IF Present(RequiredByInit) THEN "start" ELSE "console"
    /\ UNCHANGED <<vars, ready, watchVars, restarts, cuts>>

\* Mutant of StartLauncher: only a new request wakes the updater.
StartLauncherRequestOnly ==
    /\ sup = "start"
    /\ ready' = FALSE
    /\ IF Present(RequiredByLauncher) /\ request # NoPackage /\ pc = "idle"
       THEN StartApply /\ sup' = "apply"
       ELSE UNCHANGED vars /\ sup' = "launch"
    /\ UNCHANGED <<watchVars, restarts, cuts>>

\* Mutant of StartLauncher: only a Runtime on probation wakes the updater.
StartLauncherPendingOnly ==
    /\ sup = "start"
    /\ ready' = FALSE
    /\ IF Present(RequiredByLauncher) /\ pc = "idle"
          /\ (pending # NoPackage \/ (request # NoPackage /\ journal.status = "none"))
       THEN StartApply /\ sup' = "apply"
       ELSE UNCHANGED vars /\ sup' = "launch"
    /\ UNCHANGED <<watchVars, restarts, cuts>>

\* The launcher calls the updater when one of its state files is there; the
\* call fails at once while another command holds the lock.
StartLauncher ==
    /\ sup = "start"
    /\ ready' = FALSE
    /\ IF /\ Present(RequiredByLauncher)
          /\ request # NoPackage \/ journal.status # "none" \/ pending # NoPackage
          /\ pc = "idle"
       THEN StartApply /\ sup' = "apply"
       ELSE UNCHANGED vars /\ sup' = "launch"
    /\ UNCHANGED <<watchVars, restarts, cuts>>

\* The command holding the lock runs beside PID 1; the launcher waits for its
\* own apply-pending only.
UpdaterStep ==
    /\ sup # "off"
    /\ Step \/ FailEarly \/ FailInLoop \/ FailDeep
    /\ sup' = IF sup = "apply" /\ pc' = "idle" THEN "launch" ELSE sup
    /\ UNCHANGED <<ready, watchVars, restarts, cuts>>

\* The launcher forks its watcher and execs the frontend.
LaunchFrontend ==
    /\ sup = "launch"
    /\ sup' = "fe"
    /\ IF Present(RequiredByLauncher) /\ pending # NoPackage
       THEN ready' = FALSE /\ watching' = watching + 1
       ELSE UNCHANGED <<ready, watching>>
    /\ UNCHANGED <<vars, confirming, confirmedBy, restarts, cuts>>

\* The frontend writes the ready file after its first completed page flip.
FrontendReady ==
    /\ sup = "fe" /\ ~ready
    /\ CanDraw
    /\ ready' = TRUE
    /\ UNCHANGED <<vars, sup, watchVars, restarts, cuts>>

\* A watcher sees the file and starts mark-healthy, a process of its own that
\* will ask for update_lock later: PID 1 and the launcher go on meanwhile.
WatcherSees ==
    /\ sup # "off" /\ watching > 0 /\ ready
    /\ watching' = watching - 1
    /\ confirming' = [confirming EXCEPT ![live[VersionFile]] = @ + 1]
    /\ UNCHANGED <<vars, sup, ready, confirmedBy, restarts, cuts>>

\* mark-healthy reaches the lock: it fails when another command holds it, does
\* nothing without a Runtime on probation, and does not ask which one it is.
WatcherConfirms(v) ==
    /\ sup # "off" /\ confirming[v] > 0
    /\ confirming' = [confirming EXCEPT ![v] = @ - 1]
    /\ IF pc = "idle" /\ pending # NoPackage /\ Present(RequiredByLauncher)
       THEN MarkHealthy /\ confirmedBy' = v
       ELSE UNCHANGED <<vars, confirmedBy>>
    /\ UNCHANGED <<sup, ready, watching, restarts, cuts>>

\* Mutant of WatcherGivesUp: the timeout confirms the Runtime.
WatcherConfirmsAnyway ==
    /\ sup # "off" /\ watching > 0 /\ ~ready
    /\ watching' = watching - 1
    /\ confirming' = [confirming EXCEPT ![live[VersionFile]] = @ + 1]
    /\ UNCHANGED <<vars, sup, ready, confirmedBy, restarts, cuts>>

\* Sixty polls without the file.
WatcherGivesUp ==
    /\ sup # "off" /\ watching > 0 /\ ~ready
    /\ watching' = watching - 1
    /\ UNCHANGED <<vars, sup, ready, confirming, confirmedBy, restarts, cuts>>

\* The frontend ends: a crash, a failed start or its exit for a hand-over.
FrontendExit ==
    /\ sup = "fe"
    /\ restarts' = restarts + 1
    /\ IF restarts + 1 >= RestartLimit
       THEN sup' = "console" /\ UNCHANGED ready
       ELSE sup' = "start" /\ ready' = FALSE
    /\ UNCHANGED <<vars, watchVars, cuts>>

\* START > System Update records the newest compatible package.
RequestUpdate ==
    /\ sup = "fe" /\ ready /\ Present(RequiredByLauncher)
    /\ RequestLatest
    /\ UNCHANGED bootVars

ReceivePackage ==
    /\ ChangeInbox
    /\ UNCHANGED bootVars

PowerGone ==
    /\ Release /\ launched' = FALSE
    /\ UNCHANGED <<disk, inbox, resume, before>>
    /\ sup' = "off" /\ ready' = FALSE /\ restarts' = 0
    /\ watching' = 0 /\ confirming' = NobodyConfirms /\ UNCHANGED confirmedBy

\* The user switches a device off that shows a frontend or a console, with no
\* update command under way.
SwitchOff ==
    /\ sup \in {"fe", "console"} /\ pc = "idle"
    /\ PowerGone
    /\ UNCHANGED cuts

\* The battery runs out or is pulled.
PowerCut ==
    /\ sup # "off" /\ cuts < MaxCuts
    /\ cuts' = cuts + 1
    /\ PowerGone

BootNext ==
    \/ PowerOn \/ CheckAppLayer \/ StartLauncher \/ UpdaterStep \/ LaunchFrontend
    \/ FrontendReady \/ WatcherSees \/ WatcherGivesUp \/ FrontendExit
    \/ \E v \in Versions : WatcherConfirms(v)
    \/ RequestUpdate \/ ReceivePackage \/ SwitchOff \/ PowerCut

\* A frontend that cannot draw does not stay for ever: it exits, or its user
\* switches the dead device off; a console is switched off.
LeaveDeadDevice ==
    /\ sup = "console" \/ (sup = "fe" /\ ~CanDraw)
    /\ FrontendExit \/ SwitchOff

\* PID 1, the launcher and the updater are ordinary processes that the kernel
\* schedules, and a device that is off is switched on again.
Fairness ==
    /\ WF_allVars(PowerOn)
    /\ WF_allVars(CheckAppLayer)
    /\ WF_allVars(StartLauncher)
    /\ WF_allVars(UpdaterStep)
    /\ WF_allVars(LaunchFrontend)
    /\ WF_allVars(LeaveDeadDevice)

BootSpec == BootInit /\ [][BootNext]_allVars /\ Fairness

-----------------------------------------------------------------------------
(* Properties.                                                             *)

\* The live Runtime is one whole version.
Whole ==
    \/ live = before
    \/ journal.status # "none" /\ live = Applied(before, journal.version)

\* The frontend is started on a half-replaced Runtime only when the cut took
\* away the updater itself, which the launcher then skips: otherwise, by the
\* time the frontend runs, an interrupted transaction has been rolled back or
\* an update has been applied whole (plumos-frontend-launch:13).
FrontendSeesWholeTree ==
    sup = "fe" => Whole \/ ~Present(RequiredByLauncher)

\* A mark-healthy that was overtaken has confirmed: its watcher saw one Runtime
\* draw, and before it had the lock another one was installed.
Overtaken == journal.status = "healthy" /\ confirmedBy # journal.version

\* No ready file, restart or watcher of an earlier launch confirms a Runtime
\* whose frontend cannot draw; the one way there is a mark-healthy that was
\* overtaken between the test of the file and the lock.
ConfirmedWorks ==
    journal.status = "healthy" /\ journal.version \notin Works => Overtaken

\* The cut took what the boot needs: PID 1 refuses to start the launcher, or
\* the launcher starts a frontend without having run the updater.
Stranded ==
    \/ sup = "console" /\ ~Present(RequiredByInit)
    \/ sup = "fe" /\ ~Present(RequiredByLauncher)

\* A Runtime on probation whose frontend cannot draw is replaced by one that
\* can: each relaunch and each boot, power cuts inside the rollback included,
\* takes it nearer to the journalled Runtime, unless the device is stranded or
\* an overtaken mark-healthy accepts it.
DeadProbationEnds ==
    (sup = "fe" /\ pending # NoPackage /\ live[VersionFile] \notin Works)
        ~> live[VersionFile] \in Works \/ Stranded \/ Overtaken

\* A transaction that lost power is rolled back by a later boot, unless what
\* the cut left lacks a file which PID 1 or the launcher requires.
InterruptedIsRestored ==
    (sup = "boot" /\ journal.status = "applying") ~> journal.status # "applying" \/ Stranded
=============================================================================
