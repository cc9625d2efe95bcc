# plumOS Bubble: TLA+ specifications, model checking and proofs

plumOS Bubble is a firmware for a handheld: an initramfs that prepares the SD
card, a small PID 1 that supervises a C frontend, Python and shell programs that
update the Runtime, shut the machine down and manage a second card, and the
packages of third-party emulators. This directory specifies the parts that carry
the firmware's own control logic, checks them with TLC on small instances and
proves the most important safety properties with TLAPS for every instance.

Paths below are relative to the repository root, which `PROJECT.json` calls
`src/`. `PROJECT.json` maps every definition that models code to its lines.

## 1. The system

| Component | State it keeps | Operations | What makes it correct |
|---|---|---|---|
| Runtime updater (`plumos-system-update.py`) | live files, staging, backup, journal, `runtime-pending.json`, request, lock | request, apply-pending, rollback, mark-healthy | an interrupted or dead update returns to one whole earlier Runtime |
| Frontend supervisor and launcher (`rootfs/bubble-frontend/init`, `plumos-frontend-launch`) | restart count, readiness watcher | check the app layer, start, restart, console | every interrupted update meets a rollback; only a Runtime that drew is confirmed |
| Power transaction (`plumos-safe-shutdown`, `plumos-power-request-finalizer`, PID 1, the next boot's initramfs) | request, claim, two clean-shutdown markers, mounts | select, quiesce, mark, unmount, commit, claim, remount, backend, verdict | one owner; a clean report is true; a refused action leaves a usable system |
| First-boot provisioning (initramfs, `plumos-bubble-provision-storage`) | partitions, filesystems, intent, stage markers | grow p3, create, format and seed p4, mark complete | user files survive; the complete marker is true; a fresh card is completed |
| Controller frontend: lists (`plumos_controller_ui.c`) | screen and ways back, ROM list, cursor, cursor memory, marks, gallery motion | button presses, redraws, polls of a scanner child | cursor, list, marks and files agree in every order of events |
| Controller frontend: settings (the same file, volume keys and helper) | `frontend/settings.json`, `system.json`, CPU file, service flags, rows shown, mixer, backlight, radio | move, change, apply, reset a row; keys of the volume service | a save disturbs nothing else, rows and hardware follow the files, the last level is saved |
| Controller frontend: event loop (the same file) | evdev queue, repeat state, screen, questions asked, password, child | decode, repeat, run a child, drain and settle input, SIGTERM | repeats have a cause; nothing destructive starts unconfirmed; a password stays with its network |
| Launch, overrides, history (`plumos_text_ui.c`) | override file, favourites, `recent.json`, resume record, hotkey daemon | core, favorite, recent, resume, launch, boot | the override file is a plain store; what is shown is launched; boot repeats what was cut |
| Library scanner (`plumos_library_scan.c`) | index per system and of the library, their temporary files | scan, replace by rename | each game once; readers see whole indexes |
| GGFE renderer (`plumos_ggfe.c`, `plumos_ggfe_launch.h`) | raster pool, carousel, label cache, own override file | press, repeat, frame, menu, launch, restart | a frame is whole when presented; the cartridge run is the one aimed at; no choice is claimed that is not saved |
| Second card (`plumos-bubble-mount-sd2`, repair, health, media index) | mounts and binds, repair lock, health record, per-medium index | start, stop, repair, observe, select | one writer; a dirty result is kept until disproved; indexes belong to their medium |
| DRM broker, power-menu overlay | shared descriptors, lock directory, stopped emulator | drop, regain, stop, continue | one master; the emulator always continues |
| Network, time, services | enable flags, pid files | enable, reconcile, stop | flags and processes agree |
| PortMaster updater | upstream, stage, previous | swap, clean | an upstream is always present |

How they interact. The initramfs provisions the card, consumes the shutdown
markers and switches to PID 1. PID 1 starts the launcher, which applies a pending
update, mounts the second card, starts services and the frontend and leaves a
watcher behind that confirms the Runtime once the frontend has drawn. The frontend
runs helpers as foreground children (launch, power, repair) and one scanner in the
background. Everything else is shared through files on the card, written to a
temporary name and renamed.

What is hard here: power can go at every write; the same request is finished by
PID 1 or by a delayed fallback process; frontends are restarted under running
helpers; a child finishes after the screen it was started for is gone; cursors are
positions in lists that are replaced under them; two programs rewrite the same
settings file; two scanners write the same temporary file; key releases are thrown
away around children; raster threads share one job. `PROJECT.json` lists these
hazards at the lines where they bite, with the properties that would catch them.

## 2. Modules

| Module | Models | Kind |
|---|---|---|
| `RuntimeUpdate` | the updater, at the grain of durable writes | specification |
| `RuntimeBoot` | PID 1, launcher and watcher around it (extends it) | composition; implements `RuntimeUpdate!Spec` |
| `PowerTransaction` | a shutdown or reboot from selection to the next boot | specification of several processes |
| `StorageProvision` | first boots of a card | specification |
| `RomBrowser` | the ROM lists of the frontend, scanner child, menus | specification |
| `Settings` | the settings screens, both settings files, the volume keys and their helper | specification of three processes |
| `FrontendLoop` | input decoding, repeat, children, menus, Wi-Fi dialogue, power menu | specification |
| `OverrideStore` | what the core overrides promise: a store of choices that an edit changes or leaves alone | abstract specification |
| `CoreOverrides` | the override file and the commands that edit and resolve it | specification; implements `OverrideStore!Spec` |
| `LaunchSession` | favourites, history, resume, launching and the boot relaunch (extends `CoreOverrides`) | composition |
| `LibraryScan` | the scanner's algorithm, the processes that run it and the index files | specification |
| `StripePool` | GGFE's raster threads | specification of threads |
| `Cartridges` | GGFE's carousel, menu and launches | specification |
| `MC*` | constants of the instances | model checking |
| `InstallProofs` | theorems about `RuntimeUpdate`, `RuntimeBoot` and `StorageProvision` | proofs |
| `GgfeProofs` | theorems about `StripePool` and `Cartridges` | proofs |
| `PowerTransactionProofs`, `RomBrowserProofs`, `SettingsProofs`, `FrontendLoopProofs`, `LaunchSessionProofs`, `LibraryScanProofs` | theorems about the modules they are named for | proofs |

A definition whose comment begins with *Mutant of* is not part of a specification:
it is a plausible bug, used to see that a property notices it.

### RuntimeUpdate, RuntimeBoot

A *path* is a file of the Runtime, a *package* a function from paths to versions.
The disk is the live tree, the backup directory, the staging directory, journal,
pending file and request; each action is one durable change with the
code up to the next one, and `pc` is the position inside `apply_pending`. A power cut
is possible between any two. The compatibility check, the manifest check and
the signature are predicates on packages. `RuntimeBoot` adds what runs before and after: PID
1's check of its files, the launcher's call of the updater, the frontend, which
draws or does not, and watchers, several of which may be alive at once. A watcher that sees the
ready file starts `mark-healthy`, a process of its own: it reaches the lock any time later,
and confirms whatever is on probation then (`WatcherSees`, `WatcherConfirms`). The history
`confirmedBy` remembers for which Runtime it was started. `RequiredByInit` and `RequiredByLauncher`
name the managed paths without which PID 1 or the launcher do not get to the updater.

### PowerTransaction

Processes: the shell of each selection, one delayed finalizer per selection, PID 1,
the launcher, and the next boot. Each has a program counter; markers, request,
claim directory and mounts are the shared state. Steps fail as the constant
`Faults` permits: markers, unmounts, the second card, remounts, the user partition that cannot
be mounted again, each of the storage terminations, the commit, and a power backend that
returns. A second selection of a waiting action leaves the request as it is (`Reuse`). Terminating
the users of `/storage` kills every script that keeps a file there open, a sleeping finalizer
and the owner of a claim included. File operations are durable when they return, as the
scripts call `sync` after each group. Two histories serve the properties: `midway`, that the power
was cut inside a transaction, or that an owner ended another script between its markers and its unmount;
and `gaveUp`, that a script took one of the four branches that leave the user partition unmounted.

### StorageProvision

One action per tool call that changes the card. `Upset` is a power cut, a failing
tool (which stops the boot in a console) or a cut during a tool, with the state
that a half-done `resize2fs` or `mkfs` may leave. A card may be edited in another
computer between boots. The module assumes that `fsck` repairs what an interrupted
`resize2fs` or `mkfs` left, as the script does when it calls it.

### RomBrowser

The frontend is one thread; an action is one press with the redraw that follows,
one poll of the scanner child, or one timed redraw. The scanner, other writers of
the card and restarts interleave with them. Kept: every screen change, load, failed
load, cursor rule, memory and mark. The cursor memory keeps a context and the path of an
entry, without its system, as the code does (`PathOf`; two ROMs of the run share a path).
Abstracted: the core and power menus are one *cover* that returns where it came from;
Settings, Help, Scraping, Results and Wi-Fi are one *submenu* that returns to
START; a way back that will be overwritten before it is read is reset; a scan is
one step at its end; key repeat is repeated presses; memory does not run out.

### Settings

Three processes: the frontend's thread, the volume-key service and the helper it
runs. A save is four steps (read, rename, apply, show), because the helper may
read or replace the same file between any two. Rows are the settings'
own identifiers, and the model has the code's table of rows, choices, ranges
and submenus. `Touch` names the rows a run operates, `Panel` the display rows that have a
backend. Each number is unavailable when its backend does not answer, and its row then shows
N/A and reads as zero. A panel may refuse a value at the start or after a save
(`hw.refused`), also having taken it. The files `/run/...` and the mixer are one level; a helper
call succeeds or fails. `BadZones` are zone names the code refuses. Two sets record which saved values
the file no longer holds: `lost`, what a save put back because the other program changed it after
the save had read, and `destroyed`, what went when the volume helper moved an empty copy over
the file (the card being full), or a file of its own because its copy had no volume. A copy is empty or
whole: `settings.json` is smaller than a block and written by one command.

### FrontendLoop

The user moves a hat, presses a key or a button; the kernel queues at most
`EventBuffer` events and drops the rest; the loop reads, decodes, repeats and
acts. While a child runs the loop does nothing, after some children it drains the
queue for a while (`settle_input_after_child`), after others it replays what was
typed. The history variable `trail` remembers the row that was last asked about,
`lost` whether a release was drained. The lists of ROMs and the gallery are screens whose
contents are left to `RomBrowser`. The page of brightness tiles, which opens only if an
environment variable of a hardware test is set, is left out.

### CoreOverrides, OverrideStore, LaunchSession

The override file is a sequence of system and ROM entries with the code's limits.
A load skips what it cannot use and empties values it does not know (`Retired`: those of
older releases); a command parses its options, edits a loaded copy and commits it by rename, which
may fail before or after the new name stands. `ImplementsStore` maps the file,
through the code's own lookup (exact path, then the DOS path without its
suffix), to a function from keys to choices. `LaunchSession` adds the other commands of
`plumos_text_ui`, a launch from the recorded session to the end of the game with
its hotkey daemon, power cuts at every step, and `boot`. Catalogue and card change
between commands.

### LibraryScan

`scan_systems` is an operator over a card layout: directories and files with
inodes, so that links and case-folded names can be the same directory. A
scanner process opens, writes, syncs and renames; index contents are sequences of
stdio blocks at each writer's own offset in an inode, so that two writers of one
temporary file mix them as the kernel would. A block the card refuses is dropped
unnoticed unless it is the last, as nothing looks at `ferror`. After a power cut
unflushed blocks are missing from some block on.

### StripePool, Cartridges

`StripePool` has one action per critical section, spurious wake-ups included.
`Cartridges` has one action per press, repeat and frame; positions are in half
slots, so a motion has a middle; the label cache keeps its order of use; saving
and reloading the override file may fail.

## 3. Runs

| Run | Instance | Shows |
|---|---|---|
| `runtime_update_faulty` | three paths, one added by the first package and deleted by the second; rollback and state writes may fail | `NothingLost`: the disk always suffices to restore the Runtime the transaction began with; `ChangeOnlyUnderJournal`: only journalled paths change |
| `runtime_boot` | four paths, of which PID 1 requires the launcher and the launcher the updater, a base Runtime and two packages that replace the launcher, one dead and one that adds a file; two cuts | `WholeTree`, `VersionIsLast`, `FrontendSeesWholeTree`, `ConfirmedWorks`; refinement of `RuntimeUpdate!Spec`; `InterruptedIsRestored`, `DeadProbationEnds` |
| `power` | two selections, every fault, one cut, one further boot | `OneOwner`, `NoStaleProof`, `CleanIsTrue`, `NotTrapped` |
| `power_live` | one selection, faults the scripts recover from, no cut | `Concludes` |
| `provision` | four upsets, two edits, blank or FAT leftovers | `CompleteIsReady`, `DataKept`, `FirstBootCompletes` |
| `rom_browser` | two systems, three ROMs of which two share a path, one directory; one change | `CursorInRange`, `ListMatchesScreen`, `MarksAreTrue`, `ReturnsWhereLeft`, `LaunchedIsSelected` |
| `settings` | sixteen rows, two operations of user or keys, three volume levels, a brightness with a panel; one fault: a failing card, sound server or panel, a stop or a cut | `LastSaveStands`, `ShownIsSaved`, `HardwareFollowsFile`, `KeysSettle` |
| `frontend_loop` | a hat, one direction key, five buttons; a queue of two events; menus with the shipped kinds of rows but scraping and the top refresh, two networks, one of them open | `RepeatHasCause`, `DestructionIsConfirmed`, `SecretForItsNetwork` |
| `launch_session` | two systems, four profiles, one ROM with a suffix, two commands, overrides and favourites of one entry; failing saves, cuts | `ShownIsLaunched`, `RelaunchesWhatWasCut`, `LaunchReturns`, refinement of `OverrideStore!Spec` |
| `library_scan` | three scans by two processes, two systems sharing an alias, two card layouts, the second that of observation 13, a table of one visited directory, eight inodes; one write error or cut | `EachGameOnce`, `CleanScanIsWhole` |
| `stripe_pool` | three workers, three stripes, two frames, stop and start | `FrameIsWhole`, `PoolReturns` |
| `cartridges` | three cartridges, three profiles, both motions; failing saves and reloads | `ClaimsOnlyDurable`, `MotionEndsOnTarget`, `SnapLaunchesAimed` |

Why the bounds suffice. The updater treats paths alike except for `VERSION`,
which is last, and those PID 1 or the launcher require; the run has one of each kind and one
of none. Two cuts interrupt a rollback that a first cut made necessary. Two selections give
two finalizers and PID 1 competing for one claim. Four upsets interrupt each of
the stages of provisioning. In the ROM browser a cursor memory of one entry and a
history of two are full almost at once; a library with a directory whose
only ROM comes and goes changes the length of a list in both directions. Two
operations of settings and keys give every pair of writers. A queue of two events
overflows after one press and release. Two commands suffice for an edit before and one
after a cut; lists of one entry are full at once. Three scans give two that overlap and one before or
after them, from which the property must recover; the eight inodes are never exhausted. Three workers and three stripes let
one worker sleep through a whole job while another takes two stripes. The
carousel turns both ways round three cartridges, with one press queued.

Fairness. `RuntimeBoot`: PID 1, launcher and updater step when they can (the
kernel schedules them), a device that is off is switched on again, and a frontend
that cannot draw exits or its user switches the device off, as for a
console; nothing is assumed of a working frontend, watchers, requests or cuts.
`PowerTransaction`: scripts, finalizers, PID 1, launcher and boot step when they
can; a delayed finalizer wakes because it sleeps a fixed time; nothing is assumed
of cuts, faults, selections or crashes; a frontend told to exit does.
`StorageProvision`: the initramfs runs on, and a device that stopped is switched on
again. `LaunchSession`: a game ends and `plumos_text_ui` goes on; nothing is assumed
of commands, cuts and boots. `Settings`: a save and a helper that run go on, and a
sound server that failed returns; nothing is assumed of presses. `StripePool`: every
thread that can run does; spurious wake-ups are not needed. `RomBrowser`,
`FrontendLoop`, `LibraryScan` and `Cartridges` have safety properties only.

Deadlock is checked except where the system may stop for good: the bounds on
selections, operations and scans, and a GGFE that was left.

## 4. Observations

Met while modelling. Each is a behaviour of the specifications above. Where a property would
forbid it, the property names it as its exception; without the exception TLC shows the trace.

1. `plumos-system-update.py:562`: the journal is closed before the probation is
   armed; a cut between the two leaves an unproven Runtime installed for ever
   (`DeadProbationEnds` begins with a Runtime on probation; it does not hold of a journal
   that is `pending_health`).
2. `rootfs/bubble-frontend/init:361`, `plumos-frontend-launch:13`: a cut while a file that PID 1
   requires is in the backup directory ends in the console, and one while the updater is
   there starts the frontend without it; nothing then runs the rollback
   (`Stranded`, the exception of `InterruptedIsRestored` and `DeadProbationEnds`).
3. `plumos-frontend-launch:185`: `mark-healthy` confirms what is on probation when it has the lock, which need
   not be what its watcher saw draw (`Overtaken`, the exception of `ConfirmedWorks`). And line 21:
   after a rollback that failed with an I/O error the launcher goes on, and a watcher may
   confirm the half-restored Runtime (`WholeTree` is checked for rollbacks that do not fail).
4. `plumos-safe-shutdown:331`: when a termination of storage users, or the rename that commits,
   fails after the unmount, the script exits with the user partition unmounted, no
   request, and the services stopped, though the comment at line 313 says that a refused
   transaction leaves them running; every later selection fails at the unmounted partition. A power backend
   that returns (`plumos-power-request-finalizer:110`) leaves the same behind, on a read-only
   `/storage`, where a repeated selection cannot open its log; and a partition that cannot be mounted again
   stays away. These are the four branches of `gaveUp`, the exception of `NotTrapped`.
5. `plumos-safe-shutdown:278`: the markers are on the card before the unmount and the
   read-only remount. Power that goes in between is reported as a clean shutdown, and so is an owner that
   powers off while another script is between its markers and its unmount (`midway`, the
   exception of `CleanIsTrue` and `NoStaleProof`).
6. `rootfs/bubble-frontend/init:229`: PID 1 does not stop the second card again
   after a restarted launcher mounted it.
7. `plumos_controller_ui.c:9615`: a gallery motion whose target is no longer the
   cursor never ends; LEFT and RIGHT are dead until the gallery is left or UP or
   DOWN jumps.
8. `plumos_controller_ui.c:11262`: START pressed on Settings, Help, Scraping or Results
   stores that page as the way back, and B on it leads to START: B then alternates
   between the two, and no shipped row leads to the top.
9. `plumos_controller_ui.c:15975`: releases drained around a child, or lost in an
   evdev overflow, leave a repeat running until some other key is released
   (`RepeatHasCause` names this as its only exception).
10. `plumos_controller_ui.c:14217`: a factory-reset question survives START and B: A,
   START, B, A within five seconds runs it. The answer is still on its own row. `menus.json` and
   `apps.json` set `confirm` on rows for which the code does not ask.
11. `plumos_ggfe.c:2798`: under the gallery motion a press queued behind the running
   motion is promoted during the insert animation, so the game launched is not
   the one A was pressed on, though `docs/ggfe.md` says that A launches the selected game.
12. `plumos_library_scan.c:1041`: all scanners of an index use one temporary name; one
    can publish what another has half written, and a refused block in the middle of a file is not noticed
    (line 1169: `fflush` succeeds, `ferror` is not asked). The next undisturbed scan
    repairs both.
13. `plumos_library_scan.c:882`: a directory reached first through a shared alias of an
   earlier root is not scanned again through the system's own alias of a later one, so its
   archives are missed. The second card of `library_scan` is laid out so, and `EachGameOnce`
   excepts exactly these archives.
14. `plumos-volume-control:60`: helper and frontend rewrite the same file; of two
    overlapping changes one is put back (`lost`). On a full card the helper moves an empty copy over
    the file, and all settings are gone (`destroyed`). A failed write of the helper is not
    retried, because `persist-runtime` returns what applying returned. A time sync under way may
    overwrite a time set by hand.
15. `plumos_controller_ui.c:13924`: a number the panel refuses is saved all the same; file and
    screen differ until the next start (`hw.refused`, an exception of `HardwareFollowsFile`).
16. `plumos_controller_ui.c:8549`: the cursor memory keeps paths without systems. Favourites and history
    may hold two ROMs of one path, of systems that share a directory or use one file name; the cursor
    then returns to the first of them, the exception of `ReturnsWhereLeft`.

## 5. Proofs

All theorems hold for every value of the constants under the `ASSUME`s of their
modules, which state the types of the constants, that names are distinct, and what the
shipped menus and the saved lists look like (below).

`InstallProofs`, the updater. `NothingLost` alone is not inductive: a rollback reads the
layout of target and backup to know what has been done, so the invariant says for
every path which layouts occur at each position (not begun, in the backup, placed,
settled), that the journal lists exactly the paths that differ, and that the backup
of a path is the version the transaction began with. `NothingLostHolds`,
`ChangeJournalled` and `TypeCorrect` are proved with I/O errors; `WholeTreeHolds`
assumes that state-file and rollback writes succeed, without which it is false.
`VersionInv` compares `VERSION` with the package: a verified package is newer than the
`VERSION` it found, `VERSION` is placed only after every path that is not metadata, and a
rollback undoes it before any of those; `VersionIsLastHolds` follows with I/O errors.
`TurnInv` ties the updater to its caller: `apply-pending` runs only while the launcher waits
for it, and only a watcher whose launcher saw it return confirms. With it every step of the
device is a step of the updater or a stutter of it, hence `BootImplementsUpdate`.
`LaunchInv` says that the ready file was written by the frontend of the live Runtime
and that a launcher which can run the updater starts a frontend on a whole tree.
`ConfirmedWorksHolds` follows from what the commands that watchers started carry (each was counted by a
Runtime that had drawn), with I/O errors, and so for every interleaving of test, lock and
relaunch. `FrontendSeesWholeTreeHolds` follows for writes that succeed. No theorem assumes anything
of the paths PID 1 or the launcher require.

`PowerTransactionProofs`. `TypeInv` adds what each program counter carries and the
restart budget. `OwnerInv` says that whoever is past the claim holds the claim
directory, and that a sleeping finalizer does not; `OneOwnerHolds` follows.
`ProofInv` says that the mount is read-only at the backend (`ReadOnlyAtBackend`) and who may hold
both markers beside a mounted user partition (`Loose`): a script about to unmount, one that was
ended there, or the owner that takes them back; an owner that was itself terminated leaves
its claim (`Stranded`), and then nobody can finish an action. `NoStaleProofHolds` follows.
`Borne` says who answers for a missing user partition: the script that unmounted it, the
request it committed, or the owner of the claim, with no gap when one hands over to the next
or when `terminate-storage` kills another script; `NotTrappedHolds` follows.
`Withdrawn` says that a power-off that was not clean left at most one marker, but for the two
cases of `midway`; `CleanIsTrueHolds` follows. All four properties hold for any selections, faults, cuts and
boots, with no further hypothesis.

`InstallProofs`, provisioning. `Progress` says what each position of the script
already guarantees about the card, so that a complete marker found by a later boot
still implies it; `FilesAreVisible` says that user files live only on a recognisable
filesystem, which the script never formats. `CompleteIsReadyHolds` and `DataIsKept`
follow for any number of interruptions and edits.

`RomBrowserProofs`. Neither `CursorInRange` nor `ListMatchesScreen` is inductive: a
list comes back from under menus, and it is reloaded from an index that an earlier
scan wrote. `BrowserInv` adds that an index lists ROMs of its system (`DiskInv`), that a
scan which succeeded has an index (`ScanInv`), that a way back exists only while its
menu is open (`WaysInv`), and that the list belongs to every screen on a way
back (`Chain`). `CursorInRangeHolds`, `ListMatchesScreenHolds` and
`TypeCorrect` follow for every library and every size of page, memory and history.
`DistinctInv` (no ROM twice in a list, in the favourites or in the history) makes
a removal or a toggle change one mark only, and `Marked` carries the marks through the
lists that wait under menus; `MarksAreTrueHolds` follows. `BoundsAssumption` takes the
files found at start to list no ROM twice, as the code that writes them ensures.
`LaunchedIsSelectedHolds` needs that only a launch changes the history. For
`ReturnsWhereLeftHolds`, `LeftInv` follows the remembered place: from the moment a list
is left until another is opened, menus included, the cursor memory holds for it
the path of the entry it was left on. In the list of a system a path is one entry, so the
cursor returns to it; in favourites and history it returns to the first entry of that path.

`GgfeProofs`, the raster pool. `PoolInv` says that `pending` counts the workers that still owe
work to the current generation and that each stripe below the counter is drawn
once or held by one thread; `FrameTheorem` and `DisjointTheorem` follow for any
number of workers and stripes.

`GgfeProofs`, the carousel. `DurableTheorem`: a failed save is followed by a reload, and a failed
reload leaves no choice, so that the menu's choices are always in the file. `SnapTheorem`
rests on an invariant for the insert animation: the snap motion promotes no queued press, so
its target stays the cartridge A was pressed on, and the menu that changes the motion is out of reach.
`MotionTheorem` needs lemmas on remainders (one turn of the ring is no change, the shorter way
round arrives); every motion then ends on its target for any number of cartridges.

`LibraryScanProofs`. A scanner that nobody disturbed is the only user of its temporary name
and of the inode behind it (`TmpInv`, `AloneInv`); what it has written is a prefix of its
own index, and an inode once published clean is open nowhere and is never reused while an
entry names it (`CleanInv`). `CleanScanIsWholeHolds` follows for any systems, processes,
cuts and supply of inodes, whatever a scan finds.

`FrontendLoopProofs`. `Secret` says that the text typed is empty or belongs to the chosen
network, as does the secret of a running connect child; most handlers leave the dialogue
alone (`Aside`). `SecretForItsNetworkHolds` follows. For `DestructionConfirmed`, an action property, `Asked`
says that a pending question is about the row under the cursor, `Answers` what the handler of
a press may make of it, and `Trailed` that the history of the presses agrees with it.
`MenuAssumption` describes the shipped menus: none is empty, repair and reset ask for
confirmation, a page's rows lead to pages that exist. `NoneAssumption` keeps the absent value apart.
`RepeatHasCause` says nothing of what the queue holds, so `RepeatInv` adds `Tells`: the last
event queued for a control says where that control stands. When the queue is read, a repeat that
remains either was there before and no event mentions its control, or the last event of
its control is a press (`ReadInputRepeat`), and then the control is still deflected. A
drain empties the queue and sets `lost` exactly if an event of the repeating control went with it.
`RepeatHasCauseHolds` follows for any controls and any size of the kernel's buffer.

`SettingsProofs`. The three properties share one invariant, as a step of one of the three
writers is prepared by a read several steps earlier. `Copies` says that the copy a writer
is about to rename over `system.json` agrees with the file on every key but those the other
writer changed since the read (`raced`), which become `lost` with the rename.
`FileInv` is `LastSaveStands`. `HardwareInv` names the key that a save
under way has written but not applied (`Unapplied`), the only one besides the refused ones in which file and
hardware may differ, and the switched-off radio of a Wi-Fi save. `ShownInv` names the rows that a save under way will
still replace (`Replaced`), and says that its copy agrees with the file on every row that is not stale.
`Ranges` keeps numbers and the time zone in what a restart accepts, so that what it reads
is what was saved. `LastSaveStandsHolds`, `ShownIsSavedHolds` and
`HardwareFollowsFileHolds` follow for any number of operations and faults, any themes and any display rows.
`FactoryIsTyped` takes volume and brightness of the shipped file to be numbers, as they are.

`LaunchSessionProofs`. `RelaunchesWhatWasCut` compares a plan made at boot with one made before
the cut, so `RelaunchInv` states it as what `boot` would do now: from the saved history on,
it would plan the game of the launch again (`WouldRelaunch`), because the record of the history comes first
when it is read (`LaunchIsRecorded`), it names the profile, and nothing but a
change of the card, which ends the claim, runs between the record and the relaunch.
For `ImplementsStoreHolds`, `Documents` says that the file's arrays are typed and name no
key twice, a load gives arrays within their limits (`LoadedState`), loading what was
saved changes nothing (`LoadAgain`), and each edit changes the one record of its key
(`EditResult`), or is refused by a full array; a command is therefore one step of the store, and any other
action a stutter (`StoreStep`). `ShownIsLaunchedHolds` is a case distinction over the three
places a profile can come from. `OverrideAssumption` takes the documents a device
starts with to be typed and without a repeated key, as the code writes them, and the values set
by commands to be among the accepted ones, as the option parser checks; `LaunchAssumption`
takes the first histories to be lists and profiles to have names.

Loops. What the code does in a loop over an array or a queue is a recursive function of the turn (`LoadEntries`,
`ApplyOptions`, `Deduplicated`, `Changed`, `read_input_actions`, `WithoutButtons`). `Recursion` proves from the
well-foundedness of the naturals that such a function exists, and `UpTo` that a set of good
turns which contains 0 and is closed under the next turn contains the last: induction
stated about sets, which the provers can use.

Only model-checked: all liveness (`InterruptedIsRestored`, `DeadProbationEnds`,
`Concludes`, `FirstBootCompletes`, `LaunchReturns`, `KeysSettle`, `PoolReturns`), which is
outside the prover; and `EachGameOnce`: what a scan finds is a fold of folds over a directory tree whose
result is sorted, the sorted order is a chosen permutation, and that one exists is an induction
over the list which none of the lemmas above reaches.

## 6. Limits

`CleanIsTrue` and `NoStaleProof` except what happens between the markers and the unmount
(observation 5). `Concludes` is checked for one selection: with two it has an untimed counterexample, a
finalizer of the first that holds the claim longer than the finalizer of the second sleeps.
`FirstBootCompletes` needs leftover sectors that are blank or FAT; a foreign
signature stops every boot in E24D. `MarksAreTrue` assumes `favorites.json` can be
read when marks are set.
`ShownIsSaved` excepts rows whose key the volume keys saved since the page was
opened, numbers whose backend did not answer and an output that could not be applied;
`KeysSettle` excepts a failing card, a failed audio command and overlapping saves. A rename is
taken as durable in `Settings`, an empty file as one without keys; the card cannot fill
half of it.

Not modelled: drawing, fonts, 3D and pixels (`plumos_fbdev_renderer.h`, `plumos_cart3d.h`, most
of `plumos_ggfe.c`); artwork lookup and scraping; the environment
set-up of emulator launch scripts; build, release and device-test tooling; vendored patches;
the sleep branch (the kernel suspends, no state is kept); the choice of an A/B slot (a
straight line of mounts); in the frontend kernel autorepeat, the stdin and script modes,
the rescue screen and the clean-up process; the power key of the volume service. The second
card, the DRM broker, the network services and the PortMaster updater are scripts and
small programs with control of their own and have no module yet.

## 7. Plan

Done, in this order: `RuntimeUpdate`, `RuntimeBoot`, `PowerTransaction`, `StorageProvision`,
`RomBrowser`, `CoreOverrides` with `OverrideStore`, `LaunchSession`, `StripePool`, `Cartridges`,
`Settings`, `FrontendLoop`, `LibraryScan`. Open:

1. Theorems: `EachGameOnce`, which needs the scan
   written as functions of the turn, like the loops above, and a sort by insertion.
2. `SecondCard`: mount manager, repair lock, health record, media index; abstract
   specification: one owner per medium, dirty until proven clean.
3. `DisplayShare` (broker and overlay), `NetworkServices`, `PortMasterSwap`.

## 8. Running

    tlc -workers 2 -config RuntimeBoot.cfg MCRuntimeBoot
    tlapm InstallProofs.tla

and likewise for every run of `PROJECT.json` and every `*Proofs` module.
