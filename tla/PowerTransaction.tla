-------------------------- MODULE PowerTransaction --------------------------
(***************************************************************************)
(* Shutdown and reboot: bin/plumos-safe-shutdown (one run per selection),  *)
(* the delayed owner bin/plumos-power-request-finalizer it leaves behind,  *)
(* PID 1 (rootfs/bubble-frontend/init: restart loop, recovery console and  *)
(* finalize_power_action), and the initramfs, which reads the clean-       *)
(* shutdown markers at the next boot.                                      *)
(*                                                                         *)
(* Each action is one externally visible effect of a script; a file        *)
(* operation is durable when it returns.  /run (the request, the claim,    *)
(* every process) is lost with power, the two markers are not.             *)
(***************************************************************************)
EXTENDS Naturals, FiniteSets

CONSTANTS
    Selections,    \* runs of plumos-safe-shutdown, each with its finalizer
    Faults,        \* steps that may fail, a subset of FaultKinds
    RestartLimit,  \* frontend exits before the recovery console
    MaxCuts,       \* bound: power cuts at arbitrary moments
    MaxBoots,      \* bound: boots
    PID1, None

FaultKinds ==
    {"quiesce", "marker", "umount", "commit", "sd2", "remount", "user",
     "backend"}

ASSUME PowerAssumption ==
    /\ IsFiniteSet(Selections)
    /\ PID1 \notin Selections
    /\ Faults \subseteq FaultKinds
    /\ RestartLimit \in Nat \ {0}
    /\ MaxCuts \in Nat
    /\ MaxBoots \in Nat
    /\ None \notin {"reboot", "shutdown", "sync"}

VARIABLES
    sys,       \* "off", "initramfs", "consume" (markers read) or "on"
    p3mark,    \* /storage/plumos/provision/clean-shutdown
    p4mark,    \* .plumos-clean-shutdown on the user partition
    seen,      \* previous_shutdown_p3
    previous,  \* previous_shutdown of this boot
    user,      \* /storage/user is mounted, read-write
    storage,   \* /storage is mounted read-write
    sd2,       \* the second card is mounted, read-write
    services,  \* network services and volume keys run
    request,   \* /run/plumos/power-action/request
    claim,     \* /run/plumos/power-action/finalizing
    pc,        \* where PID 1 and each selection are
    act,       \* the action each of them carries
    by,        \* who started a selection: the frontend or another session
    fe,        \* the supervised frontend
    exiting,   \* exit_requested of the frontend
    console,   \* PID 1 is in its recovery console
    restarts,  \* restart_count
    dirty,     \* history: the last power loss caught a writable filesystem
    midway,    \* history: the power was cut inside a transaction, or another
               \* power action ended a script between its markers and its
               \* unmount
    gaveUp,    \* history: a script ended in one of the branches that leave
               \* the user partition unmounted and bring nothing back
    cuts, boots

marks == <<p3mark, p4mark>>
mounts == <<user, storage, sd2>>
frontend == <<fe, exiting, restarts, console>>
life == <<sys, seen, previous, dirty, cuts, boots>>
bootVars == <<life, midway, gaveUp>>
vars == <<marks, mounts, services, request, claim, pc, act, by, frontend, bootVars>>

Procs == {PID1} \cup Selections
Actions == {"reboot", "shutdown"}

Script == {"quiesce", "stopSd2", "choose", "reuse", "reissue", "mark", "unmount",
           "services", "commit"}
Waiting == {"armed", "claiming"}
Final == {"claimed", "invalidate", "finQuiesce", "finSd2", "remount",
          "refuse", "backend"}

Running == sys = "on"
Goto(p, l) == pc' = [pc EXCEPT ![p] = l]
\* Where finalize_power_action returns to.
Return(p) == IF p # PID1 THEN "done" ELSE IF console THEN "watch" ELSE "pause"

-----------------------------------------------------------------------------
Init ==
    /\ sys = "on" /\ seen = FALSE /\ previous = "unknown" /\ dirty = FALSE
    /\ midway = FALSE /\ gaveUp = FALSE
    /\ cuts = 0 /\ boots = 0
    /\ p3mark = FALSE /\ p4mark = FALSE
    /\ user = TRUE /\ storage = TRUE /\ sd2 = FALSE
    /\ services = FALSE
    /\ request = None /\ claim = FALSE
    /\ pc = [p \in Procs |-> IF p = PID1 THEN "wait" ELSE "unused"]
    /\ act = [p \in Procs |-> None]
    /\ by = [s \in Selections |-> "other"]
    /\ fe = "starting" /\ exiting = FALSE /\ restarts = 0 /\ console = FALSE

-----------------------------------------------------------------------------
(* plumos-safe-shutdown *)

\* The frontend waits for the script it starts; the power overlay, an SSH
\* session or a frontend outside the supervisor may start one at any time.
\* "sync" is a shutdown without --poweroff.
Select(s) ==
    /\ Running /\ pc[s] = "unused"
    /\ \E w \in {"ui", "other"}, a \in Actions \cup {"sync"} :
        /\ w = "ui" => /\ fe = "up" /\ ~exiting
                       /\ \A t \in Selections : by[t] = "ui" => pc[t] \notin Script
        /\ act' = [act EXCEPT ![s] = a]
        /\ by' = [by EXCEPT ![s] = w]
    /\ Goto(s, "quiesce")
    /\ UNCHANGED <<marks, mounts, services, request, claim, frontend, bootVars>>

\* The game and the users of the media are terminated, or nothing happens;
\* a log that cannot be opened for writing fails the call.
QuiesceMedia(s) ==
    /\ Running /\ pc[s] = "quiesce"
    /\ \/ storage /\ Goto(s, "stopSd2")
       \/ ("quiesce" \in Faults \/ ~storage) /\ Goto(s, "done")
    /\ UNCHANGED <<marks, mounts, services, request, claim, act, by, frontend, bootVars>>

\* A card that cannot be stopped is only logged.
StopSd2(s) ==
    /\ Running /\ pc[s] = "stopSd2"
    /\ \/ sd2' = FALSE
       \/ "sd2" \in Faults /\ sd2' = sd2
    /\ Goto(s, IF act[s] = "sync" THEN "done" ELSE "choose")
    /\ UNCHANGED <<marks, user, storage, services, request, claim, act, by, frontend, bootVars>>

\* The user partition is gone and a request is pending: this selection joins
\* that transaction, with the request as it is or with its own.
Choose(s) ==
    /\ Running /\ pc[s] = "choose"
    /\ Goto(s, CASE user \/ request = None -> "mark"
                 [] ~user /\ request = act[s] -> "reuse"
                 [] OTHER -> "reissue")
    /\ UNCHANGED <<marks, mounts, services, request, claim, act, by, frontend, bootVars>>

\* Mutant of Requested: no finalizer is started behind the request.
RequestedUnarmed(s) ==
    /\ Goto(s, "done")
    /\ exiting' = (exiting \/ (by[s] = "ui" /\ fe = "up"))
    /\ UNCHANGED <<fe, restarts, console>>

\* A successful script lets the frontend that started it exit.
Requested(s) ==
    /\ Goto(s, "armed")
    /\ exiting' = (exiting \/ (by[s] = "ui" /\ fe = "up"))
    /\ UNCHANGED <<fe, restarts, console>>

\* Nothing is written: if the request was consumed since it was read, only
\* the new finalizer looks for it.
Reuse(s) ==
    /\ Running /\ pc[s] = "reuse"
    /\ Requested(s)
    /\ UNCHANGED <<marks, mounts, services, request, claim, act, by, bootVars>>

Reissue(s) ==
    /\ Running /\ pc[s] = "reissue"
    /\ \/ request' = act[s] /\ Requested(s)
       \/ "commit" \in Faults /\ Goto(s, "done") /\ UNCHANGED <<request, frontend>>
    /\ UNCHANGED <<marks, mounts, services, claim, act, by, bootVars>>

\* Both markers, or neither; without a user partition there is no proof.
Mark(s) ==
    /\ Running /\ pc[s] = "mark"
    /\ \/ user /\ storage /\ p3mark' = TRUE /\ p4mark' = TRUE /\ Goto(s, "unmount")
       \/ user /\ ("marker" \in Faults \/ ~storage)
          /\ p3mark' = (p3mark /\ ~storage) /\ p4mark' = FALSE /\ Goto(s, "done")
       \/ ~user /\ p3mark' = (p3mark /\ ~storage) /\ p4mark' = p4mark /\ Goto(s, "done")
    /\ UNCHANGED <<mounts, services, request, claim, act, by, frontend, bootVars>>

\* A user partition that stays mounted takes its markers back.
Unmount(s) ==
    /\ Running /\ pc[s] = "unmount"
    /\ \/ user /\ user' = FALSE /\ Goto(s, "services") /\ UNCHANGED marks
       \/ ("umount" \in Faults \/ ~user)
          /\ p3mark' = (p3mark /\ ~storage) /\ p4mark' = (p4mark /\ ~user)
          /\ user' = user /\ Goto(s, "done")
    /\ UNCHANGED <<storage, sd2, services, request, claim, act, by, frontend, bootVars>>

\* terminate-storage /storage by p: everything that holds a file there except
\* PID 1, p and its ancestors; a script started by the frontend spares it.  A
\* shell keeps the script it runs open, so the other scripts and the finalizers
\* die where they stand, the owner of the claim included.
Ancestor(p) == p # PID1 /\ by[p] = "ui" /\ pc[p] \in Script
KillStorageUsers(p, l) ==
    /\ pc' = [q \in Procs |->
                 IF q = p THEN l
                 ELSE IF q # PID1 /\ pc[q] # "unused" THEN "done"
                 ELSE pc[q]]
    /\ fe' = IF Ancestor(p) THEN fe ELSE "down"
    /\ exiting' = (exiting /\ Ancestor(p))
    /\ UNCHANGED <<restarts, console>>

\* Some survive, and p goes on at l, with the others terminated or not; a log
\* that cannot be opened terminates nobody.
QuiesceFails(p, l) ==
    \/ ("quiesce" \in Faults \/ ~storage) /\ Goto(p, l) /\ UNCHANGED frontend
    \/ "quiesce" \in Faults /\ storage /\ KillStorageUsers(p, l)

\* Some script has written its markers and not yet unmounted.
Halfway == \E s \in Selections : pc[s] = "unmount"

\* Volume keys and network services stop, then the remaining users of
\* /storage are terminated; when some survive the script gives up here.
StopServices(s) ==
    /\ Running /\ pc[s] = "services"
    /\ services' = FALSE
    /\ \/ /\ storage /\ KillStorageUsers(s, "commit")
          /\ midway' = (midway \/ Halfway)
          /\ UNCHANGED <<p3mark, gaveUp>>
       \/ /\ QuiesceFails(s, "done")
          /\ p3mark' = (p3mark /\ ~storage) /\ gaveUp' = ~user /\ midway' = midway
    /\ UNCHANGED <<p4mark, mounts, request, claim, act, by, life>>

\* Renaming the staged request commits the transaction to PID 1; the
\* finalizer is armed behind it.
Commit(s) ==
    /\ Running /\ pc[s] = "commit"
    /\ \/ request' = act[s] /\ Requested(s) /\ UNCHANGED <<p3mark, gaveUp>>
       \/ "commit" \in Faults /\ p3mark' = (p3mark /\ ~storage) /\ gaveUp' = ~user
          /\ Goto(s, "done") /\ UNCHANGED <<request, frontend>>
    /\ UNCHANGED <<p4mark, mounts, services, claim, act, by, life, midway>>

-----------------------------------------------------------------------------
(* The claim *)

\* The finalizer sleeps, then goes on only for the action it was armed with.
FallbackWake(s) ==
    /\ Running /\ pc[s] = "armed"
    /\ Goto(s, IF request = act[s] THEN "claiming" ELSE "done")
    /\ UNCHANGED <<marks, mounts, services, request, claim, act, by, frontend, bootVars>>

\* Mutant of Claim: mkdir -p, which succeeds on an existing claim.
ClaimShared(p) ==
    /\ Running /\ pc[p] = "claiming"
    /\ claim' = TRUE
    /\ Goto(p, "claimed")
    /\ UNCHANGED <<marks, mounts, services, request, act, by, frontend, bootVars>>

\* mkdir of the claim directory is the lock; whoever finds it taken leaves.
Claim(p) ==
    /\ Running /\ pc[p] = "claiming"
    /\ claim' = TRUE
    /\ Goto(p, IF claim THEN Return(p) ELSE "claimed")
    /\ UNCHANGED <<marks, mounts, services, request, act, by, frontend, bootVars>>

\* The owner consumes the request.  The finalizer looks at it once more and
\* gives the claim back when the action has changed; PID 1 does not.
Consume(p) ==
    /\ Running /\ pc[p] = "claimed"
    /\ IF p # PID1 /\ request # act[p]
       THEN claim' = FALSE /\ Goto(p, "done") /\ UNCHANGED request
       ELSE request' = None /\ Goto(p, "invalidate") /\ UNCHANGED claim
    /\ UNCHANGED <<marks, mounts, services, act, by, frontend, bootVars>>

-----------------------------------------------------------------------------
(* The owner's work: finalize_power_action and the finalizer's main part *)

\* A user partition that is mounted again invalidates the proof.
Invalidate(p) ==
    /\ Running /\ pc[p] = "invalidate"
    /\ p3mark' = (p3mark /\ ~(user /\ storage))
    /\ Goto(p, "finQuiesce")
    /\ UNCHANGED <<p4mark, mounts, services, request, claim, act, by, frontend, bootVars>>

FinalQuiesce(p) ==
    /\ Running /\ pc[p] = "finQuiesce"
    /\ \/ /\ storage /\ KillStorageUsers(p, IF p = PID1 THEN "remount" ELSE "finSd2")
          /\ midway' = (midway \/ Halfway)
       \/ QuiesceFails(p, "refuse") /\ midway' = midway
    /\ UNCHANGED <<marks, mounts, services, request, claim, act, by, life, gaveUp>>

\* Only the finalizer stops the second card again.
FinalStopSd2(s) ==
    /\ Running /\ pc[s] = "finSd2"
    /\ \/ sd2' = FALSE /\ Goto(s, "remount")
       \/ "sd2" \in Faults /\ Goto(s, "refuse") /\ UNCHANGED sd2
    /\ UNCHANGED <<marks, user, storage, services, request, claim, act, by, frontend, bootVars>>

\* Mutant of Remount: the action goes on when the remount is refused.
RemountBestEffort(p) ==
    /\ Running /\ pc[p] = "remount"
    /\ storage' = (fe = "up" \/ (storage /\ "remount" \in Faults))
    /\ Goto(p, "backend")
    /\ UNCHANGED <<marks, user, sd2, services, request, claim, act, by, frontend, bootVars>>

\* A running frontend has its log open for writing, which refuses the remount.
Remount(p) ==
    /\ Running /\ pc[p] = "remount"
    /\ \/ fe # "up" /\ storage' = FALSE /\ Goto(p, "backend")
       \/ (fe = "up" \/ "remount" \in Faults) /\ Goto(p, "refuse") /\ UNCHANGED storage
    /\ UNCHANGED <<marks, user, sd2, services, request, claim, act, by, frontend, bootVars>>

\* Mutant of Refuse: the markers stay.
RefuseKeepsMarkers(p) ==
    /\ Running /\ pc[p] = "refuse"
    /\ user' \in {TRUE} \cup (IF "user" \in Faults THEN {user} ELSE {})
    /\ claim' = FALSE
    /\ Goto(p, Return(p))
    /\ UNCHANGED <<marks, storage, sd2, services, request, act, by, frontend, bootVars>>

\* Mutant of Refuse: the user partition is not mounted again.
RefuseLeavesUser(p) ==
    /\ Running /\ pc[p] = "refuse"
    /\ p3mark' = (p3mark /\ ~storage)
    /\ p4mark' = (p4mark /\ ~user)
    /\ claim' = FALSE
    /\ Goto(p, Return(p))
    /\ UNCHANGED <<mounts, services, request, act, by, frontend, bootVars>>

\* The refusal takes the proof back, brings the user partition back and gives
\* up the claim.
Refuse(p) ==
    /\ Running /\ pc[p] = "refuse"
    /\ p3mark' = (p3mark /\ ~storage)
    /\ user' \in {TRUE} \cup (IF "user" \in Faults THEN {user} ELSE {})
    /\ p4mark' = (p4mark /\ ~user')
    /\ gaveUp' = ~user'
    /\ claim' = FALSE
    /\ Goto(p, Return(p))
    /\ UNCHANGED <<storage, sd2, services, request, act, by, frontend, life, midway>>

\* A transaction that may still end in power-off: its script is past the
\* markers, its request waits, or its owner has consumed the request.
InFlight ==
    \/ request # None
    \/ \E s \in Selections : pc[s] \in {"unmount", "services", "commit"}
    \/ \E p \in Procs : pc[p] \in Final \ {"claimed"}

\* reboot -f or poweroff -f.
PowerLost ==
    /\ sys' = "off"
    /\ dirty' = IF sys = "initramfs" THEN dirty ELSE user \/ storage
    /\ user' = FALSE /\ storage' = FALSE /\ sd2' = FALSE
    /\ services' = FALSE
    /\ request' = None /\ claim' = FALSE
    /\ pc' = [p \in Procs |-> IF pc[p] = "unused" THEN "unused" ELSE "done"]
    /\ act' = [p \in Procs |-> None]
    /\ by' = [s \in Selections |-> "other"]
    /\ fe' = "down" /\ exiting' = FALSE /\ restarts' = 0 /\ console' = FALSE
    /\ gaveUp' = FALSE

Backend(p) ==
    /\ Running /\ pc[p] = "backend"
    /\ PowerLost
    /\ midway' = (midway \/ Halfway)
    /\ UNCHANGED <<marks, seen, previous, cuts, boots>>

\* The call returns.  The finalizer frees the claim and ends; the console's
\* watcher was replaced by the call and is gone, claim and all.  A supervising
\* PID 1 that returns is the end of the kernel, as in Backend.
BackendReturns(p) ==
    /\ Running /\ pc[p] = "backend"
    /\ "backend" \in Faults /\ (p = PID1 => console)
    /\ claim' = (p = PID1)
    /\ gaveUp' = ~user
    /\ Goto(p, "done")
    /\ UNCHANGED <<marks, mounts, services, request, act, by, frontend, life, midway>>

-----------------------------------------------------------------------------
(* PID 1 and the frontend *)

\* The launcher mounts the second card before it starts the services.
FrontendMount ==
    /\ Running /\ fe = "starting"
    /\ sd2' \in {sd2, TRUE}
    /\ fe' = "mounted"
    /\ UNCHANGED <<marks, user, storage, services, request, claim, pc, act, by,
                   exiting, restarts, console, bootVars>>

\* A launcher that cannot write its log exits.
FrontendStart ==
    /\ Running /\ fe = "mounted"
    /\ IF storage THEN fe' = "up" /\ services' = TRUE
                  ELSE fe' = "down" /\ UNCHANGED services
    /\ UNCHANGED <<marks, mounts, request, claim, pc, act, by,
                   exiting, restarts, console, bootVars>>

\* exit_requested after a successful selection, or a crash.
FrontendExit(asked) ==
    /\ Running /\ fe = "up" /\ (asked => exiting)
    /\ fe' = "down" /\ exiting' = FALSE
    /\ UNCHANGED <<marks, mounts, services, request, claim, pc, act, by,
                   restarts, console, bootVars>>

\* The supervisor reads the request when its frontend is gone, the recovery
\* console whenever one appears.
ReadRequest ==
    /\ Running
    /\ \/ pc[PID1] = "wait" /\ fe = "down"
       \/ pc[PID1] = "watch" /\ request # None
    /\ act' = [act EXCEPT ![PID1] = request]
    /\ Goto(PID1, IF request = None THEN "pause" ELSE "claiming")
    /\ UNCHANGED <<marks, mounts, services, request, claim, by, frontend, bootVars>>

\* The restart budget decides between the frontend and the console.
Restart ==
    /\ Running /\ pc[PID1] = "pause"
    /\ restarts' = restarts + 1
    /\ IF restarts + 1 >= RestartLimit
       THEN console' = TRUE /\ fe' = fe /\ Goto(PID1, "watch")
       ELSE console' = FALSE /\ fe' = "starting" /\ Goto(PID1, "wait")
    /\ UNCHANGED <<marks, mounts, services, request, claim, act, by, exiting, bootVars>>

-----------------------------------------------------------------------------
(* Power loss and the next boot *)

Cut ==
    /\ sys # "off" /\ cuts < MaxCuts
    /\ cuts' = cuts + 1
    /\ PowerLost
    /\ midway' = (midway \/ (Running /\ InFlight))
    /\ UNCHANGED <<marks, seen, previous, boots>>

\* The initramfs looks at p3, read-only, before it provisions.
BootReadP3 ==
    /\ sys = "off" /\ boots < MaxBoots
    /\ sys' = "initramfs" /\ boots' = boots + 1
    /\ seen' = p3mark
    /\ previous' = "unknown"
    /\ UNCHANGED <<marks, mounts, services, request, claim, pc, act, by, frontend, dirty, midway, gaveUp, cuts>>

\* Both markers present is a clean shutdown; they are removed one by one.
BootReport ==
    /\ sys = "initramfs"
    /\ sys' = "consume"
    /\ user' = TRUE /\ storage' = TRUE
    /\ previous' = IF seen /\ p4mark THEN "clean" ELSE "unknown"
    /\ p3mark' = FALSE
    /\ UNCHANGED <<p4mark, sd2, services, request, claim, pc, act, by, frontend,
                   seen, dirty, midway, gaveUp, cuts, boots>>

BootConsume ==
    /\ sys = "consume"
    /\ sys' = "on"
    /\ p4mark' = FALSE
    /\ pc' = [pc EXCEPT ![PID1] = "wait"]
    /\ fe' = "starting"
    /\ midway' = FALSE
    /\ UNCHANGED <<p3mark, mounts, services, request, claim, act, by,
                   exiting, restarts, console, seen, previous, dirty, gaveUp, cuts, boots>>

-----------------------------------------------------------------------------
ScriptStep(s) ==
    \/ QuiesceMedia(s) \/ StopSd2(s) \/ Choose(s) \/ Reuse(s) \/ Reissue(s) \/ Mark(s)
    \/ Unmount(s) \/ StopServices(s) \/ Commit(s)
FinalStep(p) ==
    \/ Claim(p) \/ Consume(p) \/ Invalidate(p) \/ FinalQuiesce(p)
    \/ Remount(p) \/ Refuse(p) \/ Backend(p) \/ BackendReturns(p)
FallbackStep(s) == FallbackWake(s) \/ FinalStopSd2(s)
Supervise == ReadRequest \/ Restart
Launch == FrontendMount \/ FrontendStart \/ FrontendExit(TRUE)
Boot == BootReport \/ BootConsume

Next ==
    \/ \E s \in Selections : Select(s) \/ ScriptStep(s) \/ FallbackStep(s)
    \/ \E p \in Procs : FinalStep(p)
    \/ Supervise \/ Launch \/ Boot
    \/ FrontendExit(FALSE) \/ Cut \/ BootReadP3

\* Every process is scheduled; nobody has to press a button, crash or pull
\* the plug.
Fairness ==
    /\ \A s \in Selections : WF_vars(ScriptStep(s)) /\ WF_vars(FallbackStep(s))
    /\ \A p \in Procs : WF_vars(FinalStep(p))
    /\ WF_vars(Supervise) /\ WF_vars(Launch) /\ WF_vars(Boot)

Spec == Init /\ [][Next]_vars
FairSpec == Spec /\ Fairness

-----------------------------------------------------------------------------
(* Properties *)

Flags ==
    /\ p3mark \in BOOLEAN /\ p4mark \in BOOLEAN /\ seen \in BOOLEAN
    /\ user \in BOOLEAN /\ storage \in BOOLEAN /\ sd2 \in BOOLEAN
    /\ services \in BOOLEAN /\ claim \in BOOLEAN /\ exiting \in BOOLEAN
    /\ console \in BOOLEAN /\ dirty \in BOOLEAN
    /\ midway \in BOOLEAN /\ gaveUp \in BOOLEAN

TypeOK ==
    /\ Flags
    /\ sys \in {"off", "initramfs", "consume", "on"}
    /\ previous \in {"clean", "unknown"}
    /\ request \in Actions \cup {None}
    /\ pc \in [Procs -> Script \cup Waiting \cup Final \cup
                        {"unused", "done", "wait", "watch", "pause"}]
    /\ act \in [Procs -> Actions \cup {"sync", None}]
    /\ by \in [Selections -> {"ui", "other"}]
    /\ fe \in {"down", "starting", "mounted", "up"}
    /\ restarts \in 0..RestartLimit
    /\ cuts \in 0..MaxCuts /\ boots \in 0..MaxBoots

Owners == {p \in Procs : pc[p] \in Final}

\* PID 1 and any number of delayed finalizers never finish a power action
\* together: whoever is past mkdir of the claim is alone there.
OneOwner == \A p, q \in Owners : p = q

\* Refused, failed or abandoned transactions leave no clean-shutdown proof: a
\* running system that can still write to a filesystem holds both markers only
\* while an action is in flight, or after another power action has ended a
\* script between its markers and its unmount.
NoStaleProof ==
    Running /\ (user \/ storage) /\ p3mark /\ p4mark => InFlight \/ midway

\* previous_shutdown=clean is reported only if /storage was read-only and the
\* user partition unmounted when power went, or if the power was cut inside a
\* transaction, or if another power action ended a script between its markers
\* and its unmount.
CleanIsTrue ==
    sys = "consume" /\ previous = "clean" => ~dirty \/ midway

\* The user partition is unavailable only while an action is in flight, or
\* after one of the four branches that give up without it: whatever is
\* selected again, killed, refused or restarted meanwhile.
NotTrapped == Running /\ ~user => InFlight \/ gaveUp

\* A committed action ends in power-off or in a system whose user partition is
\* back and whose claim is free.
Concludes ==
    request # None ~> sys = "off" \/ (request = None /\ ~claim /\ user)
=============================================================================
