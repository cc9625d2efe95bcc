-------------------------- MODULE StorageProvision --------------------------
(***************************************************************************)
(* First-boot storage provisioning by the external initramfs: partition 3  *)
(* (system) is grown to its final size, its ext4 with it, and partition 4  *)
(* (user data) is created, formatted and seeded; then a marker says that   *)
(* provisioning is complete.  rootfs/bubble-external-initramfs: init calls *)
(* usr/sbin/plumos-bubble-provision-storage.                               *)
(*                                                                         *)
(* Each action is one tool that changes the card.  Power may go before,    *)
(* after and (for resize2fs and mkfs) during a tool; a tool may fail; and  *)
(* the card may be edited in another computer while the device is off.     *)
(***************************************************************************)
EXTENDS Naturals

CONSTANTS
    Leftovers,  \* what p4's first sectors may hold when mkpart creates it
    MaxUpsets,  \* bound: power cuts and tool failures
    MaxEdits    \* bound: edits of the card in another computer

ASSUME ProvisionAssumption ==
    /\ Leftovers \subseteq {"blank", "fat", "foreign"}
    /\ MaxUpsets \in Nat
    /\ MaxEdits \in Nat

VARIABLES
    p3part,    \* size of partition 3: the image's or the final one
    p3fs,      \* size of its ext4; "torn" after an interrupted resize2fs
    intent,    \* plumos/provision/p4-create-authorized
    p4,        \* content of partition 4
    data,      \* p4 holds files somebody put there
    seeded,    \* user directories and stage markers are written
    complete,  \* plumos/provision/complete
    step,      \* where the initramfs is
    fresh,     \* format_p4: this boot created p4
    upsets, edits

card == <<p3part, p3fs, intent, p4, data, seeded, complete>>
provisionVars == <<card, step, fresh, upsets, edits>>

\* What blkid reports: no type, vfat labelled PLUMOS, or something else.  An
\* interrupted mkfs.fat leaves either of the first two.
NoType == {"blank", "tornBlank"}
Labelled == {"fat", "tornFat"}

ProvisionInit ==
    /\ p3part = "seed" /\ p3fs = "seed"
    /\ intent = FALSE /\ seeded = FALSE /\ complete = FALSE
    /\ p4 = "absent" /\ data = FALSE
    /\ step = "off" /\ fresh = FALSE
    /\ upsets = 0 /\ edits = 0

SwitchOn ==
    /\ step = "off"
    /\ step' = "check" /\ fresh' = FALSE
    /\ UNCHANGED <<card, upsets, edits>>

\* Layout checks.  A complete card is only validated, never repaired.
CheckLayout ==
    /\ step = "check"
    /\ step' = IF complete
             THEN IF p3part = "target" /\ p4 \in Labelled THEN "seed" ELSE "failed"
             ELSE IF p3part = "seed" THEN IF p4 = "absent" THEN "expand" ELSE "failed"
             ELSE "resize"
    /\ UNCHANGED <<card, fresh, upsets, edits>>

ExpandP3 ==
    /\ step = "expand"
    /\ p3part' = "target"
    /\ step' = "resize"
    /\ UNCHANGED <<p3fs, intent, p4, data, seeded, complete, fresh, upsets, edits>>

\* e2fsck -p, resize2fs, e2fsck -p; e2fsck repairs an interrupted resize.
ResizeP3 ==
    /\ step = "resize"
    /\ p3fs' = "target"
    /\ step' = IF p4 = "absent" THEN "intent" ELSE "inspect"
    /\ UNCHANGED <<p3part, intent, p4, data, seeded, complete, fresh, upsets, edits>>

\* Mutant of WriteIntent: the permission is not made durable.
SkipIntent ==
    /\ step = "intent"
    /\ step' = "create"
    /\ UNCHANGED <<card, fresh, upsets, edits>>

\* The durable permission to format the partition that is about to exist.
WriteIntent ==
    /\ step = "intent"
    /\ intent' = TRUE
    /\ step' = "create"
    /\ UNCHANGED <<p3part, p3fs, p4, data, seeded, complete, fresh, upsets, edits>>

CreateP4 ==
    /\ step = "create"
    /\ p4' \in Leftovers
    /\ data' = (p4' # "blank")
    /\ fresh' = TRUE
    /\ step' = "inspect"
    /\ UNCHANGED <<p3part, p3fs, intent, seeded, complete, upsets, edits>>

\* Mutant of InspectP4: an unexpected filesystem is formatted as well.
InspectP4FormatsUnknown ==
    /\ step = "inspect"
    /\ step' = IF p4 \in Labelled THEN "verify" ELSE IF fresh \/ intent THEN "format" ELSE "failed"
    /\ UNCHANGED <<card, fresh, upsets, edits>>

\* Only a p4 without a type is formatted, by the boot that created it or
\* under a durable intent.
InspectP4 ==
    /\ step = "inspect"
    /\ step' = CASE p4 \in Labelled -> "verify"
               [] p4 \in NoType /\ (fresh \/ intent) -> "format"
               [] OTHER -> "failed"
    /\ UNCHANGED <<card, fresh, upsets, edits>>

FormatP4 ==
    /\ step = "format"
    /\ p4' = "fat" /\ data' = FALSE
    /\ step' = "verify"
    /\ UNCHANGED <<p3part, p3fs, intent, seeded, complete, fresh, upsets, edits>>

\* fsck.fat -a, which completes an interrupted format.
VerifyP4 ==
    /\ step = "verify"
    /\ p4' = "fat"
    /\ step' = "seed"
    /\ UNCHANGED <<p3part, p3fs, intent, data, seeded, complete, fresh, upsets, edits>>

\* Mutant of SeedP4: the complete marker is written with the stage markers.
SeedP4AndComplete ==
    /\ step = "seed"
    /\ complete' = TRUE
    /\ step' = "complete"
    /\ UNCHANGED <<p3part, p3fs, intent, p4, data, seeded, fresh, upsets, edits>>

\* Mounts, user directories, .plumos-ready, the four stage markers, sync.
SeedP4 ==
    /\ step = "seed"
    /\ seeded' = TRUE
    /\ step' = "complete"
    /\ UNCHANGED <<p3part, p3fs, intent, p4, data, complete, fresh, upsets, edits>>

MarkComplete ==
    /\ step = "complete"
    /\ complete' = TRUE /\ seeded' = TRUE
    /\ step' = "up"
    /\ UNCHANGED <<p3part, p3fs, intent, p4, data, fresh, upsets, edits>>

\* The owner copies games to p4.
UserWrites ==
    /\ step = "up"
    /\ data' = TRUE
    /\ UNCHANGED <<p3part, p3fs, intent, p4, seeded, complete, step, fresh, upsets, edits>>

ShutDown ==
    /\ step \in {"up", "failed"}
    /\ step' = "off"
    /\ UNCHANGED <<card, fresh, upsets, edits>>

\* What a tool leaves when power goes while it runs.
Interrupted ==
    \/ UNCHANGED card
    \/ step = "resize" /\ p3fs # "target" /\ p3fs' = "torn"
       /\ UNCHANGED <<p3part, intent, p4, data, seeded, complete>>
    \/ step = "format" /\ p4' \in {"tornBlank", "tornFat"} /\ data' = FALSE
       /\ UNCHANGED <<p3part, p3fs, intent, seeded, complete>>

\* A power cut anywhere, or a tool that fails and stops in the console.
Upset ==
    /\ step # "off" /\ upsets < MaxUpsets
    /\ upsets' = upsets + 1
    /\ Interrupted
    /\ \/ step' = "off"
       \/ step \notin {"up", "failed"} /\ step' = "failed"
    /\ UNCHANGED <<fresh, edits>>

\* Another computer deletes p4, puts a blank one there or formats it its way.
EditCard ==
    /\ step = "off" /\ edits < MaxEdits
    /\ edits' = edits + 1
    /\ p4' \in {"absent", "blank", "foreign"}
    /\ data' = (p4' = "foreign")
    /\ UNCHANGED <<p3part, p3fs, intent, seeded, complete, step, fresh, upsets>>

Provision ==
    \/ CheckLayout \/ ExpandP3 \/ ResizeP3 \/ WriteIntent \/ CreateP4
    \/ InspectP4 \/ FormatP4 \/ VerifyP4 \/ SeedP4 \/ MarkComplete

ProvisionNext == SwitchOn \/ Provision \/ UserWrites \/ ShutDown \/ Upset \/ EditCard

\* The initramfs runs to its end, and a device in its console or off is
\* switched on again.
ProvisionSpec == ProvisionInit /\ [][ProvisionNext]_provisionVars
ProvisionFairSpec ==
    ProvisionSpec /\ WF_provisionVars(SwitchOn) /\ WF_provisionVars(Provision) /\ WF_provisionVars(ShutDown /\ step = "failed")

-----------------------------------------------------------------------------
(* Properties *)

\* plumos-bubble-provision-storage "never formats an existing unknown p4":
\* whatever was interrupted before and however the card was edited, the device
\* never destroys files that are on p4.
DataKept == [][step # "off" /\ data => data']_provisionVars

\* The complete marker, which turns off every later check and repair, is only
\* on cards whose filesystems have their final size and content.
CompleteIsReady ==
    complete /\ edits = 0 => p3part = "target" /\ p3fs = "target" /\ p4 = "fat" /\ seeded

\* A first boot that was interrupted anywhere, any number of times, is
\* completed by later boots.
FirstBootCompletes == <>(complete \/ edits > 0)
=============================================================================
