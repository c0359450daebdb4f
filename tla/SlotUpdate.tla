------------------------------ MODULE SlotUpdate ------------------------------
(***************************************************************************)
(* The A/B updater.  moonlight-update copies a release into the root slot  *)
(* that is not running, puts its kernel on the shared /boot, rewrites the  *)
(* GRUB menu, leaves a record in /boot/moonlight/pending and has GRUB try  *)
(* the slot once; 90 seconds into every boot a timer compares the running  *)
(* slot with the record, makes it the default if they agree, and clears    *)
(* the record.                                                             *)
(*                                                                         *)
(* The machine may lose power between any two steps, an updater may die at *)
(* any step, a release may be unable to stay up, and nothing stops the     *)
(* panel, the console menu and a shell from running an updater each.       *)
(***************************************************************************)
EXTENDS Naturals, FiniteSets

CONSTANTS
    Updaters,       \* moonlight-update --menu processes
    Latest,         \* bound: releases are numbered 1 .. Latest, 1 is installed
    Healthy,        \* the releases that stay up
    ManualPick,     \* somebody may choose an entry in GRUB's one-second menu
    SlowInstall,    \* staging an update ends later than 90 s after the boot
    TornWrites,     \* a power cut may lose what sync has not flushed
    GrubMayFail,    \* grub-reboot may fail
    MaxCuts         \* bound: how often a machine that is up loses power

Versions == 1 .. Latest
Slots == {"a", "b"}
Other(s) == IF s = "a" THEN "b" ELSE "a"

ASSUME LatestType == Latest \in Nat \ {0}
ASSUME HealthyType == Healthy \subseteq Versions /\ 1 \in Healthy
ASSUME ChoicesType ==
    /\ ManualPick \in BOOLEAN /\ SlowInstall \in BOOLEAN
    /\ TornWrites \in BOOLEAN /\ GrubMayFail \in BOOLEAN
ASSUME CutsType == MaxCuts \in Nat

VARIABLES
    running,    \* the slot that is up, or "off", or "stuck" (hung, needs power)
    root,       \* root[s]: the release in slot s's file system, 0: not usable
    kernel,     \* kernel[s]: the release /boot/moonlight/s/vmlinuz is from
    initrd,     \* initrd[s]: the same for initrd.img
    menu,       \* menu[s]: the entry in grub.cfg: "none", "stale" (it names a
                \* file system that was formatted away) or "current"
    default,    \* saved_entry in grubenv
    next,       \* next_entry in grubenv, "none" once GRUB has consumed it
    pending,    \* /boot/moonlight/pending: NoRecord, TornRecord or a record
    status,     \* status[s]: the status file in slot s's root
    unsynced,   \* what a power cut may lose: roots of slots, and "boot"
    pc,         \* pc[u]: where updater u is
    version,    \* version[u]: the release it installs
    confirm,    \* moonlight-update --confirm-boot in the current boot
    proven,     \* history: the releases that once stayed up for 90 seconds
    cuts        \* how many power cuts have been used up

disk == <<root, kernel, initrd, menu, status>>
grubenv == <<default, next>>
updater == <<pc, version>>
machine == <<running, confirm, proven, cuts>>
vars == <<disk, grubenv, pending, unsynced, updater, machine>>

Record(s, v) == [slot |-> s, version |-> v]
Records == [slot : Slots, version : Versions]
NoRecord == [slot |-> "none", version |-> 0]
TornRecord == [slot |-> "torn", version |-> 0]  \* the file exists, but is empty

Report(r, v) == [result |-> r, version |-> v]
NoReport == [result |-> "none", version |-> 0]

\* The steps of prepare_target, in the order they run.
Working == {"format", "copy", "kernel", "initrd", "menu", "record", "schedule", "finish"}

Up == running \in Slots

\* GRUB finds the entry and its two files, and the file system they expect.
Bootable(s) ==
    /\ menu[s] = "current"
    /\ root[s] # 0 /\ kernel[s] = root[s] /\ initrd[s] = root[s]

\* detect_layout dies while the inactive slot is mounted.
InactiveUnmounted == \A u \in Updaters : pc[u] \notin Working

\* -------------------------------------------------------------- the updater

\* Mutant of Choose: the updater no longer refuses while a record exists.
ChooseDespiteRecord(u, v) ==
    /\ Up /\ pc[u] = "idle"
    /\ InactiveUnmounted
    /\ v > root[running]
    /\ pc' = [pc EXCEPT ![u] = "chosen"]
    /\ version' = [version EXCEPT ![u] = v]
    /\ UNCHANGED <<disk, grubenv, pending, unsynced, machine>>

\* update_menu: refused while a record exists, and unless the release is newer.
Choose(u, v) ==
    /\ Up /\ pc[u] = "idle"
    /\ InactiveUnmounted
    /\ pending = NoRecord
    /\ v > root[running]
    /\ pc' = [pc EXCEPT ![u] = "chosen"]
    /\ version' = [version EXCEPT ![u] = v]
    /\ UNCHANGED <<disk, grubenv, pending, unsynced, machine>>

\* Download and backup are done; the workspace must not be mounted already.
Begin(u) ==
    /\ pc[u] = "chosen"
    /\ InactiveUnmounted
    /\ pc' = [pc EXCEPT ![u] = "format"]
    /\ UNCHANGED <<disk, grubenv, pending, unsynced, version, machine>>

Step(u, here, there) == pc[u] = here /\ pc' = [pc EXCEPT ![u] = there]

\* mkfs.ext4: the label survives, the UUID in grub.cfg does not.
Format(u) ==
    LET s == Other(running) IN
    /\ Step(u, "format", "copy")
    /\ root' = [root EXCEPT ![s] = 0]
    /\ menu' = [menu EXCEPT ![s] = IF @ = "none" THEN "none" ELSE "stale"]
    /\ status' = [status EXCEPT ![s] = NoReport]
    /\ unsynced' = unsynced \cup {s}
    /\ UNCHANGED <<kernel, initrd, grubenv, pending, version, machine>>

\* rsync, restored settings, slot files, chroot clean-up and initramfs.  An
\* incomplete root counts as none: the menu cannot reach it before UpdateGrub.
Copy(u) ==
    /\ Step(u, "copy", "kernel")
    /\ root' = [root EXCEPT ![Other(running)] = version[u]]
    /\ UNCHANGED <<kernel, initrd, menu, status, grubenv, pending, unsynced, version, machine>>

PutKernel(u) ==
    /\ Step(u, "kernel", "initrd")
    /\ kernel' = [kernel EXCEPT ![Other(running)] = version[u]]
    /\ UNCHANGED <<root, initrd, menu, status, grubenv, pending, unsynced, version, machine>>

PutInitrd(u) ==
    /\ Step(u, "initrd", "menu")
    /\ initrd' = [initrd EXCEPT ![Other(running)] = version[u]]
    /\ UNCHANGED <<root, kernel, menu, status, grubenv, pending, unsynced, version, machine>>

\* 09_moonlight_slots looks the UUIDs up by label for every slot that has both
\* files on /boot.
UpdateGrub(u) ==
    /\ Step(u, "menu", "record")
    /\ menu' = [s \in Slots |-> IF kernel[s] # 0 /\ initrd[s] # 0 THEN "current" ELSE "none"]
    /\ UNCHANGED <<root, kernel, initrd, status, grubenv, pending, unsynced, version, machine>>

\* Mutant of WriteRecord: grub-reboot runs before the record is written.
WriteRecordLate(u) ==
    /\ Step(u, "record", "schedule")
    /\ SlowInstall => confirm = "done"
    /\ next' = Other(running)
    /\ UNCHANGED <<disk, default, pending, unsynced, version, machine>>

WriteRecord(u) ==
    /\ Step(u, "record", "schedule")
    /\ SlowInstall => confirm = "done"
    /\ pending' = Record(Other(running), version[u])
    /\ unsynced' = unsynced \cup {"boot"}
    /\ UNCHANGED <<disk, grubenv, version, machine>>

\* Mutant of Schedule: grub-set-default in place of grub-reboot.
ScheduleForGood(u) ==
    /\ Step(u, "schedule", "finish")
    /\ default' = Other(running)
    /\ UNCHANGED <<disk, next, pending, unsynced, version, machine>>

\* grub-reboot
Schedule(u) ==
    /\ Step(u, "schedule", "finish")
    /\ next' = Other(running)
    /\ UNCHANGED <<disk, default, pending, unsynced, version, machine>>

ScheduleFails(u) ==
    /\ GrubMayFail
    /\ Step(u, "schedule", "idle")
    /\ pending' = NoRecord
    /\ UNCHANGED <<disk, grubenv, unsynced, version, machine>>

\* The status file and the closing sync.
Finish(u) ==
    /\ Step(u, "finish", "idle")
    /\ status' = [status EXCEPT ![running] = Report("staged", version[u])]
    /\ unsynced' = {}
    /\ UNCHANGED <<root, kernel, initrd, menu, grubenv, pending, version, machine>>

\* Any command fails and the script dies, or it is killed.
Die(u) ==
    /\ pc[u] # "idle"
    /\ pc' = [pc EXCEPT ![u] = "idle"]
    /\ UNCHANGED <<disk, grubenv, pending, unsynced, version, machine>>

\* ---------------------------------------------- the timer of --confirm-boot

\* Mutant of Elapse: a record of the other slot is left alone.
ElapseOnlyConfirms ==
    /\ Up /\ root[running] \in Healthy /\ confirm = "waiting"
    /\ pending # NoRecord => InactiveUnmounted
    /\ proven' = proven \cup {root[running]}
    /\ confirm' = IF pending.slot = running THEN "default" ELSE "done"
    /\ UNCHANGED <<disk, grubenv, pending, unsynced, updater, running, cuts>>

\* The machine has been up for 90 seconds.  Without a record the unit's
\* condition fails; a record that names no slot makes the script exit.
Elapse ==
    /\ Up /\ root[running] \in Healthy /\ confirm = "waiting"
    /\ pending # NoRecord => InactiveUnmounted
    /\ proven' = proven \cup {root[running]}
    /\ confirm' = CASE pending.slot = running -> "default"
                    [] pending.slot = Other(running) -> "status"
                    [] OTHER -> "done"
    /\ UNCHANGED <<disk, grubenv, pending, unsynced, updater, running, cuts>>

\* detect_layout dies, for one because the other slot is mounted somewhere.
ConfirmRefused ==
    /\ Up /\ root[running] \in Healthy /\ confirm = "waiting"
    /\ pending # NoRecord
    /\ proven' = proven \cup {root[running]}
    /\ confirm' = "done"
    /\ UNCHANGED <<disk, grubenv, pending, unsynced, updater, running, cuts>>

\* Mutant of ConfirmDefault: copies the one-shot entry, which is gone by now.
ConfirmDefaultFromNext ==
    /\ confirm = "default"
    /\ default' = next
    /\ confirm' = "status"
    /\ UNCHANGED <<disk, next, pending, unsynced, updater, running, proven, cuts>>

\* grub-set-default
ConfirmDefault ==
    /\ confirm = "default"
    /\ default' = running
    /\ confirm' = "status"
    /\ UNCHANGED <<disk, next, pending, unsynced, updater, running, proven, cuts>>

\* Mutant of ConfirmStatus: does not compare the record with the running slot.
ConfirmStatusAlways ==
    /\ confirm = "status"
    /\ status' = [status EXCEPT ![running] = Report("installed", pending.version)]
    /\ confirm' = "clear"
    /\ UNCHANGED <<root, kernel, initrd, menu, grubenv, pending, unsynced, updater,
                   running, proven, cuts>>

ConfirmStatus ==
    /\ confirm = "status"
    /\ status' = [status EXCEPT ![running] =
                    IF pending.slot = running
                    THEN Report("installed", pending.version)
                    ELSE Report("rolled-back", pending.version)]
    /\ confirm' = "clear"
    /\ UNCHANGED <<root, kernel, initrd, menu, grubenv, pending, unsynced, updater,
                   running, proven, cuts>>

ConfirmClear ==
    /\ confirm = "clear"
    /\ pending' = NoRecord
    /\ unsynced' = {}
    /\ confirm' = "done"
    /\ UNCHANGED <<disk, grubenv, updater, running, proven, cuts>>

\* ------------------------------------------------------ the machine and GRUB

\* Mutant of Boot: the one-shot entry survives the boot it caused.
BootKeepsNext(s) ==
    /\ running = "off"
    /\ \/ s = IF next # "none" THEN next ELSE default
       \/ ManualPick /\ menu[s] # "none"
    /\ running' = IF Bootable(s) THEN s ELSE "stuck"
    /\ UNCHANGED <<disk, grubenv, pending, unsynced, updater, confirm, proven, cuts>>

\* GRUB consumes the one-shot entry before it boots anything.
Boot(s) ==
    /\ running = "off"
    /\ \/ s = IF next # "none" THEN next ELSE default
       \/ ManualPick /\ menu[s] # "none"
    /\ running' = IF Bootable(s) THEN s ELSE "stuck"
    /\ next' = "none"
    /\ UNCHANGED <<disk, default, pending, unsynced, updater, confirm, proven, cuts>>

EndProcesses ==
    /\ confirm' = "waiting"
    /\ pc' = [u \in Updaters |-> "idle"]

\* A release that is not healthy hangs at some point of its first 90 seconds.
Freeze ==
    /\ Up /\ root[running] \notin Healthy
    /\ running' = "stuck"
    /\ EndProcesses
    /\ UNCHANGED <<disk, grubenv, pending, unsynced, version, proven, cuts>>

Halt ==
    /\ running' = "off"
    /\ EndProcesses
    /\ unsynced' = {}
    /\ UNCHANGED <<version, kernel, initrd, menu, status, grubenv, proven>>

ShutDown ==
    /\ Up
    /\ Halt
    /\ UNCHANGED <<root, pending, cuts>>

\* What had not reached the disk is lost: a root misses files, and the record,
\* which is created in place, is left empty.
Lose(lost) ==
    /\ root' = [s \in Slots |-> IF s \in lost THEN 0 ELSE root[s]]
    /\ pending' = IF "boot" \in lost /\ pending # NoRecord THEN TornRecord ELSE pending

Cut(lost) ==
    /\ running # "off"
    /\ lost # {} => TornWrites
    /\ Halt
    /\ Lose(lost)

PowerCut(lost) == Up /\ cuts < MaxCuts /\ cuts' = cuts + 1 /\ Cut(lost)

\* Somebody turns a machine that hangs off and on.
PowerCycle(lost) == running = "stuck" /\ Cut(lost) /\ UNCHANGED cuts

\* ------------------------------------------------------------- specification

\* What the installer leaves: release 1 in slot a, slot b formatted but empty.
Init ==
    /\ running = "off"
    /\ root = [s \in Slots |-> IF s = "a" THEN 1 ELSE 0]
    /\ kernel = root
    /\ initrd = root
    /\ menu = [s \in Slots |-> IF s = "a" THEN "current" ELSE "none"]
    /\ default = "a"
    /\ next = "none"
    /\ pending = NoRecord
    /\ status = [s \in Slots |-> NoReport]
    /\ unsynced = {}
    /\ pc = [u \in Updaters |-> "idle"]
    /\ version = [u \in Updaters |-> 1]
    /\ confirm = "waiting"
    /\ proven = {1}
    /\ cuts = 0

Update(u) ==
    \/ Begin(u) \/ Format(u) \/ Copy(u) \/ PutKernel(u) \/ PutInitrd(u) \/ UpdateGrub(u)
    \/ WriteRecord(u) \/ Schedule(u) \/ ScheduleFails(u) \/ Finish(u) \/ Die(u)
    \/ \E v \in Versions : Choose(u, v)

Confirm == Elapse \/ ConfirmRefused \/ ConfirmDefault \/ ConfirmStatus \/ ConfirmClear

Power ==
    \/ Freeze \/ ShutDown
    \/ \E s \in Slots : Boot(s)
    \/ \E lost \in SUBSET unsynced : PowerCut(lost) \/ PowerCycle(lost)

Next == Confirm \/ Power \/ \E u \in Updaters : Update(u)

Spec == Init /\ [][Next]_vars

\* A machine that is off or hangs is turned on again, one that is up is shut
\* down some day, a release that cannot stay up does hang, and the machine
\* stays up long enough, often enough, for each command of --confirm-boot.
Fairness ==
    /\ WF_vars(\E s \in Slots : Boot(s))
    /\ WF_vars(\E lost \in SUBSET unsynced : PowerCycle(lost))
    /\ WF_vars(Freeze)
    /\ WF_vars(ShutDown)
    /\ SF_vars(Elapse) /\ SF_vars(ConfirmDefault)
    /\ SF_vars(ConfirmStatus) /\ SF_vars(ConfirmClear)

FairSpec == Spec /\ Fairness

\* ---------------------------------------------------------------- properties

\* Every variable has its type.
TypeOK ==
    /\ running \in Slots \cup {"off", "stuck"}
    /\ root \in [Slots -> Versions \cup {0}]
    /\ kernel \in [Slots -> Versions \cup {0}]
    /\ initrd \in [Slots -> Versions \cup {0}]
    /\ menu \in [Slots -> {"none", "stale", "current"}]
    /\ default \in Slots
    /\ next \in Slots \cup {"none"}
    /\ pending \in Records \cup {NoRecord, TornRecord}
    /\ status \in [Slots -> [result : {"none", "staged", "installed", "rolled-back"},
                             version : Versions \cup {0}]]
    /\ unsynced \subseteq Slots \cup {"boot"}
    /\ pc \in [Updaters -> Working \cup {"idle", "chosen"}]
    /\ version \in [Updaters -> Versions]
    /\ confirm \in {"waiting", "default", "status", "clear", "done"}
    /\ proven \subseteq Versions
    /\ cuts \in Nat

\* "The current slot is still the default", on every way out of an update: the
\* slot GRUB falls back to can be booted at any instant, whatever was being
\* formatted, copied or renamed when the power went.
FallbackIntact == Bootable(default)

\* "A timer makes it the default only after the new system has stayed up for
\* 90 seconds": the default slot holds a release that once did.
DefaultIsProven == root[default] \in proven

\* A boot that GRUB will try once is on record, so that whichever slot comes
\* up next knows what to make of itself.
OneShotOnRecord == next # "none" => pending # NoRecord

\* A slot whose status says "installed" holds that release, and it stayed up.
InstalledIsTrue ==
    \A s \in Slots : status[s].result = "installed" =>
        status[s].version = root[s] /\ root[s] \in proven

\* "Is already installed in the inactive slot and waiting for its first boot":
\* a record that makes the updater refuse to start names a slot.
RecordReadable == pending = NoRecord \/ pending \in Records

\* A record that blocks further updates is cleared some day, whether the slot
\* it names works or not.
PendingResolves == pending # NoRecord ~> pending = NoRecord

\* "The following boot automatically returns to the old system": a machine
\* that hangs is up on its default slot again later.
HangRecovers == running = "stuck" ~> Up /\ running = default
===============================================================================
