# Moonlight OS: TLA+ models and proofs

Moonlight OS is a small appliance: it boots, logs a streaming client in and
offers the client's host PC the appliance's USB devices, and lately its system
disk.  This directory models the parts of it whose mistakes are hard to find by
testing: the leases the privileged helper gives to streaming sessions, the
watcher that shares USB devices with the agent on the host PC and the policy it
follows, the A/B updater, the Wi-Fi profiles, and the settings file that several
programs rewrite.

Contents: [the system](#the-system) and what is hard about it,
[the modules](#the-modules) and how they correspond to the code,
[the runs](#the-runs) with their bounds and fairness, [the proofs](#the-proofs),
[disagreements found](#disagreements-found), [what is not modelled](#what-is-not-modelled)
and [the plan](#the-plan).

In this text `helper` is `config/includes.chroot/usr/local/bin/moonlight-helper`,
`watcher` is `usr/local/bin/moonlight-usb-auto`, `mlos_host` is
`usr/local/lib/moonlight-os/mlos_host.py`, `update` is
`usr/local/sbin/moonlight-update`, all below `config/includes.chroot`; `agent` is
`host-utils/agent.go`.

## The system

| component | state it keeps | operations | interacts with |
|---|---|---|---|
| helper, socket server (`handle_client`, `serve`) | one thread per connection, a semaphore of `MAX_CLIENTS` | requests, progress events, release of leases when the connection ends | every other helper component |
| helper, USB session lease | `USB_SESSION_REFS`, `usb_owned` of each connection, a journal in `/run` | `usb.session.sync`, release, recovery; beside it `usb.share`, `usb.unshare`, `usb.handback`, `usb.autoshare` | kernel (`usbip bind/unbind`), settings file |
| helper, system disk lease | `DISK_SESSION_REFS`, `DISK_SESSION_INFO`, `disk_owned`, a journal in `/run` | `disk.session.acquire`, release, recovery | device mapper, LIO target |
| helper, Wi-Fi | none; the profiles are NetworkManager's | `wifi.connect`, `wifi.saved`, `wifi.forget` | NetworkManager, its profile directory |
| helper, other operations | none | one request, one or two external commands | BlueZ, Sway, PipeWire, ... |
| `mlos_host`, device policy | none: every survey reads sysfs, mounts, routes, ALSA and the settings | `devices`, `offered`, `bind`, `unbind` | kernel, settings file; used by the watcher, the helper and the console menu |
| `mlos_host.Client` | a connection to the host PC | one call, repeated once on a new connection | agent |
| watcher | `bound`, `last_offer`, `last_seen`, `reachable`, back-off | survey, knock, bind, sync, release, hand back | agent over TCP, kernel, settings file |
| agent (Go, on the host PC) | the PC's port table, `seen` counters, a lock around the USB/IP tool | `sync`, janitor | watcher, USB/IP client of the PC |
| `moonlight-update`, `09_moonlight_slots`, confirm timer | two root slots, kernels on `/boot`, `grub.cfg`, `grubenv`, `/boot/moonlight/pending`, a status file per root | install into the inactive slot, boot it once, confirm it after 90 s | GRUB, installer (initial layout), backup (settings carried over) |
| `moonlight-os.conf` | one file of assignments | `write_conf` (helper threads), `moonlight-config-set` (menus, through sudo), `mlos_set` (root shells) | read by everything |
| `moonlight-backup`, `moonlight-install`, kernel hand-off | archive, partitions, kernel of the running slot | backup, restore with merge, install | settings file, slots |
| displays, hot plugging, battery, telemetry, session scripts | small flags | polled or event loops | Sway, settings file |

`PROJECT.json` lists the components one by one with what is modelled of each.

What makes them hard:

* **Concurrency.**  The helper serves every connection in a thread of its own;
  two locks cover the two leases, but sharing a device by hand, from the panel or
  the shell menu, takes neither, and joining a network takes none.  Settings have
  a lock that means nothing outside the helper's process.
* **Two ends and a network.**  The watcher and the agent share no session: a call
  may be given up and be carried out later, either end restarts with no memory,
  and a device pulled out on one side leaves a dead port on the other.
* **Failure in the middle.**  The helper can be killed between any two commands,
  a command can time out (an exception that few callers catch), and the kernel
  keeps exports that memory has forgotten.
* **Feedback.**  Sharing a device takes the drivers away that told the policy
  what it is; the next survey judges a different machine.
* **Power.**  The updater formats a file system, renames kernels, rewrites a boot
  menu and schedules a boot, and the power can go at any step; a write that was
  not flushed is lost or torn.
* **Time.**  Confirmation happens 90 seconds after a boot, whatever an updater
  is doing then.

What makes each component correct, and is checked here:

* A lease: the count is the number of sessions that hold the resource, only the
  last one's departure takes it away, an owner has what it was promised, a
  closed or crashed session or helper leaves nothing behind, and nobody waits
  for ever.
* The watcher: what it remembers is what the kernel has, it holds nothing while
  nobody answers, a cheap look at the bus overlooks nothing, and once both ends
  stay up the host PC has exactly what is plugged in and offered.
* The policy: the disk the machine runs from and the interface it is routed
  through stay, and sharing a device is never the reason to take it back.
* The updater: the slot GRUB falls back to boots at any instant and holds a
  release that once worked, a trial boot is on record, what it reports is true,
  and a failed or unfinished update does not block later ones.
* Wi-Fi: the last password that worked is never lost.
* The settings: a change to one setting never loses another.

## The modules

| module | what it is |
|---|---|
| `SharedLease` | abstract specification of both leases: connections hold resources, the first brings a resource up, only the last may take it down |
| `UsbLease` | the USB lease of the helper; `Lease == INSTANCE SharedLease` maps it |
| `DiskLease` | the disk lease of the helper, mapped the same way |
| `UsbAuto` | the watcher, the agent on the host PC and the network between them |
| `DevicePolicy` | what a survey offers, and what sharing it does to the next survey |
| `SlotUpdate` | updater, GRUB menu, one-shot boots, confirmation, power |
| `WifiProfiles` | joining a network: new profiles, and which old ones go |
| `ConfigFile` | the settings file and its three kinds of writers |
| `*Proofs` | theorems about the modules above |
| `MC*` | small instances for TLC: constants as model values, symmetry |

The two modules that bind devices are not composed: in `UsbLease` everything
outside the lease is `Share` and `Unshare`, in `UsbAuto` everything outside the
watcher is `ShareByHand`.  `DevicePolicy` is the policy both of them take as
given (`Kind`, `wanted`).

### UsbLease

One action is what a handler does between two points at which something else
can happen: an external command, taking the lock, the end of the lock.

* `pc[c]` is where the thread of connection `c` is.  `USB_SESSION_LOCK` is held
  by the thread whose `pc` is in `Critical`, so it is no variable (`LockFree`).
* `SyncRead` ... `SyncDone` are `op_usb_session_sync`: configuration and sysfs
  are read before the lock, the claims no longer wanted are dropped and
  persisted, usbipd is started, the exports are listed once (`snap`), and each
  wanted device is joined, bound, or left to whoever shared it by hand.
  `ReleaseLock` ... `ReleaseDone` are `usb_session_release`, `Restart` ...
  `RecoverDone` are `recover_usb_sessions`.
* A `...Hang` action is a `usbip` call that runs into its 20 s timeout.  The
  exception leaves the handler where it is raised: what was changed before stays
  changed, and the rest does not happen.  The command may or may not have
  worked.
* `export[b]` says whether the port is bound to usbip-host and, as history, on
  whose account: the lease's, a person's (`"hand"`), or nobody's (`"orphan"`).
  The code does not know the difference; the properties do.  An export becomes an
  orphan in the step that loses it: an unbind that usbip refuses
  (`UnbindResults`), a crash after which systemd deletes the journal, or a crash
  between a bind and `persist_usb_sessions` (`Abandoned`).
* The order of the loops (`sorted`, the order of `devices()`) is left open:
  every order is allowed.  `Kind[b]` stands for `mlos_host.devices()`'s verdict
  on what is plugged into port `b` and does not change during a run.
* Outside the lease: `Share`, `Unshare`, `HandbackList`, `HandbackUnbind`,
  `Autoshare`, `Plug`, `Unplug`.  None of them takes the lock, as in the code.
* `Crash` kills the process.  Whether the journal survives it depends on the
  unit's `RuntimeDirectoryPreserve=`, the constant `Preserve`: the shipped unit
  leaves it at systemd's default, `"no"`, and that is what `disk_lease` and
  `disk_rundir` run with.  With `"no"` the *recovery code* never has anything to do;
  the other lease runs set `Preserve` to `"restart"`, so that it does.  The theorems
  hold for either value.

### DiskLease

Same connection life, but the journal is written *before* the kernel is touched,
and removing the export (`disk_target_remove`) is tried even when parts of it
fail.  Every caller of a removal holds the lock or runs before the socket
exists, so one program counter (`removal`) is enough for it.  `CreateMapping` and
`CreateTarget` may fail with or without effect, `RemoveTarget` and
`RemoveMapping` may find their object busy, and a target may be left half removed.
`lost` is history: systemd has deleted a journal while it named something.  `UsbReleaseHangs` is the exception
that `usb_session_release` throws in the same `finally` clause just before the
disk's turn.

### SharedLease

`holders[r]` and `up[r]`; `Acquire`, `Release`, `Supply`, `Reclaim`, `LoseAll`
(the helper dies) and, for ports that can be unplugged or shared by hand,
`Withdraw`.  It is what the tests of the two session protocols assert
(`tools/test-helper-usb-session.py`, `tools/test-helper-disk-session.py`).
`UsbLease` maps `holders` to the connections whose claim is not yet
given back (in a teardown, what the loop has not visited) and `up` to "bound to
usbip-host"; `DiskLease` maps them to the owners and to "mapping and target
complete".  For the disk nothing is withdrawable, so `HeldIsUp` is the promise
of `disk.session.acquire`.

### UsbAuto

One step is one call that another party can see or that can fail.

* The watcher's `pc` walks through a pass: `Look` (it reads the settings, then the
  cheap gate: has the list of bus ids changed, or is a heartbeat due), `Survey` (the
  full survey, which lists the bus again and judges it by the settings and the
  heartbeat of `Look`), `Knock` (ping the agent before anything is taken away
  from this machine), `Bind`/`BindFails` (`bind_all`), `Prune` (`unbind_gone`),
  `Send` and what comes of it, `Release` (`release_local`).  `errand` says on
  whose behalf the last two run: a pass, `hand_back` after the switch was turned
  off, or `hand_back` on the way out.
* `Client.call` is `Send`, `NoAnswer`, `AnswerTooLate` and `GiveUpWaiting`: one
  retry on a new connection, then "unreachable".  What was sent before is not
  unsent: `late[D]` counts abandoned requests for the set `D`, which the agent
  may still carry out in any order (`TakeLate`).
* The agent carries a sync out under its lock (`job`): `Attach` what the port
  table does not list, then `Settle`: detach the rest, port by port, of which some may
  resist (`DetachAllBut`), and answer.  `Refuse` is every error it answers instead.  The janitor is two steps, `Probe` and `Purge`,
  because the code decides outside the lock and detaches inside it.
* A port of the host PC is `"stale"` when its connection has been lost and its
  kernel has not noticed (`Notice`, TCP keepalive).
* Around them: devices come and go, are shared by hand, settings change, the
  switch is turned, the watcher is restarted or killed, the host PC, its agent
  and the network go and come back: what `tools/test-usb-auto.py` plays one at a
  time, in any order.  No code of the program carries these steps out, so the map in
  `PROJECT.json` names the tests that do.
* `spent` bounds what goes wrong, by kind.  `"lost"` are misfortunes both
  programs are made for; `"harm"` are those nothing is left to remember (a killed
  watcher, an unbind that failed).  Some properties speak only of histories without
  harm, and say so.
* `export[b]` records, as history, whether the watcher or somebody else bound
  the device.
* `dealt` is history as well: what the settings offered when `lastSeen` was recorded.
  `NothingOverlooked` speaks of the settings the gate's listing belongs to.  That
  matters: if a pass fails after the settings have changed and the bus then
  looks again as it did before, the gate is quiet although the change was
  never acted upon, and it takes the heartbeat to notice.
* The watcher's back-off between failed passes is scheduling: a pass may begin
  whenever the gate lets it.

### DevicePolicy

A bus id is the path of ports to the device, so that "on the path to the disk
we run from" is `IsPrefix`, as it is in sysfs.  `Critical`, `Protected`,
`AudioRole`, `Skipped` and `Offered` are the functions of `mlos_host`; `Survey`,
`Bind`, `Unbind` and `PassDone` are a pass of whoever shares, the watcher or a
session.  `Bind` takes the device's sound card and its default routes along: that
is the feedback.  `CardAppears` is ALSA, which registers a card some time after
the device appeared.  A device in the model keeps the interface classes its
descriptor has; only what comes from drivers changes.  Routes are `<<port,
family>>`, and the survey sees those of IPv4, because both `/proc/net/route` and
`ip route show default` list nothing else.

### SlotUpdate

* A slot is what GRUB needs of it: `root[s]`, `kernel[s]`, `initrd[s]` (the
  release each is from) and `menu[s]`, the entry in `grub.cfg`.  `Bootable` is
  the conjunction.  `Format` makes an entry stale: `mkfs` gives the file system a
  new UUID, and only `update-grub` looks it up again.
* `Choose` ... `Finish` are `update_menu` and `prepare_target`, one action per
  command that leaves a different disk behind; `Die` ends the script anywhere.
* `Elapse`, `ConfirmDefault`, `ConfirmStatus`, `ConfirmClear` are
  `confirm_boot`, one action per file it changes; `ConfirmRefused` is
  `detect_layout` refusing, for one because the inactive slot is mounted.
* `Boot` is GRUB: it consumes `next_entry` before it boots anything.  A release
  that is not in `Healthy` hangs within its first 90 seconds (`Freeze`) and
  needs a power cycle.
* A power cut ends everything and may lose what was not flushed (`unsynced`):
  a root that was being written is unusable, a record that was being created is
  an empty file.  What `mv` does to the kernels on `/boot` and what `grub-*`
  writes into `grubenv` counts as atomic and durable; ext4's ordering for
  renames and the one-sector `grubenv` are taken as they are.

### WifiProfiles

One network name.  A profile is the number of the attempt that wrote it; 0 was
there before.  `Saved`, `Write`, `Load`, `Up`, `Discard` and `Connected` are
`op_wifi_connect`, one step per call of nmcli or of the file system, `GiveUp`,
`LoadFails`, `UpFails` and `Drop` its error paths.  `files` is what is on disk,
`loaded` what NetworkManager knows; the two differ between the rename and the
load, and after a load that failed.  `Delete` may work, be refused, or time out
and be carried out later (`deleting`, `LateDelete`).  A crash of the helper stops
its threads and nothing else; a reboot also makes NetworkManager read the
directory again.

### ConfigFile

`file` is the settings file, `last` what was last written for each setting
(history).  Helper threads hold `CONFIG_LOCK` from reading to renaming;
`moonlight-config-set` does the same without the lock; `mlos_set` as root copies
over the file in place (`Truncate`, then `Fill`).  A shell that has the old file
open while another writer renames a new one over it fills a file without a name
(`orphan`).  The file exists and has every setting at the start, as the image
ships it.

Any writers may overlap, any write may fail, the power may go.  `harm` records
(history) which of three things has happened: a writer outside the helper has
run at the same time as another one (`"overlap"`), a `cp` has emptied the file
(`"emptied"`), or was stopped before it had filled it (`"lost"`).  The properties
say for each what still holds.

## The runs

All passing runs explore their state space completely.

| run | instance | shows |
|---|---|---|
| `usb_counts` | 2 connections, 2 ports (one offered under every policy, one only under "all"), failing usbip, 1 crash anywhere, 2 outside operations; 228074 states | `TypeOK`, `RefsCountHolders`, `JournalIsLease`, `LastOwnerWithdraws`, `ImplementsLease` |
| `usb_live` | 2 connections, 1 port, failing usbip, 1 timeout, 2 crashes anywhere, 2 outside operations, the directory survives restarts; 86966 | `NoOrphanExport`, `ClosingReleases`, `SyncEnds` |
| `disk_lease` | 3 connections, failing builds and busy removals, 2 crashes, the shipped unit's directory; 2943 | `TypeOK`, `RefsCountOwners`, `OwnedIsServed`, `TargetJournalled`, `ImplementsLease` |
| `disk_live` | 2 connections, failing builds and busy removals, 1 crash, 1 timeout, the directory survives restarts; 2779 | `LeftoverExplained`, `EveryoneEnds` |
| `auto` | 1 port, 2 hot-plug events, 1 changed setting or restart of the watcher, 1 outage, 1 misfortune or harm; 603046 | `TypeOK`, `MemoryIsKernel`, `NoHostage`, `NothingOverlooked`, `Converges`, `NoLimbo`, `HandsBack` |
| `policy` | 4 ports (a hub with the boot stick behind it), 7 kinds of devices, 3 hot-plug events, 1 changed setting, 2 changed routes; 26076 | `TypeOK`, `BootStays`, `CarrierStays`, `SharedStays`, `Settles` |
| `slot_safe` | 2 updaters, releases 1 to 3 of which 2 hangs, torn writes, 2 power cuts; 41706 | `TypeOK`, `FallbackIntact`, `DefaultIsProven`, `OneShotOnRecord` |
| `slot_live` | 1 updater, failing grub-reboot, 1 power cut, nothing torn; 6856 | `InstalledIsTrue`, `PendingResolves`, `HangRecovers` |
| `wifi` | 2 connections, 3 attempts, 1 crash or reboot; 2305861 | `TypeOK`, `LastPasswordKept`, `GoesForCause` |
| `conf_writers` | 2 helper threads, a menu and a root shell in any interleaving, failing writes, 1 power cut; 298146 | `TypeOK`, `SettingsPreserved`, `NeverMissing` |

Two further runs, `disk_rundir` and `auto_replug`, are expected to find a
violation; they are the [disagreements](#disagreements-found).

**Why the bounds are enough.**  The lease protocol distinguishes no claim, one
claim and more than one; two connections show the second and third case and the
change between them, and a third one in `DiskLease` lets one connection close
and one fail while another holds the disk.  Two ports are needed for a policy
that drops one device and keeps another, and for a loop that is interrupted
half-way.  Two crashes allow a crash during or after the recovery from the
first.  Three releases allow an update onto a slot that has been updated before,
with a hanging release in between.  Two outside operations allow a share that is
taken back, or a device unplugged and plugged in.

In `auto` one port is enough for the liveness properties, because the programs
treat ports alike and a sync carries them all: a device may come, be bound, and
go during any step, with a setting changed, an outage of the PC, its agent or
the network and one more fault at any other step.  For the safety invariants the
number of ports does not matter: they are theorems.  The janitor gives up after `GiveUp` = 2 probes instead of three: what matters is that
one failed probe is not enough and that a sync in between resets the count.
In `policy` three hot-plug events plug a device in behind the hub and pull hub
or device out again; the seven models are one for each rule.  In `wifi` three
attempts give a superseded profile, a running attempt and a finished one at the
same time; two connections are joined by `MaxStops` = 1 stop at any point (three
connections: 4.55 million states, the same result).

Some bounds leave out what a property cannot survive, namely: a second updater
makes the record of the first stale (`InstalledIsTrue`), a timeout breaks the counts (`RefsCountHolders`,
`RefsCountOwners`), a device that returns between two polls escapes the watcher
(`QuickReplug` is `FALSE` in `auto`), and a PC without a USB/IP client gets nothing
attached (`ToolInstalled`).  Crashes, hangs, outside operations, power cuts,
attempts and stops are the only unbounded counters (`MaxCrashes`, `MaxHangs`,
`MaxOps`, `MaxCuts`, `MaxAttempts`, `MaxStops`, the `Max...` of `UsbAuto` and
`DevicePolicy`); releases are numbered up to `Latest`.  `ConfigFile!Hopeless` is a
bound of another kind: after both an overlap and a `cp`, when no property claims
anything, writers run one by one.  None of
the theorems depends on any of these values, except where `MaxHangs = 0` is
stated.  Symmetry is used only in runs without liveness properties and over
connections, updaters, threads, settings or values that the specification
treats alike.

**Deadlock** is checked where the system never comes to rest: in the runs of
`UsbLease`, `DiskLease`, `SlotUpdate` and `ConfigFile`, connections may come and
go, a machine that is off may be turned on, and writers start again.  Three
specifications do come to rest and say `CHECK_DEADLOCK FALSE`: a watcher that is
turned off exits and systemd does not start it again, a survey that finds nothing
to do is no step of `DevicePolicy`, and `WifiProfiles` numbers its attempts up to a
bound.

**Fairness.**
`UsbLease!Fairness` and `DiskLease!Fairness`: a thread inside a lock keeps
running, because every command it waits for has a timeout or ends; a thread
waiting for the lock gets it if the lock is free again and again (strong
fairness on `SyncLock`, `ReleaseLock`, `Acquire...`, `Release`): CPython's lock
is not a queue, but sessions poll every few seconds and leave it in between;
systemd restarts the helper (`Restart=always`).  Nothing is assumed of clients
or of outside operations.
`SlotUpdate!Fairness`: somebody turns on a machine that is off or hangs, a
machine is shut down now and then, an unhealthy release does hang, and the
machine stays up long enough, often enough, for each of the confirmation's
commands (strong fairness: power cuts may interrupt any single attempt).
`UsbAuto!FairSpec`: the watcher's loop, the agent's handler and its janitor each
keep turning (weak fairness on `Watch`, `Serve`, `Janitor`: the watcher sleeps at most
its back-off, each call has a timeout, the janitor is a ticker), the clock
reaches the next heartbeat, and TCP keepalive ends a dead connection.  Nothing is
assumed of the host PC, the network, the user or systemd beyond starting a
watcher that is off; `Converges` and `HandsBack` name the conditions under which
they claim something.
`DevicePolicy!FairSpec`: whoever shares goes on doing so, and ALSA gets round to
every sound card.

**What the liveness runs need.**  `PendingResolves` holds only without torn
writes: with `TornWrites` an empty record is never cleared.

## The proofs

`tlapm` checks every module below from nothing; there are no unproved steps.
The assumptions are those on the constants, stated in the modules, and for the
safety theorems the conditions named in their statements.

**`SharedLeaseProofs`.**  `HeldIsUp` with the types is inductive by itself
(`HeldIsUpCorrect`).  TLC reaches the abstract specification through the two
`ImplementsLease` properties.

**`UsbLeaseProofs`.**  `TypeCorrect` holds without conditions.  A usbip call that
times out really breaks the count, so `CountInvariant` says `Unhung => CountInv`:
the invariant holds until the first time-out, and for ever where `MaxHangs = 0`,
which `CountCorrect`, `JournalCorrect`, `LastOwnerCorrect` and `UsbImplements`
assume.
`CountInv` strengthens `RefsCountHolders` by the control state: at most
one thread is in the lock (`LockOnce`); what a teardown or a drop loop has still
to visit is owned (`TodoOwned`); a closed connection owns nothing; nobody is
connected while the helper is not serving; and when no thread is between a
change of the table and its `persist_usb_sessions` the journal is the set of
leased devices (`JournalSettled`).  The count changes by one claim at a time, so
the proof rests on three lemmas: a step that leaves every claim alone, one that
adds one (`GainClaim`) and one that removes one.  From the invariant before and
after a step follows the action property `LastOwnerCorrect`: a step that unbinds
a device has just brought its count to zero, so nobody holds it.  All of it
covers any finite set of connections and any set of ports, failing commands,
crashes under the lock, either value of `Preserve`, and everything done by hand.

`NoOrphanCorrect` (`NoOrphanExport`) adds `Backed`: what is exported on the lease's
account is counted while the helper serves, named by the journal while it is
down, and in what the recovery has still to visit while it starts.  It has no
hypotheses: usbip may refuse anything, the helper may die anywhere, and the unit
may be the shipped one.  What those lose is not excluded but marked in the step
that loses it, so the theorem says that the three causes `export` knows as
`"orphan"` are all there are.  (The property itself stops at the first time-out,
which ends a teardown with claims in the table.)  `UsbImplements` shows the
refinement: `StutterMaps`, `SupplyMaps`, `WithdrawMaps`, `AcquireMaps`,
`ReleaseMaps` and `DieMaps` say what a step has to do to `claims`, the loops and
`export` to be the step of `SharedLease` of that name, and each action is
shown to be one of them.  Every port can be unplugged or unshared by hand, so
`HeldIsUp` says nothing about it; what the refinement adds is that claims come and go, and ports
go up and down, in the steps of the abstract lease and no others.

**`DiskLeaseProofs`.**  Only the count depends on time-outs.  `Flow` says which
thread can be where (`LockOnce`), that nobody holds the disk while anybody
builds or removes it (`LockedIsUnused`: the lock is taken only with the count at
zero or given up in the same step), which parts of a removal are done
(`RemovalDid`), that a target is built on a mapping (`TargetHasMapping`),
that what is in the kernel is journalled, unless systemd has deleted the
journal (`BuiltJournalled`), and that the export is complete while the
count is not zero (`RefsServed`).  `DiskInv` adds `OwnersCounted`: there are never more owners
than the count, which survives a skipped release, because that leaves the count
too high.  So `DiskServed` and `DiskImplements` hold in every mode, and
`DiskJournalled` with the shipped unit and any other; only `DiskCountCorrect` (the
count is exact) assumes `MaxHangs = 0`.  Composed with
`HeldIsUpCorrect`, `DiskImplements` is the promise of `disk.session.acquire` for any
number of connections.  `LeftoverCorrect` (`LeftoverExplained`) adds `Cleared`: a
build starts from nothing, or from what a deleted journal hides; the rest follows from
`RemovalDid`.  `NoIdleTarget`, the same property without its two causes, is what
`disk_rundir` refutes.

**`UsbAutoProofs`.**  For any number of ports and every fault.  `TypeCorrect` holds
without conditions.  `NeverHostage`
(`NoHostage`) needs to know where in a pass anything can be bound while nobody
has answered: `HoldInv` says that a pass gets beyond the knock only with
`reachable` (`Answering`) and that the agent works for the watcher only while the
watcher waits for it (`Waiting`), so that an answer finds the pass it belongs to.
`MemoryIsTrue` (`MemoryIsKernel`) is inductive once the types of `export` and of the
budgets are added; every step that touches the kernel's exports or `bound` touches both,
except those that count as harm.  `GateHidesNothing` (`NothingOverlooked`) follows a
listing through a pass: from the survey to the answer, what the listing shows,
is still there and is offered by the settings the pass has read is in the pass's
offer (`PassCovers`), so what an answered or a quiet pass records covers it too
(`RecordCovers`).  The property itself excludes `QuickReplug`, the case `auto_replug` shows.

**`DevicePolicyProofs`.**  For any tree of ports, any kinds of devices, lists and
number of changes; the machine starts with its devices plugged into hubs
(`AtBootBehindHubs`).  `BootCorrect` (`BootStays`) needs that the disk stays plugged in
(`MountedIn`), because it is critical only while it is, and that the running pass
has spared it (`OfferSparesBoot`): the survey decides and the binds come later.
`CarrierCorrect` (`CarrierStays`) is the same for the routes at the survey, and holds
for `Families \subseteq {"inet"}`: the survey sees no others.  `SharedCorrect`
(`SharedStays`) is the one about the feedback.  A shared device has neither card nor
route (`Idle`), so the next survey judges it by its descriptors alone, and those let
it pass (`Fits`, `KeptOnOffer`).  It could still become critical through a device
*behind* it; but what is behind something is plugged into a hub (`BehindHubs`),
and hubs are never offered.  That step is about paths (`PrefixOfFront`,
`PrefixTransitive`).

**`SlotUpdateProofs`.**  `TypeCorrect` holds without conditions, for any number of
updaters and releases.  The safety theorems assume `Usual`:

* `~ManualPick`.  Otherwise the running slot need not be the default and the
  updater formats the default.
* `SlowInstall`: staging outlasts the 90 seconds.  Otherwise the confirmation of
  the *current* boot may clear the record of an update that has just been
  scheduled; the trial boot is then on nobody's record, the updater may start
  from the trial slot, and it formats the fallback.
* One updater at a time, unless grub-reboot never fails.  Otherwise the failing
  one removes the record of the other, with the same result.

Under these, `Inv` is inductive: the default is bootable, proven and flushed
(`DefaultSound`); what runs could be booted (`RunningSound`); a slot that runs on
trial, or will be tried next, is the one on record (`TrialOnRecord`,
`NextOnRecord`); updates start only from the default slot
(`UpdateFromDefault`), which is why what they destroy is never the default;
nothing is scheduled before the confirmation of the boot is over
(`ConfirmFirst`) and the record does not change under it (`ConfirmSound`); one
updater works at a time and finds its own record when it schedules
(`OneWorks`); and a failing grub-reboot leaves nothing scheduled
(`FailsClean`).  `FallbackSafe`, `DefaultProven` and `OneShotRecorded` follow.
The number of power cuts, what they lose, and when an updater dies are
unrestricted.

`InstalledCorrect` (`InstalledIsTrue`) needs none of these, only that updaters do not
overlap (`OneUpdater`).  Its invariant, `StatusInv`, follows a release from the copy to
the status file: while an updater works towards its record there is none
(`Unrecorded`), because `Choose` refuses otherwise; what it copied is what it will
record (`Carried`); the record stays true of its slot until a power cut takes the
root, which then does not boot (`RecordTrue`, `RunningSound`); and a slot is
formatted before it is filled, which takes its old status along (`Blank`).

**`WifiProfilesProofs`.**  For any number of connections, attempts and stops.
`KeepsLastPassword` (`LastPasswordKept`) rests on numbering: an attempt's profile
has a number nobody else has, newer than all it means to remove (`Numbers`); a
profile whose attempt has loaded it leaves disk and NetworkManager together
(`Stored`); and a deletion that is still to be carried out has a cause that
no later step takes back (`Pending`), which is why it does no harm however late
it comes.  `GoesOnlyForCause` follows from the same invariant.

**`ConfigFileProofs`.**  `TypeCorrect`, and both properties for any number of writers
of all three kinds, any interleaving, failing writes and power cuts.
`WritersPreserve` (`SettingsPreserved`): while `harm` holds neither an overlap nor
a lost text, at most one writer outside the helper runs and then nobody else
does (`Alone`), at most one helper thread is between reading and renaming
(`OneInLock`, what `CONFIG_LOCK` guarantees), and the text it holds is the file it will
find plus its own update (`FreshText`).  `NothingMissing` (`NeverMissing`) needs only
that every text in memory has every setting as long as no `cp` has run (`Whole`).

**Model-checked only.**  The liveness properties: `ClosingReleases`, `SyncEnds`,
`EveryoneEnds`, `Converges`, `NoLimbo`, `HandsBack`, `Settles`, `PendingResolves`,
`HangRecovers`.  They rest on fairness, and the prover handles neither `ENABLED` nor
chains of leads-to over it well enough.  Every invariant, action property and
refinement a passing run checks is also a theorem, under the conditions stated there.

## Disagreements found

Two runs end with a counterexample to something the repository says of the
program; `PROJECT.json` quotes the text.

| run | what happens |
|---|---|
| `disk_rundir` | The unit has `RuntimeDirectory=` without `RuntimeDirectoryPreserve=`: systemd deletes the journal with the directory before it restarts the helper, and the target stays.  The USB journal goes the same way. |
| `auto_replug` | A device that is pulled out and plugged in again between two polls has the same bus id, so the gate sees nothing and `bind_all` skips it as bound already.  Its own driver has it, and every later pass, heartbeats included, offers it to the PC unbound. |

Other limits of the code the models reproduce, with the constants that show them
where there are any.

The leases:

* `UsbLease`, `Abandoned`: bind, then killed before the lease is persisted: the device
  stays exported and no journal says so.  The disk lease journals first.  An unbind
  that usbip refuses is forgotten as well, because nobody looks at its result.
* `UsbLease` with `MaxHangs = 1`: `RefsCountHolders` fails.  A timed-out unbind
  ends the teardown thread with claims still counted, and the device is not
  returned while the helper lives.
* `DiskLease` with `MaxHangs = 1`: `RefsCountOwners` fails.  An unbind that times
  out in `usb_session_release` skips the disk's release, which follows in the
  same `finally` clause.
* `UsbLease`, `ManualShareSurvives`: the list of exports is read once; a share
  made by hand after that is "already bound", which counts as success, so the
  session adopts it and later returns it.

The watcher:

* A share made by hand is adopted in the same way ("already bound") and taken
  back with the watcher's own, although the comment at `watcher:45` promises
  otherwise.
* Nothing is journalled.  A watcher that is killed while the PC is away, or
  before the policy changes, leaves its exports for good; a `usbip` call that runs
  into its 20 s timeout counts as a kill, because nothing catches the exception.
  Turning the watcher off may take two attempts of 10 s to reach the PC, and its
  unit allows 20 s altogether.
* `hand_back` and a PC that goes away while nothing happens leave `reachable`
  set: the first pass afterwards binds before it knows whether anybody is
  there, and gives everything back at its end (hence "between two passes" in
  `NoHostage`).
* With `ToolInstalled` `FALSE`, `NoLimbo` and `Converges` fail: a PC that answers but
  cannot attach keeps the devices bound.
* An attach that failed is repeated at the next heartbeat, no earlier; a port that is stale
  counts as attached until the PC's kernel notices.
* The branch that releases devices when nobody answers the knock
  (`watcher:172-174`) is never taken: whoever has not been answered on this
  connection holds nothing (`HoldInv`).

The policy:

* Only IPv4 default routes protect an interface.  With `Families <- BothFamilies`
  `CarrierStays` fails, although the comment at `mlos_host:378-379` says the second
  command covers the rest.
* Speakers that are surveyed before ALSA has registered their card are "unknown"
  and offered; having been shared, they never get a card and stay shared.

Updater, Wi-Fi and settings:

* `SlotUpdate` with `TornWrites`: `PendingResolves` and `RecordReadable` fail.  A
  record left empty by a power cut is never removed: the confirmation exits and
  the updater refuses, on every boot.
* `SlotUpdate` with `ManualPick`: `DefaultIsProven` and `FallbackIntact` fail.
  After a manual choice in GRUB's menu the updater formats the default slot.
* `SlotUpdate` with two updaters: `InstalledIsTrue` fails.  The second one, which has
  passed the check for a record before there was one, replaces the release the
  first one's record names, and ends before it writes its own.
* `WifiProfiles`: two joins at the same time each keep the other's profile, and a
  crash leaves superseded or untried ones; a load that times out may leave
  NetworkManager with a profile whose file is gone.
* `ConfigFile`: once a menu overlaps with the helper or with another menu a
  change may be lost (`"overlap"`); the helper's lock does not exclude
  `moonlight-config-set`.

## What is not modelled

* Composition of the watcher with the session lease on one kernel; each has the
  other as an outsider.  More than one appliance on one PC, pairing, and the
  agent's own installation.
* A device of another kind plugged into a port during a session (`UsbLease`'s
  `Kind` is fixed; in `DevicePolicy` it is not), and changes of the include and
  exclude lists under a lease.  A shared device whose interface classes can no
  longer be read.
* In `DevicePolicy`, binds that fail (`UsbAuto` has them) and a device that is swapped for
  another one in a port the running pass is about to share.
* A power cut while `grub-mkconfig` writes the menu: `UpdateGrub` is one step, so a torn
  `grub.cfg` does not occur.
* The agent's reading of the port numbers before it detaches
  (`host-utils/usbip.go:215`): a port that is reused in between.
* Writes of the USB journal that fail: `persist_usb_sessions` is one step that
  works.  A crash inside it keeps the old or the new file, because it replaces
  the file.
* External commands that never return, under the lock (`ensure_daemon` has no
  timeout).
* The limit of connections to the helper, and progress events whose write fails
  inside a handler (`helper:2573`, `helper:2492`).
* Failures of `mlos_set` before its `cp` (a full `/tmp`).
* The updater's downloads, signatures and backups, and its script going on after
  a signal (its trap does not exit).
* A power loss that takes a Wi-Fi profile's directory entry along (the directory
  is not flushed): `Reboot` is orderly.
* systemd's own directory handling is external: `Preserve` says what it does.
* The loops of hot plugging, battery and telemetry, and the merge of a restored
  backup.
* Everything `PROJECT.json` lists as `not_modelled`, with the reason there.

## The plan

Done: the two leases with their common abstraction, the watcher with the agent,
the device policy, the updater, Wi-Fi, the settings file.  Next, in this order:

1. Proofs: the bound that is left of the USB lease's counts after a time-out, as
   `OwnersCounted` is for the disk, and the safety half of `Converges` and `HandsBack` (what is
   bound, and what the PC's agent may still carry out, when the watcher has exited).
2. `UsbAuto` composed with `UsbLease`, because both bind the same ports: only own
   shares are returned.
3. `HelperServer`: the connection limit, requests and replies, progress events
   whose write fails inside a handler; abstract specification: each request has
   its reply at most once.
4. `SlotUpdate` extended by `moonlight-slot-sync` and the kernel hand-off (a
   second writer of the running slot's kernel) and by the updater going on after
   a signal.
5. `RestoreMerge` (restore and merge as one more writer of `ConfigFile`).
6. Small loops: `Hotplug`, `BatteryLadder`, telemetry's unclean-exit flag.
