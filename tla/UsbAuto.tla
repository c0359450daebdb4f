------------------------------- MODULE UsbAuto -------------------------------
(***************************************************************************)
(* moonlight-usb-auto and the agent of mlos-host-utils: the watcher polls  *)
(* the USB bus, binds what the policy offers to usbip-host and sends the   *)
(* host PC the whole set; the agent attaches and detaches until its port   *)
(* table matches.  The two keep no session: the watcher remembers what it  *)
(* bound and what it last offered, the agent reads its port table again on *)
(* every request, and a heartbeat repeats the offer.                       *)
(*                                                                         *)
(* One step is one call that another party can see or that can fail: a     *)
(* bind, an unbind, a send, an attach.  Devices come and go, the policy    *)
(* changes, either end dies and the network stalls between any two.        *)
(***************************************************************************)
EXTENDS Naturals, FiniteSets

CONSTANTS
    Busids,         \* USB ports by bus id
    None,           \* Python's None
    GiveUp,         \* failed probes after which the janitor detaches (3)
    QuickReplug,    \* a device may come back before the watcher missed it
    ToolInstalled,  \* the host PC has a working USB/IP client
    MaxPlugs,       \* bound: devices that come, go or are shared by hand
    MaxSettings,    \* bound: changed settings and restarts of the watcher
    MaxOutages,     \* bound: outages of the host PC, its agent or the network
    MaxTrouble      \* bound: misfortunes (late answers, refusals, failed binds
                    \* and attaches) and harm (kills and failed unbinds)

ASSUME BusidsFinite == IsFiniteSet(Busids)
ASSUME NoneIsNoOffer == \A devs \in SUBSET Busids : devs # None
ASSUME SwitchType == {QuickReplug, ToolInstalled} \subseteq BOOLEAN
ASSUME BoundType ==
    /\ GiveUp \in Nat \ {0}
    /\ {MaxPlugs, MaxSettings, MaxOutages, MaxTrouble} \subseteq Nat

VARIABLES
    \* the watcher
    pc,         \* where it is; "off": systemd starts it, "exited": it does not
    stop,       \* SIGTERM was received
    errand,     \* what its calls are for: "pass", "handback" or "goodbye"
    bound,      \* bus ids this daemon bound
    lastOffer,  \* the set last sent
    lastSeen,   \* the bus ids present at the last survey
    dealt,      \* (history) what the settings offered when lastSeen was recorded
    reachable,  \* the host PC answered on this connection
    due,        \* HEARTBEAT seconds have passed since last_sync
    policy,     \* this pass: what the settings it read would offer
    seen,       \* this pass: the cheap listing
    heartbeat,  \* this pass: a heartbeat was due when it began
    offer,      \* this pass: what the survey offers
    good,       \* this pass: what is bound of it
    todo,       \* this pass: what bind_all has still to visit
    conn,       \* the client's socket: "none", "open" or "dead"
    attempt,    \* 0 or 1: Client.call retries once
    request,    \* the call it waits for: "none", "sent" or "taken"
    \* the host PC
    agent,      \* it is on and the agent runs
    ports,      \* its port table: "free", "live" or "stale" (connection lost)
    late,       \* late[D]: abandoned requests for D it may still read
    job,        \* the sync that holds toolMu
    misses,     \* seen: consecutive probes that failed
    purging,    \* the janitor has decided to detach everything
    \* the machine and the network
    link,       \* packets get through
    plugged,    \* bus ids in sysfs
    export,     \* usbip-host's devices and (history) who had them bound
    wanted,     \* what the configured policy offers of what is plugged in
    enabled,    \* USB_AUTOSHARE = yes
    spent       \* how much of each bound has been used up

gate == <<lastSeen, dealt>>
memory == <<bound, lastOffer, gate, reachable, due>>
pass == <<policy, seen, heartbeat, offer, good, todo>>
client == <<conn, attempt, request>>
host == <<agent, ports, late, job, misses, purging>>
world == <<link, plugged, wanted, enabled>>
vars == <<pc, stop, errand, memory, pass, client, host, world, export, spent>>

Working == {"survey", "knock", "bind", "send", "await", "release"}
NoJob == [running |-> FALSE, want |-> {}, todo |-> {}, mine |-> FALSE]

Budgets == {"plugs", "settings", "outages", "lost", "harm"}

Spend(what) == spent' = [spent EXCEPT ![what] = spent[what] + 1]
Hotplug == spent["plugs"] < MaxPlugs /\ Spend("plugs")
Setting == spent["settings"] < MaxSettings /\ Spend("settings")
Outage == spent["outages"] < MaxOutages /\ Spend("outages")
Trouble == spent["lost"] + spent["harm"] < MaxTrouble
Misfortune == Trouble /\ Spend("lost")
Harm == Trouble /\ Spend("harm")

Exported == {b \in Busids : export[b] # "none"}
Live == {b \in Busids : ports[b] = "live"}
Attached == {b \in Busids : ports[b] # "free"}

\* pass_once returns, to the loop or to what release_local does for it.
Return ==
    /\ policy' = {} /\ seen' = {} /\ heartbeat' = FALSE
    /\ offer' = {} /\ good' = {} /\ todo' = {}

\* The devices a sync names: what was bound, or nothing on the way out.
Payload == IF errand = "pass" THEN good ELSE {}

\* usbip-host lets go of b and closes the connection to the host PC, which
\* does not notice while nothing gets through.
Closes(b) ==
    /\ export' = [export EXCEPT ![b] = "none"]
    /\ ports' = IF ports[b] # "live" THEN ports
                ELSE [ports EXCEPT ![b] = IF link THEN "free" ELSE "stale"]

\* --------------------------------------------------------- one pass

\* main() as systemd runs it: a disabled watcher exits and is not restarted.
Start ==
    /\ pc = "off"
    /\ pc' = IF enabled THEN "idle" ELSE "exited"
    /\ UNCHANGED <<stop, errand, memory, pass, client, host, world, export, spent>>

HeartbeatDue ==
    /\ pc \notin {"off", "exited"} /\ ~due
    /\ due' = TRUE
    /\ UNCHANGED <<pc, stop, errand, bound, lastOffer, gate, reachable, pass, client, host,
                   world, export, spent>>

\* Mutant of Look: no heartbeat, only a changed listing is surveyed.
LookOnChange ==
    /\ pc = "idle" /\ ~stop /\ enabled
    /\ lastSeen # plugged
    /\ policy' = wanted /\ seen' = plugged /\ heartbeat' = FALSE
    /\ pc' = "survey"
    /\ UNCHANGED <<stop, errand, memory, offer, good, todo, client, host, world, export, spent>>

\* A pass reads the settings, then the cheap gate: only a changed listing or a
\* heartbeat is worth a survey.
Look ==
    /\ pc = "idle" /\ ~stop /\ enabled
    /\ due \/ lastSeen # plugged
    /\ policy' = wanted /\ seen' = plugged /\ heartbeat' = due
    /\ pc' = "survey"
    /\ UNCHANGED <<stop, errand, memory, offer, good, todo, client, host, world, export, spent>>

\* The survey lists the bus again: it may see more or less than the gate did.
Survey ==
    /\ pc = "survey"
    /\ LET found == plugged \cap policy
       IN  IF heartbeat \/ found # lastOffer
           THEN /\ offer' = found /\ heartbeat' = FALSE
                /\ pc' = "knock"
                /\ UNCHANGED <<gate, policy, seen, good, todo>>
           ELSE Return /\ lastSeen' = seen /\ dealt' = policy /\ pc' = "idle"
    /\ UNCHANGED <<stop, errand, bound, lastOffer, reachable, due, client, host, world,
                   export, spent>>

\* usbipd does not start: the pass fails and keeps what it holds.
NoDaemon ==
    /\ pc = "knock" /\ offer # {}
    /\ Misfortune
    /\ Return
    /\ pc' = "idle"
    /\ UNCHANGED <<stop, errand, memory, client, host, world, export>>

\* The host PC has answered on this connection, or answers a ping now.
Knock ==
    /\ pc = "knock"
    /\ reachable \/ (agent /\ link)
    /\ reachable' = TRUE
    /\ conn' = IF reachable THEN conn ELSE "open"
    /\ good' = offer \cap bound
    /\ todo' = offer \ bound
    /\ pc' = "bind"
    /\ UNCHANGED <<stop, errand, bound, lastOffer, gate, due, policy, seen, heartbeat,
                   offer, attempt, request, host, world, export, spent>>

KnockFails ==
    /\ pc = "knock" /\ ~reachable
    /\ IF agent /\ link THEN Misfortune ELSE UNCHANGED spent
    /\ conn' = "none"
    /\ Return
    /\ pc' = IF bound = {} THEN "idle" ELSE "release"
    /\ UNCHANGED <<stop, errand, memory, attempt, request, host, world, export>>

\* Mutant of Bind: the device goes into the offer but not into bound.
BindUnrecorded(b) ==
    /\ pc = "bind" /\ b \in todo /\ b \in plugged
    /\ export' = [export EXCEPT ![b] = IF @ = "none" THEN "auto" ELSE @]
    /\ good' = good \cup {b}
    /\ todo' = todo \ {b}
    /\ UNCHANGED <<pc, stop, errand, memory, policy, seen, heartbeat, offer, client, host,
                   world, spent>>

\* bind_all; a device that is exported already counts as bound by the daemon.
Bind(b) ==
    /\ pc = "bind" /\ b \in todo /\ b \in plugged
    /\ export' = [export EXCEPT ![b] = IF @ = "none" THEN "auto" ELSE @]
    /\ bound' = bound \cup {b}
    /\ good' = good \cup {b}
    /\ todo' = todo \ {b}
    /\ UNCHANGED <<pc, stop, errand, lastOffer, gate, reachable, due, policy, seen,
                   heartbeat, offer, client, host, world, spent>>

BindFails(b) ==
    /\ pc = "bind" /\ b \in todo
    /\ IF b \in plugged THEN export[b] = "none" /\ Misfortune ELSE UNCHANGED spent
    /\ todo' = todo \ {b}
    /\ UNCHANGED <<pc, stop, errand, memory, policy, seen, heartbeat, offer, good, client,
                   host, world, export>>

\* `usbip unbind`, whose exit status nobody looks at.
Unbind(b) ==
    /\ bound' = bound \ {b}
    /\ \/ /\ IF b \in Exported THEN Closes(b) ELSE UNCHANGED <<export, ports>>
          /\ UNCHANGED spent
       \/ b \in Exported /\ Harm /\ UNCHANGED <<export, ports>>
    /\ UNCHANGED <<stop, errand, lastOffer, gate, reachable, due, pass, client, agent,
                   late, job, misses, purging, world>>

\* unbind_gone: what is held and no longer offered.
Prune(b) ==
    /\ pc = "bind" /\ todo = {} /\ b \in bound \ good
    /\ Unbind(b)
    /\ UNCHANGED pc

BindDone ==
    /\ pc = "bind" /\ todo = {} /\ bound \subseteq good
    /\ pc' = "send"
    /\ UNCHANGED <<stop, errand, memory, pass, client, host, world, export, spent>>

\* --------------------------------------------- Client.call and its outcomes

\* Mutant of Unreachable: the devices stay bound until the host PC is back.
UnreachableKeeps ==
    /\ pc' = IF errand = "pass" THEN "idle" ELSE "release"
    /\ conn' = "none" /\ attempt' = 0
    /\ Return
    /\ reachable' = (reachable /\ errand # "pass")

\* A HostError "unreachable": a pass gives everything back to this machine.
Unreachable ==
    /\ pc' = "release"
    /\ conn' = "none" /\ attempt' = 0
    /\ Return
    /\ reachable' = (reachable /\ errand # "pass")

\* A refused connection is not retried; a dead one is only noticed on use.
Send ==
    /\ pc = "send"
    /\ IF conn = "none" /\ ~(agent /\ link)
       THEN Unreachable /\ UNCHANGED request
       ELSE /\ pc' = "await"
            /\ conn' = IF conn = "none" THEN "open" ELSE conn
            /\ request' = IF conn = "dead" THEN "none" ELSE "sent"
            /\ UNCHANGED <<reachable, attempt, pass>>
    /\ UNCHANGED <<stop, errand, bound, lastOffer, gate, due, host, world, export, spent>>

\* The caller no longer waits.  What it sent may still be on its way to the
\* agent, and what the agent has begun it finishes.
Abandon ==
    /\ request' = "none"
    /\ job' = [job EXCEPT !.mine = FALSE]
    /\ \/ UNCHANGED late
       \/ request = "sent" /\ late' = [late EXCEPT ![Payload] = late[Payload] + 1]

\* No answer before the timeout: one retry on a new connection, then give up.
GiveUpWaiting ==
    /\ Abandon
    /\ IF attempt = 0
       THEN attempt' = 1 /\ conn' = "none" /\ pc' = "send" /\ UNCHANGED <<reachable, pass>>
       ELSE Unreachable
    /\ UNCHANGED <<stop, errand, bound, lastOffer, gate, due, agent, ports,
                   misses, purging, world, export>>

NoAnswer ==
    /\ pc = "await" /\ (request = "none" \/ ~link)
    /\ GiveUpWaiting
    /\ UNCHANGED spent

AnswerTooLate ==
    /\ pc = "await" /\ request # "none" /\ link
    /\ Misfortune
    /\ GiveUpWaiting

\* release_local, at the end of a failed pass or of hand_back.
Release(b) ==
    /\ pc = "release" /\ b \in bound
    /\ Unbind(b)
    /\ UNCHANGED pc

\* The memory of a new process.
Forget ==
    /\ bound' = {} /\ lastOffer' = None /\ lastSeen' = None /\ dealt' = {}
    /\ reachable' = FALSE /\ due' = TRUE
    /\ conn' = "none" /\ attempt' = 0
    /\ stop' = FALSE /\ errand' = "pass"
    /\ Return

Released ==
    /\ pc = "release" /\ bound = {}
    /\ IF errand = "goodbye"
       THEN Forget /\ pc' = "off"
       ELSE /\ lastOffer' = None /\ lastSeen' = None /\ dealt' = {}
            /\ conn' = IF errand = "pass" THEN conn ELSE "none"
            /\ errand' = "pass"
            /\ pc' = "idle"
            /\ UNCHANGED <<stop, bound, reachable, due, pass, attempt>>
    /\ UNCHANGED <<request, host, world, export, spent>>

\* Mutant of HandBack: only on the way out, not when it is turned off.
HandBackOnExit ==
    /\ pc = "idle" /\ stop
    /\ errand' = "goodbye"
    /\ pc' = "send"
    /\ UNCHANGED <<stop, memory, pass, client, host, world, export, spent>>

\* hand_back: turned off while it holds devices, or told to stop.
HandBack ==
    /\ pc = "idle" /\ (stop \/ (~enabled /\ bound # {}))
    /\ errand' = IF stop THEN "goodbye" ELSE "handback"
    /\ pc' = "send"
    /\ UNCHANGED <<stop, memory, pass, client, host, world, export, spent>>

\* Killed, or a usbip call ran into its timeout: nothing remembers the exports.
Kill ==
    /\ pc \in Working \cup {"idle"}
    /\ Harm
    /\ Abandon
    /\ Forget
    /\ pc' = "off"
    /\ UNCHANGED <<agent, ports, misses, purging, world, export>>

\* ---------------------------------------------------------------- the agent

Reached == agent /\ link

Begin(devs, mine) ==
    job' = [running |-> TRUE, want |-> devs, todo |-> devs \ Attached, mine |-> mine]

Take ==
    /\ Reached /\ request = "sent" /\ ~job.running
    /\ ToolInstalled \/ Payload = {}
    /\ Begin(Payload, TRUE)
    /\ request' = "taken"
    /\ UNCHANGED <<pc, stop, errand, memory, pass, conn, attempt, agent, ports, late, misses,
                   purging, world, export, spent>>

\* A request whose sender has given up is carried out all the same.
TakeLate(devs) ==
    /\ Reached /\ late[devs] > 0 /\ ~job.running
    /\ ToolInstalled \/ devs = {}
    /\ Begin(devs, FALSE)
    /\ late' = [late EXCEPT ![devs] = @ - 1]
    /\ UNCHANGED <<pc, stop, errand, memory, pass, client, agent, ports, misses, purging,
                   world, export, spent>>

\* Attach first: a device the table still lists, dead or not, is skipped.
Attach(b) ==
    /\ job.running /\ b \in job.todo
    /\ job' = [job EXCEPT !.todo = @ \ {b}]
    /\ \/ /\ link /\ b \in Exported
          /\ ports' = [ports EXCEPT ![b] = "live"]
          /\ UNCHANGED spent
       \/ /\ IF link /\ b \in Exported THEN Misfortune ELSE UNCHANGED spent
          /\ UNCHANGED ports
    /\ UNCHANGED <<pc, stop, errand, memory, pass, client, agent, late, misses, purging,
                   world, export>>

\* Only an answered pass records what it has dealt with.
Answered ==
    /\ request' = "none" /\ attempt' = 0
    /\ Return
    /\ IF errand = "pass"
       THEN /\ lastOffer' = offer /\ lastSeen' = seen /\ dealt' = policy /\ due' = FALSE
            /\ pc' = "idle"
       ELSE pc' = "release" /\ UNCHANGED <<lastOffer, gate, due>>

\* The ports that are still listed after a round of detaching: those to keep,
\* and any that resist.
DetachAllBut(keep) ==
    \E resisting \in SUBSET (Attached \ keep) :
        /\ ports' = [b \in Busids |->
                       IF b \in keep \cup resisting THEN ports[b] ELSE "free"]
        /\ IF resisting = {} THEN UNCHANGED spent ELSE Misfortune

\* Then detach the rest, port by port, and answer whoever still waits.
Settle ==
    /\ job.running /\ job.todo = {}
    /\ DetachAllBut(job.want)
    /\ misses' = 0
    /\ job' = NoJob
    /\ IF job.mine /\ link THEN Answered
       ELSE /\ request' = IF job.mine THEN "none" ELSE request
            /\ UNCHANGED <<pc, lastOffer, gate, due, pass, attempt>>
    /\ UNCHANGED <<stop, errand, bound, reachable, conn, agent, late, purging, world, export>>

\* Mutant of Refuse: a refused pass is remembered as dealt with.
RefuseRemembered ==
    /\ Reached /\ request = "sent"
    /\ IF ToolInstalled \/ Payload = {} THEN Misfortune ELSE UNCHANGED spent
    /\ request' = "none" /\ attempt' = 0
    /\ Return
    /\ pc' = IF errand = "pass" THEN "idle" ELSE "release"
    /\ IF errand = "pass" THEN lastSeen' = seen /\ due' = FALSE
       ELSE UNCHANGED <<lastSeen, due>>
    /\ UNCHANGED <<stop, errand, bound, lastOffer, dealt, reachable, conn, host, world, export>>

\* tool_failed, not_installed, needs_reboot, bad_token: the pass fails, and
\* the devices stay bound.
Refuse ==
    /\ Reached /\ request = "sent"
    /\ IF ToolInstalled \/ Payload = {} THEN Misfortune ELSE UNCHANGED spent
    /\ request' = "none" /\ attempt' = 0
    /\ Return
    /\ pc' = IF errand = "pass" THEN "idle" ELSE "release"
    /\ UNCHANGED <<stop, errand, memory, conn, host, world, export>>

\* Mutant of Probe: off by one, and it goes on counting.
ProbeOnceMore ==
    /\ agent /\ ~purging
    /\ IF link \/ Attached = {} THEN misses > 0 /\ misses' = 0 /\ UNCHANGED purging
       ELSE misses' = misses + 1 /\ purging' = (misses = GiveUp)
    /\ UNCHANGED <<pc, stop, errand, memory, pass, client, agent, ports, late, job, world,
                   export, spent>>

\* janitor: probe the servers in the port table every 20 seconds ...
Probe ==
    /\ agent /\ ~purging
    /\ IF link \/ Attached = {} THEN misses > 0 /\ misses' = 0 /\ UNCHANGED purging
       ELSE misses' = misses + 1 /\ purging' = (misses' = GiveUp)
    /\ UNCHANGED <<pc, stop, errand, memory, pass, client, agent, ports, late, job, world,
                   export, spent>>

\* ... and detach under toolMu, whatever happened since the last probe; the
\* count starts again even if that failed.
Purge ==
    /\ purging /\ ~job.running
    /\ DetachAllBut({})
    /\ misses' = 0 /\ purging' = FALSE
    /\ UNCHANGED <<pc, stop, errand, memory, pass, client, agent, late, job, world, export>>

\* ----------------------------------------- the machine, its user, the network

\* The listings the watcher still goes by do not hold b.
Missed(b) ==
    /\ b \notin bound \cup seen \cup offer
    /\ lastSeen # None => b \notin lastSeen

Outside == <<pc, stop, errand, memory, pass>>

\* A device on this port appears; it belongs to its own driver.
Plug(b) ==
    /\ b \notin plugged /\ (QuickReplug \/ Missed(b))
    /\ Hotplug
    /\ plugged' = plugged \cup {b}
    /\ UNCHANGED <<Outside, client, host, link, wanted, enabled, export>>

Unplug(b) ==
    /\ b \in plugged
    /\ Hotplug
    /\ plugged' = plugged \ {b}
    /\ Closes(b)
    /\ UNCHANGED <<Outside, client, agent, late, job, misses, purging, link, wanted, enabled>>

\* Someone shares b from the menu.
ShareByHand(b) ==
    /\ b \in plugged \ Exported
    /\ Hotplug
    /\ export' = [export EXCEPT ![b] = "hand"]
    /\ UNCHANGED <<Outside, client, host, world>>

\* Policy, include or exclude list.
Configure(b) ==
    /\ Setting
    /\ wanted' = IF b \in wanted THEN wanted \ {b} ELSE wanted \cup {b}
    /\ UNCHANGED <<Outside, client, host, link, plugged, enabled, export>>

\* USB_AUTOSHARE alone, as the helper writes it.
Toggle ==
    /\ Setting
    /\ enabled' = ~enabled
    /\ UNCHANGED <<Outside, client, host, link, plugged, wanted, export>>

\* `systemctl restart`, as the menu does after it.
Restart ==
    /\ pc # "off" /\ ~stop
    /\ Setting
    /\ IF pc = "exited" THEN pc' = "off" /\ UNCHANGED stop ELSE stop' = TRUE /\ UNCHANGED pc
    /\ UNCHANGED <<errand, memory, pass, client, host, world, export>>

\* The agent's process ends: connections, requests and counts are gone.
AgentLoses ==
    /\ late' = [devs \in SUBSET Busids |-> 0]
    /\ job' = NoJob
    /\ misses' = 0 /\ purging' = FALSE
    /\ conn' = IF conn = "open" THEN "dead" ELSE conn
    /\ request' = "none"
    /\ UNCHANGED <<Outside, attempt, world, export>>

HostGoes ==
    /\ agent
    /\ Outage
    /\ agent' = FALSE
    /\ ports' = [b \in Busids |-> "free"]
    /\ AgentLoses

AgentRestarts ==
    /\ agent
    /\ Outage
    /\ AgentLoses
    /\ UNCHANGED <<agent, ports>>

HostComes ==
    /\ ~agent
    /\ agent' = TRUE
    /\ UNCHANGED <<Outside, client, ports, late, job, misses, purging, world, export, spent>>

\* An outage; the connections in broken do not survive it.
LinkDown(broken) ==
    /\ link
    /\ Outage
    /\ link' = FALSE
    /\ ports' = [b \in Busids |-> IF b \in broken THEN "stale" ELSE ports[b]]
    /\ UNCHANGED <<Outside, client, agent, late, job, misses, purging, plugged, wanted,
                   enabled, export>>

LinkUp ==
    /\ ~link
    /\ link' = TRUE
    /\ UNCHANGED <<Outside, client, host, plugged, wanted, enabled, export, spent>>

\* The host PC's kernel finds a connection dead and frees the port.
Notice(b) ==
    /\ link /\ ports[b] = "stale"
    /\ ports' = [ports EXCEPT ![b] = "free"]
    /\ UNCHANGED <<Outside, client, agent, late, job, misses, purging, world, export, spent>>

\* ------------------------------------------------------------------- the spec

Init ==
    /\ pc = "off" /\ stop = FALSE /\ errand = "pass"
    /\ bound = {} /\ lastOffer = None /\ lastSeen = None /\ dealt = {}
    /\ reachable = FALSE /\ due = TRUE
    /\ policy = {} /\ seen = {} /\ heartbeat = FALSE /\ offer = {} /\ good = {} /\ todo = {}
    /\ conn = "none" /\ attempt = 0 /\ request = "none"
    /\ agent = TRUE /\ link = TRUE
    /\ ports = [b \in Busids |-> "free"]
    /\ late = [devs \in SUBSET Busids |-> 0]
    /\ job = NoJob /\ misses = 0 /\ purging = FALSE
    /\ plugged = {} /\ wanted = Busids /\ enabled = TRUE
    /\ export = [b \in Busids |-> "none"]
    /\ spent = [what \in Budgets |-> 0]

\* What the watcher does of its own accord.
Watch ==
    \/ Start \/ Look \/ Survey \/ Knock \/ KnockFails \/ BindDone \/ Send \/ NoAnswer
    \/ Released \/ HandBack
    \/ \E b \in Busids : Bind(b) \/ BindFails(b) \/ Prune(b) \/ Release(b)

\* What the agent does for it.
Serve ==
    \/ Take \/ Settle \/ Refuse
    \/ \E devs \in SUBSET Busids : TakeLate(devs)
    \/ \E b \in Busids : Attach(b)

Janitor == Probe \/ Purge

Environment ==
    \/ Toggle \/ Restart \/ HostGoes \/ HostComes \/ AgentRestarts \/ LinkUp \/ Kill
    \/ \E broken \in SUBSET Live : LinkDown(broken)
    \/ \E b \in Busids : Plug(b) \/ Unplug(b) \/ ShareByHand(b) \/ Configure(b)

Next ==
    \/ Watch \/ HeartbeatDue \/ NoDaemon \/ AnswerTooLate
    \/ Serve \/ Janitor \/ Environment
    \/ \E b \in Busids : Notice(b)

Spec == Init /\ [][Next]_vars

\* The loops of both programs keep turning, the clock reaches the next
\* heartbeat, and TCP keepalive ends a dead connection.
FairSpec ==
    /\ Spec
    /\ WF_vars(Watch) /\ WF_vars(HeartbeatDue)
    /\ WF_vars(Serve) /\ WF_vars(Janitor)
    /\ \A b \in Busids : WF_vars(Notice(b))

\* ------------------------------------------------------------------ properties

\* The type of the state; misses never passes GiveUp.
TypeOK ==
    /\ pc \in Working \cup {"off", "exited", "idle"}
    /\ errand \in {"pass", "handback", "goodbye"}
    /\ {stop, reachable, due, heartbeat, agent, purging, link, enabled} \subseteq BOOLEAN
    /\ {bound, dealt, seen, policy, offer, good, todo, plugged, wanted} \subseteq SUBSET Busids
    /\ \A devs \in {lastOffer, lastSeen} : devs = None \/ devs \subseteq Busids
    /\ conn \in {"none", "open", "dead"} /\ attempt \in {0, 1}
    /\ request \in {"none", "sent", "taken"}
    /\ ports \in [Busids -> {"free", "live", "stale"}]
    /\ export \in [Busids -> {"none", "auto", "hand"}]
    /\ late \in [SUBSET Busids -> Nat]
    /\ job \in [running : BOOLEAN, want : SUBSET Busids, todo : SUBSET Busids, mine : BOOLEAN]
    /\ misses \in 0..GiveUp
    /\ spent \in [Budgets -> Nat]

\* What the watcher remembers is what the kernel holds, as long as it is not
\* killed, no unbind fails and no device comes back unnoticed: nothing it
\* exported is forgotten, and every device it skips in bind_all because it is
\* bound already really is.
MemoryIsKernel ==
    ~QuickReplug /\ spent["harm"] = 0 =>
        /\ \A b \in Busids : export[b] = "auto" => b \in bound
        /\ bound \cap plugged \subseteq Exported

\* Between two passes the watcher holds devices only while it has reason to
\* think that somebody is there to use them.
NoHostage == pc = "idle" /\ ~reachable => bound = {}

\* The cheap gate never hides a device: when it answers "nothing has changed"
\* since the last pass that worked, and the settings have not changed since
\* either, everything they offer is part of the last offer, whatever passes
\* failed in between.  A device that is unplugged and back before the watcher
\* missed it is what it cannot see (QuickReplug).
NothingOverlooked ==
    ~QuickReplug /\ pc = "idle" /\ ~due /\ lastSeen = plugged /\ dealt = wanted
                 /\ lastOffer # None
        => plugged \cap wanted \subseteq lastOffer

\* Both ends are up and automatic sharing is on.
Settled == agent /\ link /\ enabled /\ pc # "exited"

\* Once both ends stay up, the host PC ends up with exactly the devices that
\* are plugged in and offered, whatever was lost, late or killed before.
Converges == <>[]Settled => <>[](Live = plugged \cap wanted)

\* No device stays taken away from this machine without being the host PC's:
\* time and again everything the watcher holds is attached over there.
NoLimbo == []<>(spent["harm"] > 0 \/ bound \cap Exported \subseteq Live)

\* Turned off for good, an undisturbed watcher hands everything back.
HandsBack ==
    <>[](~enabled) => <>[](spent["harm"] > 0 \/ \A b \in Busids : export[b] # "auto")
===============================================================================
