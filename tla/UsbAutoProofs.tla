---------------------------- MODULE UsbAutoProofs ----------------------------
(***************************************************************************)
(* For any number of ports and any amount of trouble: the state is well    *)
(* typed, the watcher keeps devices between two passes only when the host  *)
(* PC has answered, what it remembers is what the kernel holds, and its    *)
(* cheap gate hides no device that it should offer.                        *)
(***************************************************************************)
EXTENDS UsbAuto, TLAPS

(***************************************************************************)
(* Types, for the watcher, the host PC and the machine apart: few steps    *)
(* touch more than one of the three.  The count of failed probes stays in  *)
(* range because the janitor stops counting once it has decided.           *)
(***************************************************************************)
WatcherType ==
    /\ pc \in Working \cup {"off", "exited", "idle"}
    /\ errand \in {"pass", "handback", "goodbye"}
    /\ stop \in BOOLEAN /\ reachable \in BOOLEAN /\ due \in BOOLEAN /\ heartbeat \in BOOLEAN
    /\ bound \subseteq Busids /\ dealt \subseteq Busids /\ seen \subseteq Busids
    /\ policy \subseteq Busids /\ offer \subseteq Busids /\ good \subseteq Busids
    /\ todo \subseteq Busids
    /\ lastOffer = None \/ lastOffer \subseteq Busids
    /\ lastSeen = None \/ lastSeen \subseteq Busids
    /\ conn \in {"none", "open", "dead"} /\ attempt \in {0, 1}
    /\ request \in {"none", "sent", "taken"}

HostType ==
    /\ agent \in BOOLEAN /\ purging \in BOOLEAN
    /\ ports \in [Busids -> {"free", "live", "stale"}]
    /\ late \in [SUBSET Busids -> Nat]
    /\ job \in [running : BOOLEAN, want : SUBSET Busids, todo : SUBSET Busids, mine : BOOLEAN]
    /\ misses \in 0..GiveUp
    /\ purging \/ misses < GiveUp

WorldType ==
    /\ link \in BOOLEAN /\ enabled \in BOOLEAN
    /\ plugged \subseteq Busids /\ wanted \subseteq Busids
    /\ export \in [Busids -> {"none", "auto", "hand"}]
    /\ spent \in [Budgets -> Nat]

TypeInv == WatcherType /\ HostType /\ WorldType

\* A sync names ports of this machine.
LEMMA PayloadType ==
    ASSUME WatcherType
    PROVE  Payload \in SUBSET Busids
  BY DEF WatcherType, Payload

LEMMA AbandonType ==
    ASSUME TypeInv, Abandon
    PROVE  /\ request' = "none"
           /\ late' \in [SUBSET Busids -> Nat]
           /\ job' \in [running : BOOLEAN, want : SUBSET Busids, todo : SUBSET Busids, mine : BOOLEAN]
  <1>1. request' = "none" /\ job' = [job EXCEPT !.mine = FALSE]
    BY DEF Abandon
  <1>2. late' = late \/ late' = [late EXCEPT ![Payload] = late[Payload] + 1]
    BY DEF Abandon
  <1>3. late[Payload] \in Nat
    BY PayloadType DEF TypeInv, HostType
  <1>4. late' \in [SUBSET Busids -> Nat]
    BY <1>2, <1>3 DEF TypeInv, HostType
  <1> QED
    BY <1>1, <1>4 DEF TypeInv, HostType

LEMMA ClosesType ==
    ASSUME TypeInv, NEW b \in Busids, Closes(b)
    PROVE  /\ export' \in [Busids -> {"none", "auto", "hand"}]
           /\ ports' \in [Busids -> {"free", "live", "stale"}]
  BY DEF TypeInv, HostType, WorldType, Closes

LEMMA DetachType ==
    ASSUME TypeInv, NEW keep \in SUBSET Busids, DetachAllBut(keep)
    PROVE  /\ ports' \in [Busids -> {"free", "live", "stale"}]
           /\ Misfortune \/ UNCHANGED spent
  BY DEF TypeInv, HostType, DetachAllBut

LEMMA SpendType ==
    ASSUME WorldType, NEW what \in Budgets, Spend(what)
    PROVE  spent' \in [Budgets -> Nat]
  BY DEF WorldType, Spend, Budgets

LEMMA WatcherTyped ==
    ASSUME TypeInv, [Next]_vars
    PROVE  WatcherType'
  <1> USE DEF TypeInv, WatcherType, Working, memory, gate, pass, client
  <1>1. ASSUME Start \/ HeartbeatDue \/ BindDone \/ HandBack
        PROVE  WatcherType'
    <2>1. CASE Start
      BY <2>1 DEF Start
    <2>2. CASE HeartbeatDue
      BY <2>2 DEF HeartbeatDue
    <2>3. CASE BindDone
      BY <2>3 DEF BindDone
    <2>4. CASE HandBack
      BY <2>4 DEF HandBack
    <2> QED
      BY <1>1, <2>1, <2>2, <2>3, <2>4
  <1>2. ASSUME Look \/ Survey
        PROVE  WatcherType'
    <2>1. CASE Look
      BY <2>1 DEF Look, WorldType
    <2>2. CASE Survey
      BY <2>2 DEF Survey, Return, WorldType
    <2> QED
      BY <1>2, <2>1, <2>2
  <1>3. ASSUME Knock \/ KnockFails \/ NoDaemon
        PROVE  WatcherType'
    <2>1. CASE Knock
      BY <2>1 DEF Knock
    <2>2. CASE KnockFails
      BY <2>2 DEF KnockFails, Return
    <2>3. CASE NoDaemon
      BY <2>3 DEF NoDaemon, Return
    <2> QED
      BY <1>3, <2>1, <2>2, <2>3
  <1>4. ASSUME Send
        PROVE  WatcherType'
    BY <1>4 DEF Send, Unreachable, Return
  <1>5. ASSUME NoAnswer \/ AnswerTooLate
        PROVE  WatcherType'
    BY <1>5 DEF NoAnswer, AnswerTooLate, GiveUpWaiting, Abandon, Unreachable, Return
  <1>6. ASSUME Released
        PROVE  WatcherType'
    BY <1>6 DEF Released, Forget, Return
  <1>7. ASSUME NEW b \in Busids, Bind(b) \/ BindFails(b)
        PROVE  WatcherType'
    BY <1>7 DEF Bind, BindFails
  <1>8. ASSUME NEW b \in Busids, Prune(b) \/ Release(b)
        PROVE  WatcherType'
    BY <1>8 DEF Prune, Release, Unbind
  <1>9. ASSUME Settle
        PROVE  WatcherType'
    <2>1. UNCHANGED <<stop, errand, bound, reachable, conn>>
      BY <1>9 DEF Settle
    <2>2. CASE Answered
      BY <2>1, <2>2 DEF Answered, Return
    <2>3. CASE ~Answered
      BY <1>9, <2>1, <2>3 DEF Settle
    <2> QED
      BY <2>2, <2>3
  <1>10. ASSUME Take \/ Refuse
        PROVE  WatcherType'
    <2>1. CASE Take
      BY <2>1 DEF Take
    <2>2. CASE Refuse
      BY <2>2 DEF Refuse, Return
    <2> QED
      BY <1>10, <2>1, <2>2
  <1>11. ASSUME Kill
        PROVE  WatcherType'
    BY <1>11 DEF Kill, Abandon, Forget, Return
  <1>12. ASSUME Restart
        PROVE  WatcherType'
    BY <1>12 DEF Restart
  <1>13. ASSUME HostGoes \/ AgentRestarts
        PROVE  WatcherType'
    BY <1>13 DEF HostGoes, AgentRestarts, AgentLoses, Outside
  <1>14. ASSUME UNCHANGED <<pc, stop, errand, memory, pass, client>>
         PROVE  WatcherType'
    BY <1>14
  <1>15. ASSUME \/ Toggle \/ HostComes \/ LinkUp \/ Janitor
                \/ \E broken \in SUBSET Live : LinkDown(broken)
                \/ \E devs \in SUBSET Busids : TakeLate(devs)
                \/ \E b \in Busids : \/ Plug(b) \/ Unplug(b) \/ ShareByHand(b)
                                     \/ Configure(b) \/ Notice(b) \/ Attach(b)
                \/ UNCHANGED vars
         PROVE  UNCHANGED <<pc, stop, errand, memory, pass, client>>
    BY <1>15 DEF Toggle, HostComes, LinkUp, Janitor, Probe, Purge, LinkDown, TakeLate, Plug,
                 Unplug, ShareByHand, Configure, Notice, Attach, Outside, vars
  <1> QED
    BY <1>1, <1>2, <1>3, <1>4, <1>5, <1>6, <1>7, <1>8, <1>9, <1>10, <1>11, <1>12, <1>13,
       <1>14, <1>15 DEF Next, Watch, Serve, Environment

LEMMA HostTyped ==
    ASSUME TypeInv, [Next]_vars
    PROVE  HostType'
  <1> USE DEF TypeInv, HostType, host
  <1>1. ASSUME NoAnswer \/ AnswerTooLate \/ Kill
        PROVE  HostType'
    <2>1. UNCHANGED <<agent, ports, misses, purging>> /\ Abandon
      BY <1>1 DEF NoAnswer, AnswerTooLate, Kill, GiveUpWaiting
    <2> QED
      BY <2>1, AbandonType
  <1>2. ASSUME NEW b \in Busids, Prune(b) \/ Release(b)
        PROVE  HostType'
    BY <1>2, ClosesType DEF Prune, Release, Unbind
  <1>3. ASSUME NEW devs \in SUBSET Busids, TakeLate(devs)
        PROVE  HostType'
    <2>1. late' = [late EXCEPT ![devs] = late[devs] - 1] /\ late[devs] - 1 \in Nat
      BY <1>3 DEF TakeLate
    <2>2. late' \in [SUBSET Busids -> Nat]
      BY <2>1
    <2>3. UNCHANGED <<agent, ports, misses, purging>>
      BY <1>3 DEF TakeLate
    <2> QED
      BY <1>3, <2>2, <2>3 DEF TakeLate, Begin
  <1>4. ASSUME Take
        PROVE  HostType'
    <2>1. Payload \in SUBSET Busids
      BY PayloadType
    <2> QED
      BY <1>4, <2>1 DEF Take, Begin
  <1>5. ASSUME NEW b \in Busids, Attach(b) \/ Unplug(b) \/ Notice(b)
        PROVE  HostType'
    BY <1>5, ClosesType DEF Attach, Unplug, Notice
  <1>6. ASSUME Settle
        PROVE  HostType'
    <2>1. ports' \in [Busids -> {"free", "live", "stale"}]
      BY <1>6, DetachType DEF Settle
    <2>2. misses' = 0 /\ 0 \in 0..GiveUp /\ 0 < GiveUp
      BY <1>6, BoundType DEF Settle
    <2> QED
      BY <1>6, <2>1, <2>2 DEF Settle, NoJob
  <1>7. ASSUME Probe \/ Purge
        PROVE  HostType'
    <2>1. GiveUp \in Nat \ {0}
      BY BoundType
    <2>2. CASE Probe
      <3>1. \/ misses' = 0 /\ purging' = purging
            \/ misses' = misses + 1 /\ purging' = (misses' = GiveUp)
        BY <2>2 DEF Probe
      <3>2. ~purging /\ misses < GiveUp
        BY <2>2 DEF Probe
      <3>3. CASE misses' = 0 /\ purging' = purging
        BY <2>1, <2>2, <3>2, <3>3 DEF Probe
      <3>4. CASE misses' = misses + 1 /\ purging' = (misses' = GiveUp)
        <4>1. misses' \in 0..GiveUp /\ (misses' = GiveUp \/ misses' < GiveUp)
          BY <2>1, <3>2, <3>4
        <4>2. purging' \in BOOLEAN /\ (purging' \/ misses' < GiveUp)
          BY <3>4, <4>1, Zenon
        <4> QED
          BY <2>2, <4>1, <4>2 DEF Probe
      <3> QED
        BY <3>1, <3>3, <3>4
    <2>3. CASE Purge
      <3>1. misses' = 0 /\ purging' = FALSE /\ 0 \in 0..GiveUp /\ 0 < GiveUp
        BY <2>1, <2>3 DEF Purge
      <3>2. ports' \in [Busids -> {"free", "live", "stale"}]
        BY <2>3, DetachType DEF Purge
      <3> QED
        BY <2>3, <3>1, <3>2 DEF Purge
    <2> QED
      BY <1>7, <2>2, <2>3
  <1>8. ASSUME HostGoes \/ AgentRestarts
        PROVE  HostType'
    <2>1. 0 \in 0..GiveUp /\ 0 < GiveUp
      BY BoundType
    <2>2. agent' \in BOOLEAN /\ ports' \in [Busids -> {"free", "live", "stale"}]
      BY <1>8 DEF HostGoes, AgentRestarts
    <2>3. AgentLoses
      BY <1>8 DEF HostGoes, AgentRestarts
    <2>4. late' \in [SUBSET Busids -> Nat]
      BY <2>3 DEF AgentLoses
    <2> QED
      BY <2>1, <2>2, <2>3, <2>4 DEF AgentLoses, NoJob
  <1>9. ASSUME HostComes \/ \E broken \in SUBSET Live : LinkDown(broken)
        PROVE  HostType'
    BY <1>9 DEF HostComes, LinkDown
  <1>10. ASSUME UNCHANGED host
         PROVE  HostType'
    BY <1>10
  <1>11. ASSUME \/ Start \/ HeartbeatDue \/ Look \/ Survey \/ NoDaemon \/ Knock
                \/ KnockFails \/ BindDone \/ Send \/ Released \/ HandBack \/ Refuse
                \/ Toggle \/ Restart \/ LinkUp
                \/ \E b \in Busids : \/ Bind(b) \/ BindFails(b) \/ Plug(b)
                                     \/ ShareByHand(b) \/ Configure(b)
                \/ UNCHANGED vars
         PROVE  UNCHANGED host
    BY <1>11 DEF Start, HeartbeatDue, Look, Survey, NoDaemon, Knock, KnockFails, BindDone,
                 Send, Released, HandBack, Refuse, Toggle, Restart, LinkUp, Bind, BindFails,
                 Plug, ShareByHand, Configure, vars
  <1> QED
    BY <1>1, <1>2, <1>3, <1>4, <1>5, <1>6, <1>7, <1>8, <1>9, <1>10, <1>11
       DEF Next, Watch, Serve, Janitor, Environment

LEMMA WorldTyped ==
    ASSUME TypeInv, [Next]_vars
    PROVE  WorldType'
  <1> USE DEF TypeInv, world
  <1>1. \/ spent' = spent \/ \E what \in Budgets : Spend(what)
    BY DEF Next, Watch, Serve, Janitor, Environment, Start, HeartbeatDue, Look, Survey,
           NoDaemon, Knock, KnockFails, Bind, BindFails, Prune, Release, Unbind, BindDone,
           Send, NoAnswer, AnswerTooLate, Released, HandBack, Kill, Take, TakeLate, Attach,
           Settle, Refuse, Probe, Purge, Plug, Unplug, ShareByHand, Configure, Toggle,
           Restart, HostGoes, HostComes, AgentRestarts, LinkDown, LinkUp, Notice, vars,
           DetachAllBut, Misfortune, Harm, Hotplug, Setting, Outage, Budgets
  <1>2. spent' \in [Budgets -> Nat]
    BY <1>1, SpendType DEF WorldType
  <1>3. ASSUME NEW b \in Busids, Prune(b) \/ Release(b) \/ Unplug(b)
        PROVE  WorldType'
    <2>1. export' \in [Busids -> {"none", "auto", "hand"}]
      BY <1>3, ClosesType DEF Prune, Release, Unplug, Unbind, WorldType
    <2>2. UNCHANGED <<link, wanted, enabled>> /\ plugged' \subseteq plugged
      BY <1>3 DEF Prune, Release, Unplug, Unbind
    <2> QED
      BY <1>2, <2>1, <2>2 DEF WorldType
  <1>4. ASSUME NEW b \in Busids,
               Bind(b) \/ Plug(b) \/ ShareByHand(b) \/ Configure(b)
        PROVE  WorldType'
    BY <1>2, <1>4 DEF Bind, Plug, ShareByHand, Configure, WorldType
  <1>5. ASSUME Toggle \/ LinkUp \/ \E broken \in SUBSET Live : LinkDown(broken)
        PROVE  WorldType'
    BY <1>2, <1>5 DEF Toggle, LinkUp, LinkDown, WorldType
  <1>6. ASSUME UNCHANGED <<world, export>>
        PROVE  WorldType'
    BY <1>2, <1>6 DEF WorldType
  <1> QED
    BY <1>3, <1>4, <1>5, <1>6
       DEF Next, Watch, Serve, Janitor, Environment, Start, HeartbeatDue, Look, Survey,
           NoDaemon, Knock, KnockFails, BindFails, BindDone, Send, NoAnswer, AnswerTooLate,
           GiveUpWaiting, Released, HandBack, Kill, Take, TakeLate, Attach, Settle, Refuse,
           Probe, Purge, Restart, HostGoes, HostComes, AgentRestarts, AgentLoses, Notice, vars

LEMMA SpecTyped == Spec => []TypeInv
  <1>1. Init => TypeInv
    <2> SUFFICES ASSUME Init
                 PROVE  TypeInv
      OBVIOUS
    <2>1. WatcherType
      BY DEF Init, WatcherType, Working
    <2>2. HostType
      <3>1. 0 \in 0..GiveUp /\ 0 < GiveUp
        BY BoundType
      <3>2. late \in [SUBSET Busids -> Nat]
        BY DEF Init
      <3> QED
        BY <3>1, <3>2 DEF Init, HostType, NoJob
    <2>3. WorldType
      BY DEF Init, WorldType
    <2> QED
      BY <2>1, <2>2, <2>3 DEF TypeInv
  <1>2. TypeInv /\ [Next]_vars => TypeInv'
    BY WatcherTyped, HostTyped, WorldTyped DEF TypeInv
  <1> QED
    BY <1>1, <1>2, PTL DEF Spec

\* Every reachable state is well typed, for any number of ports and any
\* bounds; the janitor never counts beyond the probe that makes it give up.
THEOREM TypeCorrect == Spec => []TypeOK
  <1>1. TypeInv => TypeOK
    BY DEF TypeInv, WatcherType, HostType, WorldType, TypeOK
  <1> QED
    BY <1>1, SpecTyped, PTL

-----------------------------------------------------------------------------

\* A pass only gets beyond "knock" on a connection that was answered.
Answering ==
    /\ pc \in {"off", "exited"} => bound = {}
    /\ pc \in {"idle", "survey", "knock"} /\ ~reachable => bound = {}
    /\ pc \notin {"send", "await", "release"} => errand = "pass"
    /\ pc \in {"bind", "send", "await"} /\ errand = "pass" => reachable

\* The agent works for the watcher only while the watcher waits.
Waiting ==
    /\ request # "none" => pc = "await"
    /\ job.running /\ job.mine => pc = "await" /\ request = "taken"

\* job is a record with these fields.
JobType ==
    job = [running |-> job.running, want |-> job.want, todo |-> job.todo, mine |-> job.mine]

HoldInv == JobType /\ Answering /\ Waiting

-----------------------------------------------------------------------------

LEMMA WatchHolds ==
    ASSUME HoldInv, Watch
    PROVE  HoldInv'
  <1> USE DEF HoldInv, Answering, Waiting, JobType
  <1>1. ASSUME Start \/ Look
        PROVE  HoldInv'
    BY <1>1 DEF Start, Look, memory, client, host
  <1>10. ASSUME Survey
        PROVE  HoldInv'
    BY <1>10 DEF Survey, client, host
  <1>11. ASSUME Knock
        PROVE  HoldInv'
    BY <1>11 DEF Knock, host
  <1>2. ASSUME KnockFails
        PROVE  HoldInv'
    BY <1>2 DEF KnockFails, memory, host, Return
  <1>3. ASSUME BindDone
        PROVE  HoldInv'
    BY <1>3 DEF BindDone, memory, client, host
  <1>4. ASSUME Send
        PROVE  HoldInv'
    BY <1>4 DEF Send, Unreachable, host
  <1>5. ASSUME NoAnswer
        PROVE  HoldInv'
    BY <1>5 DEF NoAnswer, GiveUpWaiting, Abandon, Unreachable
  <1>6. ASSUME Released
        PROVE  HoldInv'
    BY <1>6 DEF Released, Forget, host
  <1>7. ASSUME HandBack
        PROVE  HoldInv'
    BY <1>7 DEF HandBack, memory, client, host
  <1>8. ASSUME NEW b \in Busids, Bind(b) \/ BindFails(b)
        PROVE  HoldInv'
    BY <1>8 DEF Bind, BindFails, memory, client, host
  <1>9. ASSUME NEW b \in Busids, Prune(b) \/ Release(b)
        PROVE  HoldInv'
    BY <1>9 DEF Prune, Release, Unbind, client
  <1> QED
    BY <1>1, <1>2, <1>3, <1>4, <1>5, <1>6, <1>7, <1>8, <1>9, <1>10, <1>11 DEF Watch

LEMMA ServeHolds ==
    ASSUME HoldInv, Serve
    PROVE  HoldInv'
  <1> USE DEF HoldInv, Answering, Waiting, JobType
  <1>2. ASSUME Take
        PROVE  HoldInv'
    BY <1>2 DEF Take, Begin, memory
  <1>3. ASSUME NEW devs \in SUBSET Busids, TakeLate(devs)
        PROVE  HoldInv'
    BY <1>3 DEF TakeLate, Begin, memory, client
  <1>4. ASSUME NEW b \in Busids, Attach(b)
        PROVE  HoldInv'
    BY <1>4 DEF Attach, memory, client
  <1>5. ASSUME Settle
        PROVE  HoldInv'
    BY <1>5 DEF Settle, Answered, NoJob
  <1>6. ASSUME Refuse
        PROVE  HoldInv'
    BY <1>6 DEF Refuse, memory, host
  <1> QED
    BY <1>2, <1>3, <1>4, <1>5, <1>6 DEF Serve

LEMMA AroundHolds ==
    ASSUME HoldInv, Environment \/ Janitor \/ HeartbeatDue \/ NoDaemon \/ AnswerTooLate
                    \/ (\E b \in Busids : Notice(b)) \/ UNCHANGED vars
    PROVE  HoldInv'
  <1> USE DEF HoldInv, Answering, Waiting, JobType
  <1>1. ASSUME Toggle \/ HostComes \/ LinkUp
        PROVE  HoldInv'
    BY <1>1 DEF Toggle, HostComes, LinkUp, Outside, memory, client, host
  <1>2. ASSUME Restart
        PROVE  HoldInv'
    BY <1>2 DEF Restart, memory, client, host
  <1>3. ASSUME HostGoes \/ AgentRestarts
        PROVE  HoldInv'
    BY <1>3 DEF HostGoes, AgentRestarts, AgentLoses, NoJob, Outside, memory
  <1>4. ASSUME Kill
        PROVE  HoldInv'
    BY <1>4 DEF Kill, Abandon, Forget
  <1>5. ASSUME NEW broken, LinkDown(broken)
        PROVE  HoldInv'
    BY <1>5 DEF LinkDown, Outside, memory, client
  <1>6. ASSUME NEW b, Plug(b) \/ ShareByHand(b) \/ Configure(b)
        PROVE  HoldInv'
    BY <1>6 DEF Plug, ShareByHand, Configure, Outside, memory, client, host
  <1>7. ASSUME NEW b, Unplug(b) \/ Notice(b)
        PROVE  HoldInv'
    BY <1>7 DEF Unplug, Notice, Outside, memory, client
  <1>8. ASSUME Janitor
        PROVE  HoldInv'
    BY <1>8 DEF Janitor, Probe, Purge, memory, client
  <1>9. ASSUME HeartbeatDue \/ NoDaemon
        PROVE  HoldInv'
    BY <1>9 DEF HeartbeatDue, NoDaemon, memory, client, host
  <1>10. ASSUME AnswerTooLate
        PROVE  HoldInv'
    BY <1>10 DEF AnswerTooLate, GiveUpWaiting, Abandon, Unreachable
  <1>11. ASSUME UNCHANGED vars
        PROVE  HoldInv'
    BY <1>11 DEF vars, memory, client, host
  <1> QED
    BY <1>1, <1>2, <1>3, <1>4, <1>5, <1>6, <1>7, <1>8, <1>9, <1>10, <1>11 DEF Environment

LEMMA SpecHolds == Spec => []HoldInv
  <1>1. Init => HoldInv
    BY DEF Init, HoldInv, JobType, Answering, Waiting, NoJob
  <1>2. HoldInv /\ [Next]_vars => HoldInv'
    BY WatchHolds, ServeHolds, AroundHolds DEF Next
  <1> QED
    BY <1>1, <1>2, PTL DEF Spec

\* Between two passes the watcher holds a device only after an answer of the
\* host PC that no failure has followed, for any number of devices and faults.
THEOREM NeverHostage == Spec => []NoHostage
  <1>1. HoldInv => NoHostage
    BY DEF HoldInv, Answering, NoHostage
  <1> QED
    BY SpecHolds, <1>1, PTL

-----------------------------------------------------------------------------

\* The types MemoryIsKernel rests on.
ExportType ==
    /\ export \in [Busids -> {"none", "auto", "hand"}]
    /\ spent \in [Budgets -> Nat]

MemoryInv == ExportType /\ MemoryIsKernel

\* The steps of the host PC, the network and the settings.
Elsewhere == UNCHANGED <<bound, plugged, export>>

LEMMA ElsewhereKeeps ==
    ASSUME MemoryInv, Elsewhere, spent' \in [Budgets -> Nat], spent'["harm"] >= spent["harm"]
    PROVE  MemoryInv'
  BY DEF MemoryInv, ExportType, MemoryIsKernel, Elsewhere, Exported, Budgets

LEMMA SpendGrows ==
    ASSUME spent \in [Budgets -> Nat], NEW what \in Budgets, Spend(what)
    PROVE  spent' \in [Budgets -> Nat] /\ spent'["harm"] >= spent["harm"]
  BY DEF Spend, Budgets

LEMMA UnbindKeeps ==
    ASSUME MemoryInv, NEW b \in Busids, Unbind(b)
    PROVE  MemoryInv'
  <1> USE DEF MemoryInv, ExportType, MemoryIsKernel, Exported, Budgets, world
  <1>1. CASE b \in Exported /\ Harm
    BY <1>1 DEF Unbind, Harm, Spend, Closes
  <1>2. CASE b \in Exported /\ Closes(b) /\ UNCHANGED spent
    BY <1>2 DEF Unbind, Closes
  <1>3. CASE b \notin Exported /\ UNCHANGED <<export, ports, spent>>
    BY <1>3 DEF Unbind
  <1> QED
    BY <1>1, <1>2, <1>3 DEF Unbind

LEMMA MemoryStep ==
    ASSUME MemoryInv, [Next]_vars
    PROVE  MemoryInv'
  <1> USE DEF MemoryInv
  <1>1. ASSUME Start \/ Look \/ Survey \/ Knock \/ BindDone \/ Send \/ NoAnswer \/ HandBack
        PROVE  MemoryInv'
    <2>1. Elsewhere /\ UNCHANGED spent
      BY <1>1 DEF Start, Look, Survey, Knock, BindDone, Send, NoAnswer, HandBack, GiveUpWaiting,
                  Abandon, Unreachable, Elsewhere, memory, world
    <2> QED
      BY <2>1, ElsewhereKeeps DEF ExportType, Budgets
  <1>2. ASSUME KnockFails \/ NoDaemon \/ AnswerTooLate \/ Settle \/ Refuse \/ Purge
        PROVE  MemoryInv'
    <2>1. Elsewhere /\ (Misfortune \/ UNCHANGED spent)
      BY <1>2 DEF KnockFails, NoDaemon, AnswerTooLate, Settle, Refuse, Purge, DetachAllBut,
                  Answered, GiveUpWaiting, Abandon, Unreachable, Elsewhere, memory, world
    <2> QED
      BY <2>1, ElsewhereKeeps, SpendGrows DEF ExportType, Misfortune, Budgets
  <1>3. ASSUME HeartbeatDue \/ Take \/ Probe \/ LinkUp \/ HostComes
               \/ (\E devs \in SUBSET Busids : TakeLate(devs)) \/ (\E b \in Busids : Notice(b))
               \/ UNCHANGED vars
        PROVE  MemoryInv'
    <2>1. Elsewhere /\ UNCHANGED spent
      BY <1>3 DEF HeartbeatDue, Take, Probe, LinkUp, HostComes, TakeLate, Notice,
                  Elsewhere, Outside, memory, world, vars
    <2> QED
      BY <2>1, ElsewhereKeeps DEF ExportType, Budgets
  <1>4. ASSUME Released
        PROVE  MemoryInv'
    <2>1. UNCHANGED <<plugged, export, spent>> /\ bound = {} /\ bound' = {}
      BY <1>4 DEF Released, Forget, world
    <2> QED
      BY <2>1 DEF ExportType, MemoryIsKernel, Exported
  <1>5. ASSUME NEW b \in Busids, Bind(b)
        PROVE  MemoryInv'
    BY <1>5 DEF Bind, ExportType, MemoryIsKernel, Exported, world
  <1>6. ASSUME NEW b \in Busids, BindFails(b) \/ Attach(b)
        PROVE  MemoryInv'
    <2>1. Elsewhere /\ (Misfortune \/ UNCHANGED spent)
      BY <1>6 DEF BindFails, Attach, Elsewhere, memory, world
    <2> QED
      BY <2>1, ElsewhereKeeps, SpendGrows DEF ExportType, Misfortune, Budgets
  <1>7. ASSUME NEW b \in Busids, Prune(b) \/ Release(b)
        PROVE  MemoryInv'
    BY <1>7, UnbindKeeps DEF Prune, Release
  <1>8. ASSUME Toggle \/ Restart \/ (\E b \in Busids : Configure(b))
        PROVE  MemoryInv'
    <2>1. Elsewhere /\ (Setting \/ UNCHANGED spent)
      BY <1>8 DEF Toggle, Restart, Configure, Elsewhere, Outside, memory, world
    <2> QED
      BY <2>1, ElsewhereKeeps, SpendGrows DEF ExportType, Setting, Budgets
  <1>9. ASSUME HostGoes \/ AgentRestarts \/ \E broken \in SUBSET Live : LinkDown(broken)
        PROVE  MemoryInv'
    <2>1. Elsewhere /\ Outage
      BY <1>9 DEF HostGoes, AgentRestarts, LinkDown, AgentLoses, Elsewhere, Outside, memory, world
    <2> QED
      BY <2>1, ElsewhereKeeps, SpendGrows DEF ExportType, Outage, Budgets
  <1>10. ASSUME Kill
        PROVE  MemoryInv'
    <2>1. spent' \in [Budgets -> Nat] /\ spent'["harm"] > 0
      BY <1>10 DEF Kill, Harm, Spend, ExportType, Budgets
    <2>2. UNCHANGED export
      BY <1>10 DEF Kill
    <2> QED
      BY <2>1, <2>2 DEF ExportType, MemoryIsKernel
  <1>11. ASSUME NEW b \in Busids, Plug(b) \/ Unplug(b) \/ ShareByHand(b)
        PROVE  MemoryInv'
    <2>1. spent' \in [Budgets -> Nat] /\ spent'["harm"] >= spent["harm"]
      BY <1>11, SpendGrows DEF Plug, Unplug, ShareByHand, Hotplug, ExportType, Budgets
    <2>2. CASE Plug(b)
      BY <2>1, <2>2 DEF Plug, Missed, ExportType, MemoryIsKernel, Exported, Outside, memory, Budgets
    <2>3. CASE Unplug(b)
      BY <2>1, <2>3 DEF Unplug, Closes, ExportType, MemoryIsKernel, Exported, Outside, memory, Budgets
    <2>4. CASE ShareByHand(b)
      BY <2>1, <2>4 DEF ShareByHand, ExportType, MemoryIsKernel, Exported, Outside, memory, world,
                        Budgets
    <2> QED
      BY <1>11, <2>2, <2>3, <2>4
  <1> QED
    BY <1>1, <1>2, <1>3, <1>4, <1>5, <1>6, <1>7, <1>8, <1>9, <1>10, <1>11
       DEF Next, Watch, Serve, Janitor, Environment

\* As long as the watcher is not killed, no unbind fails and no device comes
\* back unnoticed, it forgets nothing it exported, and what it takes for
\* bound is bound, for any number of devices and whatever else goes wrong.
THEOREM MemoryIsTrue == Spec => []MemoryIsKernel
  <1>1. Init => MemoryInv
    BY DEF Init, MemoryInv, ExportType, MemoryIsKernel, Exported, Budgets
  <1>2. MemoryInv => MemoryIsKernel
    BY DEF MemoryInv
  <1> QED
    BY <1>1, <1>2, MemoryStep, PTL DEF Spec

-----------------------------------------------------------------------------

(***************************************************************************)
(* The cheap gate.  From the survey of a pass until its answer, whatever   *)
(* the listing it goes by shows, is still there and is offered by the      *)
(* settings it read, is in its offer; what an answered or a quiet pass     *)
(* records keeps that.  A device that comes back unnoticed breaks it.      *)
(***************************************************************************)
PassCovers ==
    pc \in {"knock", "bind", "send", "await"} /\ errand = "pass" =>
        seen \cap plugged \cap policy \subseteq offer

RecordCovers ==
    lastOffer # None /\ lastSeen # None => lastSeen \cap plugged \cap dealt \subseteq lastOffer

GateInv == ~QuickReplug => PassCovers /\ RecordCovers

LEMMA GateWatch ==
    ASSUME GateInv, Watch \/ NoDaemon \/ AnswerTooLate \/ HeartbeatDue
    PROVE  GateInv'
  <1> USE DEF GateInv, PassCovers, RecordCovers, memory, gate, pass, client, world
  <1>1. ASSUME Start \/ Look \/ HeartbeatDue \/ HandBack
        PROVE  GateInv'
    BY <1>1 DEF Start, Look, HeartbeatDue, HandBack
  <1>2. ASSUME Survey
        PROVE  GateInv'
    BY <1>2 DEF Survey, Return
  <1>3. ASSUME Knock \/ BindDone
        PROVE  GateInv'
    BY <1>3 DEF Knock, BindDone
  <1>4. ASSUME KnockFails \/ NoDaemon
        PROVE  GateInv'
    BY <1>4 DEF KnockFails, NoDaemon, Return
  <1>5. ASSUME Send
        PROVE  GateInv'
    BY <1>5 DEF Send, Unreachable, Return
  <1>6. ASSUME NoAnswer \/ AnswerTooLate
        PROVE  GateInv'
    BY <1>6 DEF NoAnswer, AnswerTooLate, GiveUpWaiting, Unreachable, Return
  <1>7. ASSUME Released
        PROVE  GateInv'
    BY <1>7 DEF Released, Forget, Return
  <1>8. ASSUME NEW b \in Busids, Bind(b) \/ BindFails(b)
        PROVE  GateInv'
    BY <1>8 DEF Bind, BindFails
  <1>9. ASSUME NEW b \in Busids, Prune(b) \/ Release(b)
        PROVE  GateInv'
    BY <1>9 DEF Prune, Release, Unbind
  <1> QED
    BY <1>1, <1>2, <1>3, <1>4, <1>5, <1>6, <1>7, <1>8, <1>9 DEF Watch

LEMMA GateServe ==
    ASSUME HoldInv, GateInv, Serve \/ Janitor
    PROVE  GateInv'
  <1> USE DEF GateInv, PassCovers, RecordCovers, memory, gate, pass, client, world
  <1>1. ASSUME Settle
        PROVE  GateInv'
    <2>1. UNCHANGED <<plugged, errand>>
      BY <1>1 DEF Settle
    <2>2. CASE job.mine /\ link
      <3>1. pc = "await" /\ Answered
        BY <1>1, <2>2 DEF Settle, HoldInv, Waiting
      <3> QED
        BY <2>1, <3>1 DEF Answered
    <2>3. CASE ~(job.mine /\ link)
      BY <1>1, <2>1, <2>3 DEF Settle
    <2> QED
      BY <2>2, <2>3
  <1>2. ASSUME Refuse
        PROVE  GateInv'
    BY <1>2 DEF Refuse, Return
  <1>3. ASSUME \/ Take \/ Janitor
               \/ \E devs \in SUBSET Busids : TakeLate(devs)
               \/ \E b \in Busids : Attach(b)
        PROVE  GateInv'
    BY <1>3 DEF Take, Janitor, Probe, Purge, TakeLate, Attach
  <1> QED
    BY <1>1, <1>2, <1>3 DEF Serve

LEMMA GateAround ==
    ASSUME GateInv,
           Environment \/ (\E b \in Busids : Notice(b)) \/ UNCHANGED vars
    PROVE  GateInv'
  <1> USE DEF GateInv, PassCovers, RecordCovers, Outside, memory, gate, pass, client, world
  <1>1. ASSUME NEW b \in Busids, Plug(b)
        PROVE  GateInv'
    <2>1. plugged' = plugged \cup {b} /\ (QuickReplug \/ Missed(b))
      BY <1>1 DEF Plug
    <2>2. UNCHANGED <<pc, errand, memory, pass>>
      BY <1>1 DEF Plug
    <2> QED
      BY <2>1, <2>2 DEF Missed
  <1>2. ASSUME NEW b \in Busids, Unplug(b)
        PROVE  GateInv'
    BY <1>2 DEF Unplug
  <1>3. ASSUME Kill
        PROVE  GateInv'
    BY <1>3 DEF Kill, Forget, Return
  <1>4. ASSUME Restart
        PROVE  GateInv'
    BY <1>4 DEF Restart
  <1>5. ASSUME UNCHANGED <<pc, errand, memory, pass, plugged>>
        PROVE  GateInv'
    BY <1>5
  <1> QED
    BY <1>1, <1>2, <1>3, <1>4, <1>5
       DEF Environment, Toggle, HostGoes, HostComes, AgentRestarts, AgentLoses, LinkUp,
           LinkDown, ShareByHand, Configure, Notice, vars

\* If no device comes back before it was missed, the cheap gate hides none
\* that the settings of the last good pass offer, whatever passes fail, for
\* any number of ports.
THEOREM GateHidesNothing == Spec => []NothingOverlooked
  <1>1. Init => GateInv
    BY DEF Init, GateInv, PassCovers, RecordCovers
  <1>2. HoldInv /\ GateInv /\ [Next]_vars => GateInv'
    BY GateWatch, GateServe, GateAround DEF Next
  <1>3. TypeInv /\ GateInv => NothingOverlooked
    <2> SUFFICES ASSUME TypeInv, GateInv, ~QuickReplug,
                        lastSeen = plugged, dealt = wanted, lastOffer # None
                 PROVE  plugged \cap wanted \subseteq lastOffer
      BY DEF NothingOverlooked
    <2>1. lastSeen # None
      BY NoneIsNoOffer DEF TypeInv, WorldType
    <2> QED
      BY <2>1 DEF GateInv, RecordCovers
  <1> QED
    BY <1>1, <1>2, <1>3, SpecHolds, SpecTyped, PTL DEF Spec

=============================================================================
