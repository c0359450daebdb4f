--------------------------- MODULE SlotUpdateProofs ---------------------------
(***************************************************************************)
(* The slot GRUB falls back to stays bootable and proven, for any releases *)
(* and any number of power cuts, as long as nobody boots the other slot by *)
(* hand, staging outlasts the confirmation, and either one updater runs at *)
(* a time or grub-reboot does not fail.  A status file that says           *)
(* "installed" is right whenever updaters do not overlap.                  *)
(***************************************************************************)
EXTENDS SlotUpdate, TLAPS

\* The conditions under which the fallback is safe; the README says what
\* goes wrong without each of them.
Usual ==
    /\ ~ManualPick
    /\ SlowInstall
    /\ GrubMayFail => \A u, w \in Updaters : u = w

\* A confirmation that got going belongs to a machine that is up.
ConfirmUp == confirm \in {"default", "status", "clear"} => Up

DefaultSound ==
    Bootable(default) /\ root[default] \in proven /\ default \notin unsynced

RunningSound ==
    /\ Up => Bootable(running) /\ running \notin unsynced
    /\ running = "off" => unsynced = {}

\* A slot that runs on trial is the one on record.
TrialOnRecord ==
    Up /\ running # default =>
        pending # NoRecord /\ (pending \in Records => pending.slot = running)

\* So is a slot that GRUB is going to try.
NextOnRecord ==
    next # "none" =>
        /\ next # default
        /\ pending # NoRecord /\ (pending \in Records => pending.slot = next)

\* Updates only start from the default slot.
UpdateFromDefault == \A u \in Updaters : pc[u] # "idle" => Up /\ running = default

\* Nothing is scheduled before the confirmation of this boot is over.
ConfirmFirst ==
    /\ Up /\ confirm # "done" => next = "none"
    /\ \A u \in Updaters : pc[u] \in {"schedule", "finish"} => confirm = "done"

\* The record does not change under the confirmation.
ConfirmSound ==
    /\ confirm = "default" =>
        Up /\ root[running] \in proven /\ pending \in Records /\ pending.slot = running
    /\ confirm \in {"status", "clear"} => Up /\ running = default

\* One updater at a time works on the inactive slot; what it has recorded is
\* still there when it schedules.
OneWorks ==
    /\ \A u, w \in Updaters : pc[u] \in Working /\ pc[w] \in Working => u = w
    /\ \A u \in Updaters : pc[u] = "schedule" =>
        pending \in Records /\ pending.slot = Other(running)

\* If grub-reboot can fail, nothing has been scheduled before it runs.
FailsClean ==
    GrubMayFail => \A u \in Updaters : pc[u] \notin {"idle", "finish"} => next = "none"

Inv ==
    /\ TypeOK /\ ConfirmUp
    /\ DefaultSound /\ RunningSound
    /\ TrialOnRecord /\ NextOnRecord
    /\ UpdateFromDefault /\ ConfirmFirst /\ ConfirmSound
    /\ OneWorks /\ FailsClean

\* ---- type correctness

LEMMA Others ==
    \A s \in Slots : Other(s) \in Slots /\ Other(s) # s /\ Slots = {s, Other(s)}
  BY DEF Slots, Other

LEMMA RunningType ==
    ASSUME TypeOK, NEW u \in Updaters
    PROVE  Other(running) \in Slots
  BY DEF TypeOK, Slots, Other

LEMMA UpdateKeepsType ==
    ASSUME TypeOK, NEW u \in Updaters, Update(u)
    PROVE  TypeOK'
  <1> USE DEF TypeOK, Step, Working
  <1>1. Other(running) \in Slots
    BY RunningType
  <1>2. ASSUME NEW v \in Versions, Choose(u, v)
        PROVE  TypeOK'
    BY <1>2 DEF Choose, disk, grubenv, machine
  <1>3. CASE Begin(u) \/ Schedule(u) \/ Die(u)
    BY <1>1, <1>3 DEF Begin, Schedule, Die, disk, grubenv, machine
  <1>4. CASE Format(u)
    <2>1. menu' \in [Slots -> {"none", "stale", "current"}]
      BY <1>4 DEF Format
    <2>2. status' \in [Slots -> [result : {"none", "staged", "installed", "rolled-back"},
                                 version : Versions \cup {0}]]
      BY <1>4 DEF Format, NoReport
    <2> QED
      BY <1>1, <1>4, <2>1, <2>2 DEF Format, grubenv, machine
  <1>5. CASE Copy(u)
    BY <1>1, <1>5 DEF Copy, grubenv, machine
  <1>6. CASE PutKernel(u)
    BY <1>1, <1>6 DEF PutKernel, grubenv, machine
  <1>7. CASE PutInitrd(u)
    BY <1>1, <1>7 DEF PutInitrd, grubenv, machine
  <1>8. CASE UpdateGrub(u)
    BY <1>8 DEF UpdateGrub, grubenv, machine
  <1>9. CASE WriteRecord(u)
    <2>1. pending' \in Records
      BY <1>1, <1>9 DEF WriteRecord, Records, Record
    <2> QED
      BY <1>9, <2>1 DEF WriteRecord, disk, grubenv, machine
  <1>10. CASE ScheduleFails(u)
    BY <1>10 DEF ScheduleFails, disk, grubenv, machine
  <1>11. CASE Finish(u)
    <2>1. status' \in [Slots -> [result : {"none", "staged", "installed", "rolled-back"},
                                 version : Versions \cup {0}]]
      BY <1>11 DEF Finish, Report
    <2> QED
      BY <1>11, <2>1 DEF Finish, grubenv, machine
  <1> QED
    BY <1>2, <1>3, <1>4, <1>5, <1>6, <1>7, <1>8, <1>9, <1>10, <1>11 DEF Update

LEMMA ConfirmKeepsType ==
    ASSUME TypeOK, ConfirmUp, Confirm
    PROVE  TypeOK'
  <1> USE DEF TypeOK
  <1>1. CASE Elapse
    <2>1. root[running] \in Versions
      BY <1>1, HealthyType DEF Elapse
    <2> QED
      BY <1>1, <2>1 DEF Elapse, disk, grubenv, updater
  <1>2. CASE ConfirmRefused
    <2>1. root[running] \in Versions
      BY <1>2, HealthyType DEF ConfirmRefused
    <2> QED
      BY <1>2, <2>1 DEF ConfirmRefused, disk, grubenv, updater
  <1>3. CASE ConfirmDefault
    BY <1>3 DEF ConfirmDefault, ConfirmUp, Up, disk, grubenv, updater
  <1>4. CASE ConfirmStatus
    <2>1. pending.version \in Versions \cup {0}
      BY DEF Records, NoRecord, TornRecord
    <2>2. status' \in [Slots -> [result : {"none", "staged", "installed", "rolled-back"},
                                 version : Versions \cup {0}]]
      BY <1>4, <2>1 DEF ConfirmStatus, Report
    <2> QED
      BY <1>4, <2>2 DEF ConfirmStatus, grubenv, updater
  <1>5. CASE ConfirmClear
    BY <1>5 DEF ConfirmClear, disk, grubenv, updater
  <1> QED
    BY <1>1, <1>2, <1>3, <1>4, <1>5 DEF Confirm

LEMMA PowerKeepsType ==
    ASSUME TypeOK, Power
    PROVE  TypeOK'
  <1> USE DEF TypeOK
  <1>1. CASE Freeze
    BY <1>1 DEF Freeze, EndProcesses, disk, grubenv
  <1>2. CASE ShutDown
    BY <1>2 DEF ShutDown, Halt, EndProcesses, grubenv
  <1>3. ASSUME NEW s \in Slots, Boot(s)
        PROVE  TypeOK'
    BY <1>3 DEF Boot, disk, updater
  <1>4. ASSUME NEW lost, PowerCut(lost) \/ PowerCycle(lost)
        PROVE  TypeOK'
    <2>1. cuts' \in Nat
      BY <1>4 DEF PowerCut, PowerCycle
    <2>2. root' \in [Slots -> Versions \cup {0}] /\ pending' \in Records \cup {NoRecord, TornRecord}
      BY <1>4 DEF PowerCut, PowerCycle, Cut, Lose
    <2> QED
      BY <1>4, <2>1, <2>2 DEF PowerCut, PowerCycle, Cut, Halt, EndProcesses, grubenv
  <1> QED
    BY <1>1, <1>2, <1>3, <1>4 DEF Power

LEMMA StepKeepsConfirmUp ==
    ASSUME TypeOK, ConfirmUp, [Next]_vars
    PROVE  ConfirmUp'
  <1> USE DEF ConfirmUp, Up
  <1>1. CASE UNCHANGED vars
    BY <1>1 DEF vars, machine
  <1>2. ASSUME NEW u \in Updaters, Update(u)
        PROVE  ConfirmUp'
    BY <1>2 DEF Update, Choose, Begin, Format, Copy, PutKernel, PutInitrd, UpdateGrub,
                WriteRecord, Schedule, ScheduleFails, Finish, Die, machine
  <1>3. CASE Confirm
    BY <1>3 DEF Confirm, Elapse, ConfirmRefused, ConfirmDefault, ConfirmStatus, ConfirmClear
  <1>4. CASE Freeze \/ ShutDown \/ \E lost \in SUBSET unsynced : PowerCut(lost) \/ PowerCycle(lost)
    BY <1>4 DEF Freeze, ShutDown, PowerCut, PowerCycle, Cut, Halt, EndProcesses
  <1>5. ASSUME NEW s \in Slots, Boot(s)
        PROVE  ConfirmUp'
    BY <1>5 DEF Boot, Slots
  <1> QED
    BY <1>1, <1>2, <1>3, <1>4, <1>5 DEF Next, Power

LEMMA StepKeepsType ==
    ASSUME TypeOK, ConfirmUp, [Next]_vars
    PROVE  TypeOK'
  <1>1. CASE UNCHANGED vars
    BY <1>1 DEF TypeOK, vars, disk, grubenv, updater, machine
  <1> QED
    BY <1>1, UpdateKeepsType, ConfirmKeepsType, PowerKeepsType DEF Next

LEMMA InitType == Init => TypeOK /\ ConfirmUp
  <1> SUFFICES ASSUME Init
               PROVE  TypeOK /\ ConfirmUp
    OBVIOUS
  <1>1. 1 \in Versions
    BY LatestType DEF Versions
  <1> QED
    BY <1>1, CutsType DEF Init, TypeOK, ConfirmUp, Slots, NoReport

\* Every variable always has its type.
THEOREM TypeCorrect == Spec => []TypeOK
  <1>1. TypeOK /\ ConfirmUp /\ [Next]_vars => TypeOK' /\ ConfirmUp'
    BY StepKeepsType, StepKeepsConfirmUp
  <1> QED
    BY <1>1, InitType, PTL DEF Spec


\* ---- the invariant is preserved

LEMMA UpdateKeeps ==
    ASSUME Usual, Inv, NEW u \in Updaters, Update(u)
    PROVE  Inv'
  <1>1. TypeOK /\ ConfirmUp
    BY DEF Inv
  <1>9. TypeOK' /\ ConfirmUp'
    BY <1>1, StepKeepsType, StepKeepsConfirmUp DEF Next
  <1>2. pc[u] # "idle" => /\ Up /\ running = default
                          /\ Other(running) \in Slots /\ Other(running) # default
                          /\ Slots = {default, Other(running)}
    BY Others DEF Inv, UpdateFromDefault, Up
  <1>10. ASSUME NEW v \in Versions, Choose(u, v)
         PROVE  Inv'
    <2> USE DEF Choose, disk, grubenv, machine, Inv, TypeOK
    <2>1. DefaultSound'
      BY <1>10 DEF DefaultSound, Bootable
    <2>2. RunningSound'
      BY <1>10 DEF RunningSound, Bootable, Up
    <2>3. TrialOnRecord'
      BY <1>10 DEF TrialOnRecord, Up
    <2>4. NextOnRecord'
      BY <1>10 DEF NextOnRecord
    <2>5. UpdateFromDefault'
      BY <1>10 DEF UpdateFromDefault, Up, TrialOnRecord
    <2>6. ConfirmFirst'
      BY <1>10 DEF ConfirmFirst, Up
    <2>7. ConfirmSound'
      BY <1>10 DEF ConfirmSound, Up
    <2>8. OneWorks'
      BY <1>10 DEF OneWorks, Working
    <2>9. FailsClean'
      BY <1>10 DEF FailsClean, NextOnRecord
    <2> QED
      BY <1>9, <2>1, <2>2, <2>3, <2>4, <2>5, <2>6, <2>7, <2>8, <2>9 DEF Inv
  <1>11. CASE Begin(u)
    <2> USE DEF Begin, disk, grubenv, machine, Inv, TypeOK
    <2>1. DefaultSound'
      BY <1>11, <1>2 DEF DefaultSound, Bootable
    <2>2. RunningSound'
      BY <1>11, <1>2 DEF RunningSound, Bootable, Up
    <2>3. TrialOnRecord'
      BY <1>11, <1>2 DEF TrialOnRecord, Up
    <2>4. NextOnRecord'
      BY <1>11, <1>2 DEF NextOnRecord
    <2>5. UpdateFromDefault'
      BY <1>11, <1>2 DEF UpdateFromDefault, Up
    <2>6. ConfirmFirst'
      BY <1>11, <1>2 DEF ConfirmFirst, Up
    <2>7. ConfirmSound'
      BY <1>11, <1>2 DEF ConfirmSound, Up
    <2>8. OneWorks'
      BY <1>11, <1>2 DEF OneWorks, Working, InactiveUnmounted
    <2>9. FailsClean'
      BY <1>11, <1>2 DEF FailsClean
    <2> QED
      BY <1>9, <2>1, <2>2, <2>3, <2>4, <2>5, <2>6, <2>7, <2>8, <2>9 DEF Inv
  <1>12. CASE Format(u)
    <2> USE DEF Format, Step, grubenv, machine, Inv, TypeOK
    <2>1. DefaultSound'
      BY <1>12, <1>2 DEF DefaultSound, Bootable
    <2>2. RunningSound'
      BY <1>12, <1>2 DEF RunningSound, Bootable, Up, Slots
    <2>3. TrialOnRecord'
      BY <1>12, <1>2 DEF TrialOnRecord, Up
    <2>4. NextOnRecord'
      BY <1>12, <1>2 DEF NextOnRecord
    <2>5. UpdateFromDefault'
      BY <1>12, <1>2 DEF UpdateFromDefault, Up
    <2>6. ConfirmFirst'
      BY <1>12, <1>2 DEF ConfirmFirst, Up
    <2>7. ConfirmSound'
      BY <1>12, <1>2 DEF ConfirmSound, Up
    <2>8. OneWorks'
      BY <1>12, <1>2 DEF OneWorks, Working
    <2>9. FailsClean'
      BY <1>12, <1>2 DEF FailsClean
    <2> QED
      BY <1>9, <2>1, <2>2, <2>3, <2>4, <2>5, <2>6, <2>7, <2>8, <2>9 DEF Inv
  <1>13. CASE Copy(u)
    <2> USE DEF Copy, Step, grubenv, machine, Inv, TypeOK
    <2>1. DefaultSound'
      BY <1>13, <1>2 DEF DefaultSound, Bootable
    <2>2. RunningSound'
      BY <1>13, <1>2 DEF RunningSound, Bootable, Up
    <2>3. TrialOnRecord'
      BY <1>13, <1>2 DEF TrialOnRecord, Up
    <2>4. NextOnRecord'
      BY <1>13, <1>2 DEF NextOnRecord
    <2>5. UpdateFromDefault'
      BY <1>13, <1>2 DEF UpdateFromDefault, Up
    <2>6. ConfirmFirst'
      BY <1>13, <1>2 DEF ConfirmFirst, Up
    <2>7. ConfirmSound'
      BY <1>13, <1>2 DEF ConfirmSound, Up
    <2>8. OneWorks'
      BY <1>13, <1>2 DEF OneWorks, Working
    <2>9. FailsClean'
      BY <1>13, <1>2 DEF FailsClean
    <2> QED
      BY <1>9, <2>1, <2>2, <2>3, <2>4, <2>5, <2>6, <2>7, <2>8, <2>9 DEF Inv
  <1>14. CASE PutKernel(u)
    <2> USE DEF PutKernel, Step, grubenv, machine, Inv, TypeOK
    <2>1. DefaultSound'
      BY <1>14, <1>2 DEF DefaultSound, Bootable
    <2>2. RunningSound'
      BY <1>14, <1>2 DEF RunningSound, Bootable, Up
    <2>3. TrialOnRecord'
      BY <1>14, <1>2 DEF TrialOnRecord, Up
    <2>4. NextOnRecord'
      BY <1>14, <1>2 DEF NextOnRecord
    <2>5. UpdateFromDefault'
      BY <1>14, <1>2 DEF UpdateFromDefault, Up
    <2>6. ConfirmFirst'
      BY <1>14, <1>2 DEF ConfirmFirst, Up
    <2>7. ConfirmSound'
      BY <1>14, <1>2 DEF ConfirmSound, Up
    <2>8. OneWorks'
      BY <1>14, <1>2 DEF OneWorks, Working
    <2>9. FailsClean'
      BY <1>14, <1>2 DEF FailsClean
    <2> QED
      BY <1>9, <2>1, <2>2, <2>3, <2>4, <2>5, <2>6, <2>7, <2>8, <2>9 DEF Inv
  <1>15. CASE PutInitrd(u)
    <2> USE DEF PutInitrd, Step, grubenv, machine, Inv, TypeOK
    <2>1. DefaultSound'
      BY <1>15, <1>2 DEF DefaultSound, Bootable
    <2>2. RunningSound'
      BY <1>15, <1>2 DEF RunningSound, Bootable, Up
    <2>3. TrialOnRecord'
      BY <1>15, <1>2 DEF TrialOnRecord, Up
    <2>4. NextOnRecord'
      BY <1>15, <1>2 DEF NextOnRecord
    <2>5. UpdateFromDefault'
      BY <1>15, <1>2 DEF UpdateFromDefault, Up
    <2>6. ConfirmFirst'
      BY <1>15, <1>2 DEF ConfirmFirst, Up
    <2>7. ConfirmSound'
      BY <1>15, <1>2 DEF ConfirmSound, Up
    <2>8. OneWorks'
      BY <1>15, <1>2 DEF OneWorks, Working
    <2>9. FailsClean'
      BY <1>15, <1>2 DEF FailsClean
    <2> QED
      BY <1>9, <2>1, <2>2, <2>3, <2>4, <2>5, <2>6, <2>7, <2>8, <2>9 DEF Inv
  <1>16. CASE UpdateGrub(u)
    <2> USE DEF UpdateGrub, Step, grubenv, machine, Inv, TypeOK
    <2>1. DefaultSound'
      BY <1>16, <1>2 DEF DefaultSound, Bootable
    <2>2. RunningSound'
      BY <1>16, <1>2 DEF RunningSound, Bootable, Up
    <2>3. TrialOnRecord'
      BY <1>16, <1>2 DEF TrialOnRecord, Up
    <2>4. NextOnRecord'
      BY <1>16, <1>2 DEF NextOnRecord
    <2>5. UpdateFromDefault'
      BY <1>16, <1>2 DEF UpdateFromDefault, Up
    <2>6. ConfirmFirst'
      BY <1>16, <1>2 DEF ConfirmFirst, Up
    <2>7. ConfirmSound'
      BY <1>16, <1>2 DEF ConfirmSound, Up
    <2>8. OneWorks'
      BY <1>16, <1>2 DEF OneWorks, Working
    <2>9. FailsClean'
      BY <1>16, <1>2 DEF FailsClean
    <2> QED
      BY <1>9, <2>1, <2>2, <2>3, <2>4, <2>5, <2>6, <2>7, <2>8, <2>9 DEF Inv
  <1>17. CASE WriteRecord(u)
    <2> USE DEF WriteRecord, Step, disk, grubenv, machine, Inv, TypeOK
    <2>1. DefaultSound'
      BY <1>17, <1>2 DEF DefaultSound, Bootable, Slots
    <2>2. RunningSound'
      BY <1>17, <1>2 DEF RunningSound, Bootable, Up, Slots
    <2>3. TrialOnRecord'
      BY <1>17, <1>2 DEF TrialOnRecord, Up
    <2>4. NextOnRecord'
      BY <1>17, <1>2 DEF NextOnRecord, Record, NoRecord, Records
    <2>5. UpdateFromDefault'
      BY <1>17, <1>2 DEF UpdateFromDefault, Up
    <2>6. ConfirmFirst'
      BY <1>17, <1>2 DEF ConfirmFirst, Up, Usual
    <2>7. ConfirmSound'
      BY <1>17, <1>2 DEF ConfirmSound, Up, Usual
    <2>8. OneWorks'
      BY <1>17, <1>2 DEF OneWorks, Working, Records, Record
    <2>9. FailsClean'
      BY <1>17, <1>2 DEF FailsClean
    <2> QED
      BY <1>9, <2>1, <2>2, <2>3, <2>4, <2>5, <2>6, <2>7, <2>8, <2>9 DEF Inv
  <1>18. CASE Schedule(u)
    <2> USE DEF Schedule, Step, disk, machine, Inv, TypeOK
    <2>1. DefaultSound'
      BY <1>18, <1>2 DEF DefaultSound, Bootable
    <2>2. RunningSound'
      BY <1>18, <1>2 DEF RunningSound, Bootable, Up
    <2>3. TrialOnRecord'
      BY <1>18, <1>2 DEF TrialOnRecord, Up
    <2>4. NextOnRecord'
      BY <1>18, <1>2 DEF NextOnRecord, OneWorks, Records, NoRecord
    <2>5. UpdateFromDefault'
      BY <1>18, <1>2 DEF UpdateFromDefault, Up
    <2>6. ConfirmFirst'
      BY <1>18, <1>2 DEF ConfirmFirst, Up
    <2>7. ConfirmSound'
      BY <1>18, <1>2 DEF ConfirmSound, Up
    <2>8. OneWorks'
      BY <1>18, <1>2 DEF OneWorks, Working
    <2>9. FailsClean'
      BY <1>18, <1>2 DEF FailsClean, Usual
    <2> QED
      BY <1>9, <2>1, <2>2, <2>3, <2>4, <2>5, <2>6, <2>7, <2>8, <2>9 DEF Inv
  <1>19. CASE ScheduleFails(u)
    <2> USE DEF ScheduleFails, Step, disk, grubenv, machine, Inv, TypeOK
    <2>1. DefaultSound'
      BY <1>19, <1>2 DEF DefaultSound, Bootable
    <2>2. RunningSound'
      BY <1>19, <1>2 DEF RunningSound, Bootable, Up
    <2>3. TrialOnRecord'
      BY <1>19, <1>2 DEF TrialOnRecord, Up
    <2>4. NextOnRecord'
      BY <1>19, <1>2 DEF NextOnRecord, FailsClean
    <2>5. UpdateFromDefault'
      BY <1>19, <1>2 DEF UpdateFromDefault, Up
    <2>6. ConfirmFirst'
      BY <1>19, <1>2 DEF ConfirmFirst, Up
    <2>7. ConfirmSound'
      BY <1>19, <1>2 DEF ConfirmSound, Up, ConfirmFirst
    <2>8. OneWorks'
      BY <1>19, <1>2 DEF OneWorks, Working
    <2>9. FailsClean'
      BY <1>19, <1>2 DEF FailsClean
    <2> QED
      BY <1>9, <2>1, <2>2, <2>3, <2>4, <2>5, <2>6, <2>7, <2>8, <2>9 DEF Inv
  <1>20. CASE Finish(u)
    <2> USE DEF Finish, Step, grubenv, machine, Inv, TypeOK
    <2>1. DefaultSound'
      BY <1>20, <1>2 DEF DefaultSound, Bootable
    <2>2. RunningSound'
      BY <1>20, <1>2 DEF RunningSound, Bootable, Up
    <2>3. TrialOnRecord'
      BY <1>20, <1>2 DEF TrialOnRecord, Up
    <2>4. NextOnRecord'
      BY <1>20, <1>2 DEF NextOnRecord
    <2>5. UpdateFromDefault'
      BY <1>20, <1>2 DEF UpdateFromDefault, Up
    <2>6. ConfirmFirst'
      BY <1>20, <1>2 DEF ConfirmFirst, Up
    <2>7. ConfirmSound'
      BY <1>20, <1>2 DEF ConfirmSound, Up
    <2>8. OneWorks'
      BY <1>20, <1>2 DEF OneWorks, Working
    <2>9. FailsClean'
      BY <1>20, <1>2 DEF FailsClean
    <2> QED
      BY <1>9, <2>1, <2>2, <2>3, <2>4, <2>5, <2>6, <2>7, <2>8, <2>9 DEF Inv
  <1>21. CASE Die(u)
    <2> USE DEF Die, disk, grubenv, machine, Inv, TypeOK
    <2>1. DefaultSound'
      BY <1>21, <1>2 DEF DefaultSound, Bootable
    <2>2. RunningSound'
      BY <1>21, <1>2 DEF RunningSound, Bootable, Up
    <2>3. TrialOnRecord'
      BY <1>21, <1>2 DEF TrialOnRecord, Up
    <2>4. NextOnRecord'
      BY <1>21, <1>2 DEF NextOnRecord
    <2>5. UpdateFromDefault'
      BY <1>21, <1>2 DEF UpdateFromDefault, Up
    <2>6. ConfirmFirst'
      BY <1>21, <1>2 DEF ConfirmFirst, Up
    <2>7. ConfirmSound'
      BY <1>21, <1>2 DEF ConfirmSound, Up
    <2>8. OneWorks'
      BY <1>21, <1>2 DEF OneWorks, Working
    <2>9. FailsClean'
      BY <1>21, <1>2 DEF FailsClean
    <2> QED
      BY <1>9, <2>1, <2>2, <2>3, <2>4, <2>5, <2>6, <2>7, <2>8, <2>9 DEF Inv
  <1> QED
    BY <1>10, <1>11, <1>12, <1>13, <1>14, <1>15, <1>16, <1>17, <1>18, <1>19, <1>20, <1>21 DEF Update

LEMMA ConfirmKeeps ==
    ASSUME Usual, Inv, Confirm
    PROVE  Inv'
  <1>1. TypeOK /\ ConfirmUp
    BY DEF Inv
  <1>9. TypeOK' /\ ConfirmUp'
    BY <1>1, StepKeepsType, StepKeepsConfirmUp DEF Next
  <1>10. CASE Elapse
    <2> USE DEF Elapse, disk, grubenv, updater, Inv, TypeOK
    <2>1. DefaultSound'
      BY <1>10 DEF DefaultSound, Bootable
    <2>2. RunningSound'
      BY <1>10 DEF RunningSound, Bootable, Up
    <2>3. TrialOnRecord'
      BY <1>10 DEF TrialOnRecord, Up
    <2>4. NextOnRecord'
      BY <1>10 DEF NextOnRecord
    <2>5. UpdateFromDefault'
      BY <1>10 DEF UpdateFromDefault, Up
    <2>6. ConfirmFirst'
      BY <1>10 DEF ConfirmFirst, Up
    <2>7. ConfirmSound'
      BY <1>10, Others DEF ConfirmSound, Up, TrialOnRecord, NoRecord, TornRecord, Records, Slots
    <2>8. OneWorks'
      BY <1>10 DEF OneWorks
    <2>9. FailsClean'
      BY <1>10 DEF FailsClean
    <2> QED
      BY <1>9, <2>1, <2>2, <2>3, <2>4, <2>5, <2>6, <2>7, <2>8, <2>9 DEF Inv
  <1>11. CASE ConfirmRefused
    <2> USE DEF ConfirmRefused, disk, grubenv, updater, Inv, TypeOK
    <2>1. DefaultSound'
      BY <1>11 DEF DefaultSound, Bootable
    <2>2. RunningSound'
      BY <1>11 DEF RunningSound, Bootable, Up
    <2>3. TrialOnRecord'
      BY <1>11 DEF TrialOnRecord, Up
    <2>4. NextOnRecord'
      BY <1>11 DEF NextOnRecord
    <2>5. UpdateFromDefault'
      BY <1>11 DEF UpdateFromDefault, Up
    <2>6. ConfirmFirst'
      BY <1>11 DEF ConfirmFirst, Up
    <2>7. ConfirmSound'
      BY <1>11, Others DEF ConfirmSound, Up, TrialOnRecord, NoRecord, TornRecord, Records, Slots
    <2>8. OneWorks'
      BY <1>11 DEF OneWorks
    <2>9. FailsClean'
      BY <1>11 DEF FailsClean
    <2> QED
      BY <1>9, <2>1, <2>2, <2>3, <2>4, <2>5, <2>6, <2>7, <2>8, <2>9 DEF Inv
  <1>12. CASE ConfirmDefault
    <2> USE DEF ConfirmDefault, disk, grubenv, updater, Inv, TypeOK, ConfirmSound
    <2>1. DefaultSound'
      BY <1>12 DEF DefaultSound, Bootable, RunningSound, Up
    <2>2. RunningSound'
      BY <1>12 DEF RunningSound, Bootable, Up
    <2>3. TrialOnRecord'
      BY <1>12 DEF TrialOnRecord, Up
    <2>4. NextOnRecord'
      BY <1>12 DEF NextOnRecord, ConfirmFirst, Up
    <2>5. UpdateFromDefault'
      BY <1>12 DEF UpdateFromDefault, Up
    <2>6. ConfirmFirst'
      BY <1>12 DEF ConfirmFirst, Up
    <2>7. ConfirmSound'
      BY <1>12 DEF Up
    <2>8. OneWorks'
      BY <1>12 DEF OneWorks
    <2>9. FailsClean'
      BY <1>12 DEF FailsClean
    <2> QED
      BY <1>9, <2>1, <2>2, <2>3, <2>4, <2>5, <2>6, <2>7, <2>8, <2>9 DEF Inv
  <1>13. CASE ConfirmStatus
    <2> USE DEF ConfirmStatus, grubenv, updater, Inv, TypeOK
    <2>1. DefaultSound'
      BY <1>13 DEF DefaultSound, Bootable
    <2>2. RunningSound'
      BY <1>13 DEF RunningSound, Bootable, Up
    <2>3. TrialOnRecord'
      BY <1>13 DEF TrialOnRecord, Up
    <2>4. NextOnRecord'
      BY <1>13 DEF NextOnRecord
    <2>5. UpdateFromDefault'
      BY <1>13 DEF UpdateFromDefault, Up
    <2>6. ConfirmFirst'
      BY <1>13 DEF ConfirmFirst, Up
    <2>7. ConfirmSound'
      BY <1>13 DEF ConfirmSound, Up
    <2>8. OneWorks'
      BY <1>13 DEF OneWorks
    <2>9. FailsClean'
      BY <1>13 DEF FailsClean
    <2> QED
      BY <1>9, <2>1, <2>2, <2>3, <2>4, <2>5, <2>6, <2>7, <2>8, <2>9 DEF Inv
  <1>14. CASE ConfirmClear
    <2> USE DEF ConfirmClear, disk, grubenv, updater, Inv, TypeOK, ConfirmSound
    <2>1. DefaultSound'
      BY <1>14 DEF DefaultSound, Bootable
    <2>2. RunningSound'
      BY <1>14 DEF RunningSound, Bootable, Up
    <2>3. TrialOnRecord'
      BY <1>14 DEF TrialOnRecord, Up
    <2>4. NextOnRecord'
      BY <1>14 DEF NextOnRecord, ConfirmFirst, Up
    <2>5. UpdateFromDefault'
      BY <1>14 DEF UpdateFromDefault, Up
    <2>6. ConfirmFirst'
      BY <1>14 DEF ConfirmFirst, Up
    <2>7. ConfirmSound'
      BY <1>14 DEF Up
    <2>8. OneWorks'
      BY <1>14 DEF OneWorks, ConfirmFirst
    <2>9. FailsClean'
      BY <1>14 DEF FailsClean
    <2> QED
      BY <1>9, <2>1, <2>2, <2>3, <2>4, <2>5, <2>6, <2>7, <2>8, <2>9 DEF Inv
  <1> QED
    BY <1>10, <1>11, <1>12, <1>13, <1>14 DEF Confirm

LEMMA PowerKeeps ==
    ASSUME Usual, Inv, Power
    PROVE  Inv'
  <1>1. TypeOK /\ ConfirmUp
    BY DEF Inv
  <1>9. TypeOK' /\ ConfirmUp'
    BY <1>1, StepKeepsType, StepKeepsConfirmUp DEF Next
  <1>10. CASE Freeze
    <2> USE DEF Freeze, EndProcesses, disk, grubenv, Inv, TypeOK, Slots
    <2>1. DefaultSound'
      BY <1>10 DEF DefaultSound, Bootable
    <2>2. RunningSound'
      BY <1>10 DEF RunningSound, Bootable, Up
    <2>3. TrialOnRecord'
      BY <1>10 DEF TrialOnRecord, Up
    <2>4. NextOnRecord'
      BY <1>10 DEF NextOnRecord
    <2>5. UpdateFromDefault'
      BY <1>10 DEF UpdateFromDefault, Up
    <2>6. ConfirmFirst'
      BY <1>10 DEF ConfirmFirst, Up
    <2>7. ConfirmSound'
      BY <1>10 DEF ConfirmSound, Up
    <2>8. OneWorks'
      BY <1>10 DEF OneWorks, Working
    <2>9. FailsClean'
      BY <1>10 DEF FailsClean
    <2> QED
      BY <1>9, <2>1, <2>2, <2>3, <2>4, <2>5, <2>6, <2>7, <2>8, <2>9 DEF Inv
  <1>11. CASE ShutDown
    <2> USE DEF ShutDown, Halt, EndProcesses, grubenv, Inv, TypeOK, Slots
    <2>1. DefaultSound'
      BY <1>11 DEF DefaultSound, Bootable
    <2>2. RunningSound'
      BY <1>11 DEF RunningSound, Bootable, Up
    <2>3. TrialOnRecord'
      BY <1>11 DEF TrialOnRecord, Up
    <2>4. NextOnRecord'
      BY <1>11 DEF NextOnRecord
    <2>5. UpdateFromDefault'
      BY <1>11 DEF UpdateFromDefault, Up
    <2>6. ConfirmFirst'
      BY <1>11 DEF ConfirmFirst, Up
    <2>7. ConfirmSound'
      BY <1>11 DEF ConfirmSound, Up
    <2>8. OneWorks'
      BY <1>11 DEF OneWorks, Working
    <2>9. FailsClean'
      BY <1>11 DEF FailsClean
    <2> QED
      BY <1>9, <2>1, <2>2, <2>3, <2>4, <2>5, <2>6, <2>7, <2>8, <2>9 DEF Inv
  <1>12. ASSUME NEW s \in Slots, Boot(s)
         PROVE  Inv'
    <2> USE DEF Boot, disk, updater, Inv, TypeOK, Usual, Slots
    <2>1. DefaultSound'
      BY <1>12 DEF DefaultSound, Bootable
    <2>2. RunningSound'
      BY <1>12 DEF RunningSound, Bootable, Up
    <2>3. TrialOnRecord'
      BY <1>12 DEF TrialOnRecord, Up, NextOnRecord
    <2>4. NextOnRecord'
      BY <1>12 DEF NextOnRecord
    <2>5. UpdateFromDefault'
      BY <1>12 DEF UpdateFromDefault, Up
    <2>6. ConfirmFirst'
      BY <1>12 DEF ConfirmFirst, Up, UpdateFromDefault
    <2>7. ConfirmSound'
      BY <1>12 DEF ConfirmSound, Up
    <2>8. OneWorks'
      BY <1>12 DEF OneWorks, UpdateFromDefault, Up, Working
    <2>9. FailsClean'
      BY <1>12 DEF FailsClean
    <2> QED
      BY <1>9, <2>1, <2>2, <2>3, <2>4, <2>5, <2>6, <2>7, <2>8, <2>9 DEF Inv
  <1>13. ASSUME NEW lost \in SUBSET unsynced, PowerCut(lost) \/ PowerCycle(lost)
         PROVE  Inv'
    <2> USE DEF PowerCut, PowerCycle, Cut, Halt, EndProcesses, Lose, grubenv, Inv, TypeOK,
                Slots
    <2>1. DefaultSound'
      BY <1>13 DEF DefaultSound, Bootable
    <2>2. RunningSound'
      BY <1>13 DEF RunningSound, Bootable, Up
    <2>3. TrialOnRecord'
      BY <1>13 DEF TrialOnRecord, Up
    <2>4. NextOnRecord'
      BY <1>13 DEF NextOnRecord, Records, NoRecord, TornRecord
    <2>5. UpdateFromDefault'
      BY <1>13 DEF UpdateFromDefault, Up
    <2>6. ConfirmFirst'
      BY <1>13 DEF ConfirmFirst, Up
    <2>7. ConfirmSound'
      BY <1>13 DEF ConfirmSound, Up
    <2>8. OneWorks'
      BY <1>13 DEF OneWorks, Working
    <2>9. FailsClean'
      BY <1>13 DEF FailsClean
    <2> QED
      BY <1>9, <2>1, <2>2, <2>3, <2>4, <2>5, <2>6, <2>7, <2>8, <2>9 DEF Inv
  <1> QED
    BY <1>10, <1>11, <1>12, <1>13 DEF Power

LEMMA StepKeeps ==
    ASSUME Usual, Inv, [Next]_vars
    PROVE  Inv'
  <1>1. CASE UNCHANGED vars
    BY <1>1 DEF vars, disk, grubenv, updater, machine, Inv, TypeOK, ConfirmUp, DefaultSound,
                RunningSound, TrialOnRecord, NextOnRecord, UpdateFromDefault, ConfirmFirst,
                ConfirmSound, OneWorks, FailsClean, Up, Bootable
  <1> QED
    BY <1>1, UpdateKeeps, ConfirmKeeps, PowerKeeps DEF Next

LEMMA InitSound == Init => Inv
  <1> SUFFICES ASSUME Init
               PROVE  Inv
    OBVIOUS
  <1>1. TypeOK /\ ConfirmUp
    BY InitType
  <1>2. DefaultSound /\ RunningSound
    BY DEF Init, DefaultSound, RunningSound, Bootable, Up, Slots
  <1>3. TrialOnRecord /\ NextOnRecord /\ UpdateFromDefault /\ ConfirmFirst
    BY DEF Init, TrialOnRecord, NextOnRecord, UpdateFromDefault, ConfirmFirst, Up, Slots
  <1>4. ConfirmSound /\ OneWorks /\ FailsClean
    BY DEF Init, ConfirmSound, OneWorks, FailsClean, Working
  <1> QED
    BY <1>1, <1>2, <1>3, <1>4 DEF Inv

\* ---- what follows from it

THEOREM UpdateInvariant == Usual => (Spec => []Inv)
  <1> SUFFICES ASSUME Usual
               PROVE  Spec => []Inv
    OBVIOUS
  <1>1. Init => Inv
    BY InitSound
  <1>2. Inv /\ [Next]_vars => Inv'
    BY StepKeeps
  <1> QED
    BY <1>1, <1>2, PTL DEF Spec

\* "The current slot is still the default", and it boots: whatever step of an
\* update is interrupted.
THEOREM FallbackSafe == Usual => (Spec => []FallbackIntact)
  <1>1. Inv => FallbackIntact
    BY DEF Inv, DefaultSound, FallbackIntact
  <1> QED
    BY <1>1, UpdateInvariant, PTL

\* The default slot only ever holds a release that stayed up for 90 seconds.
THEOREM DefaultProven == Usual => (Spec => []DefaultIsProven)
  <1>1. Inv => DefaultIsProven
    BY DEF Inv, DefaultSound, DefaultIsProven
  <1> QED
    BY <1>1, UpdateInvariant, PTL

\* GRUB never has a slot to try that is not on record.
THEOREM OneShotRecorded == Usual => (Spec => []OneShotOnRecord)
  <1>1. Inv => OneShotOnRecord
    BY DEF Inv, NextOnRecord, OneShotOnRecord
  <1> QED
    BY <1>1, UpdateInvariant, PTL

\* ---- what a status file says is true

\* One copy of moonlight-update at a time: nobody runs it from the panel and
\* from a shell at once.  Nothing in the code enforces this.
OneUpdater == \A u, w \in Updaters : u = w

\* An updater is a process of a machine that is up.
UpdaterUp == \A u \in Updaters : pc[u] # "idle" => Up

\* The record tells what its slot holds, unless a power cut took the root.
RecordTrue == pending \in Records => root[pending.slot] \in {0, pending.version}

\* While an updater works towards its record there is none; the slot it fills
\* has lost its old status, and keeps what was copied.
Unrecorded ==
    \A u \in Updaters : pc[u] \notin {"idle", "schedule", "finish"} => pending = NoRecord

Blank == \A u \in Updaters : pc[u] = "copy" => status[Other(running)] = NoReport

Carried ==
    \A u \in Updaters :
        pc[u] \in {"kernel", "initrd", "menu", "record"} => root[Other(running)] = version[u]

\* A running slot that is about to be confirmed has outlived its 90 seconds.
Outlived ==
    confirm \in {"default", "status"} /\ pending.slot = running => root[running] \in proven

\* An installed slot has nothing left to lose.
Settled == \A s \in Slots : status[s].result = "installed" => s \notin unsynced

StatusInv ==
    /\ TypeOK /\ ConfirmUp /\ RunningSound /\ UpdaterUp
    /\ RecordTrue /\ Unrecorded /\ Blank /\ Carried /\ Outlived
    /\ Settled /\ InstalledIsTrue

LEMMA UpdateKeepsStatus ==
    ASSUME OneUpdater, StatusInv, NEW u \in Updaters, Update(u)
    PROVE  StatusInv'
  <1>1. TypeOK /\ ConfirmUp
    BY DEF StatusInv
  <1>2. TypeOK' /\ ConfirmUp'
    BY <1>1, StepKeepsType, StepKeepsConfirmUp DEF Next
  <1>3. /\ Other(running) \in Slots
        /\ pc[u] # "idle" => Up /\ running \in Slots /\ Other(running) # running
                             /\ Slots = {running, Other(running)}
    BY Others, <1>1, RunningType DEF StatusInv, UpdaterUp, Up
  <1>4. \A w \in Updaters : w = u
    BY DEF OneUpdater
  <1>10. ASSUME NEW v \in Versions, Choose(u, v)
         PROVE  StatusInv'
    <2> USE DEF Choose, disk, grubenv, machine, StatusInv, TypeOK
    <2>1. RunningSound'
      BY <1>10, <1>3, <1>4 DEF RunningSound, Bootable, Up
    <2>2. UpdaterUp'
      BY <1>10, <1>3, <1>4 DEF UpdaterUp, Up
    <2>3. RecordTrue'
      BY <1>10, <1>3, <1>4 DEF RecordTrue
    <2>4. Unrecorded'
      BY <1>10, <1>3, <1>4 DEF Unrecorded
    <2>5. Blank'
      BY <1>10, <1>3, <1>4 DEF Blank
    <2>6. Carried'
      BY <1>10, <1>3, <1>4 DEF Carried
    <2>7. Outlived'
      BY <1>10, <1>3, <1>4 DEF Outlived
    <2>8. Settled'
      BY <1>10, <1>3, <1>4 DEF Settled
    <2>9. InstalledIsTrue'
      BY <1>10, <1>3, <1>4 DEF InstalledIsTrue
    <2> QED
      BY <1>2, <2>1, <2>2, <2>3, <2>4, <2>5, <2>6, <2>7, <2>8, <2>9 DEF StatusInv
  <1>11. CASE Begin(u)
    <2> USE DEF Begin, disk, grubenv, machine, StatusInv, TypeOK
    <2>1. RunningSound'
      BY <1>11, <1>3, <1>4 DEF RunningSound, Bootable, Up
    <2>2. UpdaterUp'
      BY <1>11, <1>3, <1>4 DEF UpdaterUp, Up
    <2>3. RecordTrue'
      BY <1>11, <1>3, <1>4 DEF RecordTrue
    <2>4. Unrecorded'
      BY <1>11, <1>3, <1>4 DEF Unrecorded
    <2>5. Blank'
      BY <1>11, <1>3, <1>4 DEF Blank
    <2>6. Carried'
      BY <1>11, <1>3, <1>4 DEF Carried
    <2>7. Outlived'
      BY <1>11, <1>3, <1>4 DEF Outlived
    <2>8. Settled'
      BY <1>11, <1>3, <1>4 DEF Settled
    <2>9. InstalledIsTrue'
      BY <1>11, <1>3, <1>4 DEF InstalledIsTrue
    <2> QED
      BY <1>2, <2>1, <2>2, <2>3, <2>4, <2>5, <2>6, <2>7, <2>8, <2>9 DEF StatusInv
  <1>12. CASE Format(u)
    <2> USE DEF Format, Step, grubenv, machine, StatusInv, TypeOK
    <2>1. RunningSound'
      BY <1>12, <1>3, <1>4 DEF RunningSound, Bootable, Up, Slots
    <2>2. UpdaterUp'
      BY <1>12, <1>3, <1>4 DEF UpdaterUp, Up
    <2>3. RecordTrue'
      BY <1>12, <1>3, <1>4 DEF RecordTrue
    <2>4. Unrecorded'
      BY <1>12, <1>3, <1>4 DEF Unrecorded
    <2>5. Blank'
      BY <1>12, <1>3, <1>4 DEF Blank
    <2>6. Carried'
      BY <1>12, <1>3, <1>4 DEF Carried
    <2>7. Outlived'
      BY <1>12, <1>3, <1>4 DEF Outlived
    <2>8. Settled'
      BY <1>12, <1>3, <1>4 DEF Settled, NoReport
    <2>9. InstalledIsTrue'
      BY <1>12, <1>3, <1>4 DEF InstalledIsTrue, NoReport
    <2> QED
      BY <1>2, <2>1, <2>2, <2>3, <2>4, <2>5, <2>6, <2>7, <2>8, <2>9 DEF StatusInv
  <1>13. CASE Copy(u)
    <2> USE DEF Copy, Step, grubenv, machine, StatusInv, TypeOK
    <2>1. RunningSound'
      BY <1>13, <1>3, <1>4 DEF RunningSound, Bootable, Up
    <2>2. UpdaterUp'
      BY <1>13, <1>3, <1>4 DEF UpdaterUp, Up
    <2>3. RecordTrue'
      BY <1>13, <1>3, <1>4 DEF RecordTrue, Unrecorded, NoRecord, Records, Slots
    <2>4. Unrecorded'
      BY <1>13, <1>3, <1>4 DEF Unrecorded
    <2>5. Blank'
      BY <1>13, <1>3, <1>4 DEF Blank
    <2>6. Carried'
      BY <1>13, <1>3, <1>4 DEF Carried
    <2>7. Outlived'
      BY <1>13, <1>3, <1>4 DEF Outlived
    <2>8. Settled'
      BY <1>13, <1>3, <1>4 DEF Settled
    <2>9. InstalledIsTrue'
      BY <1>13, <1>3, <1>4 DEF InstalledIsTrue, Blank, NoReport
    <2> QED
      BY <1>2, <2>1, <2>2, <2>3, <2>4, <2>5, <2>6, <2>7, <2>8, <2>9 DEF StatusInv
  <1>14. CASE PutKernel(u)
    <2> USE DEF PutKernel, Step, grubenv, machine, StatusInv, TypeOK
    <2>1. RunningSound'
      BY <1>14, <1>3, <1>4 DEF RunningSound, Bootable, Up
    <2>2. UpdaterUp'
      BY <1>14, <1>3, <1>4 DEF UpdaterUp, Up
    <2>3. RecordTrue'
      BY <1>14, <1>3, <1>4 DEF RecordTrue
    <2>4. Unrecorded'
      BY <1>14, <1>3, <1>4 DEF Unrecorded
    <2>5. Blank'
      BY <1>14, <1>3, <1>4 DEF Blank
    <2>6. Carried'
      BY <1>14, <1>3, <1>4 DEF Carried
    <2>7. Outlived'
      BY <1>14, <1>3, <1>4 DEF Outlived
    <2>8. Settled'
      BY <1>14, <1>3, <1>4 DEF Settled
    <2>9. InstalledIsTrue'
      BY <1>14, <1>3, <1>4 DEF InstalledIsTrue
    <2> QED
      BY <1>2, <2>1, <2>2, <2>3, <2>4, <2>5, <2>6, <2>7, <2>8, <2>9 DEF StatusInv
  <1>15. CASE PutInitrd(u)
    <2> USE DEF PutInitrd, Step, grubenv, machine, StatusInv, TypeOK
    <2>1. RunningSound'
      BY <1>15, <1>3, <1>4 DEF RunningSound, Bootable, Up
    <2>2. UpdaterUp'
      BY <1>15, <1>3, <1>4 DEF UpdaterUp, Up
    <2>3. RecordTrue'
      BY <1>15, <1>3, <1>4 DEF RecordTrue
    <2>4. Unrecorded'
      BY <1>15, <1>3, <1>4 DEF Unrecorded
    <2>5. Blank'
      BY <1>15, <1>3, <1>4 DEF Blank
    <2>6. Carried'
      BY <1>15, <1>3, <1>4 DEF Carried
    <2>7. Outlived'
      BY <1>15, <1>3, <1>4 DEF Outlived
    <2>8. Settled'
      BY <1>15, <1>3, <1>4 DEF Settled
    <2>9. InstalledIsTrue'
      BY <1>15, <1>3, <1>4 DEF InstalledIsTrue
    <2> QED
      BY <1>2, <2>1, <2>2, <2>3, <2>4, <2>5, <2>6, <2>7, <2>8, <2>9 DEF StatusInv
  <1>16. CASE UpdateGrub(u)
    <2> USE DEF UpdateGrub, Step, grubenv, machine, StatusInv, TypeOK
    <2>1. RunningSound'
      BY <1>16, <1>3, <1>4 DEF RunningSound, Bootable, Up
    <2>2. UpdaterUp'
      BY <1>16, <1>3, <1>4 DEF UpdaterUp, Up
    <2>3. RecordTrue'
      BY <1>16, <1>3, <1>4 DEF RecordTrue
    <2>4. Unrecorded'
      BY <1>16, <1>3, <1>4 DEF Unrecorded
    <2>5. Blank'
      BY <1>16, <1>3, <1>4 DEF Blank
    <2>6. Carried'
      BY <1>16, <1>3, <1>4 DEF Carried
    <2>7. Outlived'
      BY <1>16, <1>3, <1>4 DEF Outlived
    <2>8. Settled'
      BY <1>16, <1>3, <1>4 DEF Settled
    <2>9. InstalledIsTrue'
      BY <1>16, <1>3, <1>4 DEF InstalledIsTrue
    <2> QED
      BY <1>2, <2>1, <2>2, <2>3, <2>4, <2>5, <2>6, <2>7, <2>8, <2>9 DEF StatusInv
  <1>17. CASE WriteRecord(u)
    <2> USE DEF WriteRecord, Step, disk, grubenv, machine, StatusInv, TypeOK
    <2>1. RunningSound'
      BY <1>17, <1>3, <1>4 DEF RunningSound, Bootable, Up, Slots
    <2>2. UpdaterUp'
      BY <1>17, <1>3, <1>4 DEF UpdaterUp, Up
    <2>3. RecordTrue'
      BY <1>17, <1>3, <1>4 DEF RecordTrue, Carried, Record, Records
    <2>4. Unrecorded'
      BY <1>17, <1>3, <1>4 DEF Unrecorded
    <2>5. Blank'
      BY <1>17, <1>3, <1>4 DEF Blank
    <2>6. Carried'
      BY <1>17, <1>3, <1>4 DEF Carried
    <2>7. Outlived'
      BY <1>17, <1>3, <1>4 DEF Outlived, Record
    <2>8. Settled'
      BY <1>17, <1>3, <1>4 DEF Settled, Slots
    <2>9. InstalledIsTrue'
      BY <1>17, <1>3, <1>4 DEF InstalledIsTrue
    <2> QED
      BY <1>2, <2>1, <2>2, <2>3, <2>4, <2>5, <2>6, <2>7, <2>8, <2>9 DEF StatusInv
  <1>18. CASE Schedule(u)
    <2> USE DEF Schedule, Step, disk, machine, StatusInv, TypeOK
    <2>1. RunningSound'
      BY <1>18, <1>3, <1>4 DEF RunningSound, Bootable, Up
    <2>2. UpdaterUp'
      BY <1>18, <1>3, <1>4 DEF UpdaterUp, Up
    <2>3. RecordTrue'
      BY <1>18, <1>3, <1>4 DEF RecordTrue
    <2>4. Unrecorded'
      BY <1>18, <1>3, <1>4 DEF Unrecorded
    <2>5. Blank'
      BY <1>18, <1>3, <1>4 DEF Blank
    <2>6. Carried'
      BY <1>18, <1>3, <1>4 DEF Carried
    <2>7. Outlived'
      BY <1>18, <1>3, <1>4 DEF Outlived
    <2>8. Settled'
      BY <1>18, <1>3, <1>4 DEF Settled
    <2>9. InstalledIsTrue'
      BY <1>18, <1>3, <1>4 DEF InstalledIsTrue
    <2> QED
      BY <1>2, <2>1, <2>2, <2>3, <2>4, <2>5, <2>6, <2>7, <2>8, <2>9 DEF StatusInv
  <1>19. CASE ScheduleFails(u)
    <2> USE DEF ScheduleFails, Step, disk, grubenv, machine, StatusInv, TypeOK
    <2>1. RunningSound'
      BY <1>19, <1>3, <1>4 DEF RunningSound, Bootable, Up
    <2>2. UpdaterUp'
      BY <1>19, <1>3, <1>4 DEF UpdaterUp, Up
    <2>3. RecordTrue'
      BY <1>19, <1>3, <1>4 DEF RecordTrue, Records, NoRecord, Slots
    <2>4. Unrecorded'
      BY <1>19, <1>3, <1>4 DEF Unrecorded
    <2>5. Blank'
      BY <1>19, <1>3, <1>4 DEF Blank
    <2>6. Carried'
      BY <1>19, <1>3, <1>4 DEF Carried
    <2>7. Outlived'
      BY <1>19, <1>3, <1>4 DEF Outlived, NoRecord, Slots
    <2>8. Settled'
      BY <1>19, <1>3, <1>4 DEF Settled
    <2>9. InstalledIsTrue'
      BY <1>19, <1>3, <1>4 DEF InstalledIsTrue
    <2> QED
      BY <1>2, <2>1, <2>2, <2>3, <2>4, <2>5, <2>6, <2>7, <2>8, <2>9 DEF StatusInv
  <1>20. CASE Finish(u)
    <2> USE DEF Finish, Step, grubenv, machine, StatusInv, TypeOK
    <2>1. RunningSound'
      BY <1>20, <1>3, <1>4 DEF RunningSound, Bootable, Up
    <2>2. UpdaterUp'
      BY <1>20, <1>3, <1>4 DEF UpdaterUp, Up
    <2>3. RecordTrue'
      BY <1>20, <1>3, <1>4 DEF RecordTrue
    <2>4. Unrecorded'
      BY <1>20, <1>3, <1>4 DEF Unrecorded
    <2>5. Blank'
      BY <1>20, <1>3, <1>4 DEF Blank
    <2>6. Carried'
      BY <1>20, <1>3, <1>4 DEF Carried
    <2>7. Outlived'
      BY <1>20, <1>3, <1>4 DEF Outlived
    <2>8. Settled'
      BY <1>20, <1>3, <1>4 DEF Settled, Report
    <2>9. InstalledIsTrue'
      BY <1>20, <1>3, <1>4 DEF InstalledIsTrue, Report
    <2> QED
      BY <1>2, <2>1, <2>2, <2>3, <2>4, <2>5, <2>6, <2>7, <2>8, <2>9 DEF StatusInv
  <1>21. CASE Die(u)
    <2> USE DEF Die, disk, grubenv, machine, StatusInv, TypeOK
    <2>1. RunningSound'
      BY <1>21, <1>3, <1>4 DEF RunningSound, Bootable, Up
    <2>2. UpdaterUp'
      BY <1>21, <1>3, <1>4 DEF UpdaterUp, Up
    <2>3. RecordTrue'
      BY <1>21, <1>3, <1>4 DEF RecordTrue
    <2>4. Unrecorded'
      BY <1>21, <1>3, <1>4 DEF Unrecorded
    <2>5. Blank'
      BY <1>21, <1>3, <1>4 DEF Blank
    <2>6. Carried'
      BY <1>21, <1>3, <1>4 DEF Carried
    <2>7. Outlived'
      BY <1>21, <1>3, <1>4 DEF Outlived
    <2>8. Settled'
      BY <1>21, <1>3, <1>4 DEF Settled
    <2>9. InstalledIsTrue'
      BY <1>21, <1>3, <1>4 DEF InstalledIsTrue
    <2> QED
      BY <1>2, <2>1, <2>2, <2>3, <2>4, <2>5, <2>6, <2>7, <2>8, <2>9 DEF StatusInv
  <1> QED
    BY <1>10, <1>11, <1>12, <1>13, <1>14, <1>15, <1>16, <1>17, <1>18, <1>19, <1>20, <1>21 DEF Update

LEMMA ConfirmKeepsStatus ==
    ASSUME StatusInv, Confirm
    PROVE  StatusInv'
  <1>1. TypeOK /\ ConfirmUp
    BY DEF StatusInv
  <1>2. TypeOK' /\ ConfirmUp'
    BY <1>1, StepKeepsType, StepKeepsConfirmUp DEF Next
  <1>10. CASE Elapse
    <2> USE DEF Elapse, disk, grubenv, updater, StatusInv, TypeOK
    <2>1. RunningSound'
      BY <1>10 DEF RunningSound, Bootable, Up
    <2>2. UpdaterUp'
      BY <1>10 DEF UpdaterUp, Up
    <2>3. RecordTrue'
      BY <1>10 DEF RecordTrue
    <2>4. Unrecorded'
      BY <1>10 DEF Unrecorded
    <2>5. Blank'
      BY <1>10 DEF Blank
    <2>6. Carried'
      BY <1>10 DEF Carried
    <2>7. Outlived'
      BY <1>10 DEF Outlived, Up, Slots
    <2>8. Settled'
      BY <1>10 DEF Settled
    <2>9. InstalledIsTrue'
      BY <1>10 DEF InstalledIsTrue
    <2> QED
      BY <1>2, <2>1, <2>2, <2>3, <2>4, <2>5, <2>6, <2>7, <2>8, <2>9 DEF StatusInv
  <1>11. CASE ConfirmRefused
    <2> USE DEF ConfirmRefused, disk, grubenv, updater, StatusInv, TypeOK
    <2>1. RunningSound'
      BY <1>11 DEF RunningSound, Bootable, Up
    <2>2. UpdaterUp'
      BY <1>11 DEF UpdaterUp, Up
    <2>3. RecordTrue'
      BY <1>11 DEF RecordTrue
    <2>4. Unrecorded'
      BY <1>11 DEF Unrecorded
    <2>5. Blank'
      BY <1>11 DEF Blank
    <2>6. Carried'
      BY <1>11 DEF Carried
    <2>7. Outlived'
      BY <1>11 DEF Outlived
    <2>8. Settled'
      BY <1>11 DEF Settled
    <2>9. InstalledIsTrue'
      BY <1>11 DEF InstalledIsTrue
    <2> QED
      BY <1>2, <2>1, <2>2, <2>3, <2>4, <2>5, <2>6, <2>7, <2>8, <2>9 DEF StatusInv
  <1>12. CASE ConfirmDefault
    <2> USE DEF ConfirmDefault, disk, grubenv, updater, StatusInv, TypeOK
    <2>1. RunningSound'
      BY <1>12 DEF RunningSound, Bootable, Up
    <2>2. UpdaterUp'
      BY <1>12 DEF UpdaterUp, Up
    <2>3. RecordTrue'
      BY <1>12 DEF RecordTrue
    <2>4. Unrecorded'
      BY <1>12 DEF Unrecorded
    <2>5. Blank'
      BY <1>12 DEF Blank
    <2>6. Carried'
      BY <1>12 DEF Carried
    <2>7. Outlived'
      BY <1>12 DEF Outlived
    <2>8. Settled'
      BY <1>12 DEF Settled
    <2>9. InstalledIsTrue'
      BY <1>12 DEF InstalledIsTrue
    <2> QED
      BY <1>2, <2>1, <2>2, <2>3, <2>4, <2>5, <2>6, <2>7, <2>8, <2>9 DEF StatusInv
  <1>13. CASE ConfirmStatus
    <2> USE DEF ConfirmStatus, grubenv, updater, StatusInv, TypeOK
    <2>1. RunningSound'
      BY <1>13, Others DEF RunningSound, Bootable, Up
    <2>2. UpdaterUp'
      BY <1>13, Others DEF UpdaterUp, Up
    <2>3. RecordTrue'
      BY <1>13, Others DEF RecordTrue
    <2>4. Unrecorded'
      BY <1>13, Others DEF Unrecorded
    <2>5. Blank'
      BY <1>13, Others DEF Blank, ConfirmUp, Up
    <2>6. Carried'
      BY <1>13, Others DEF Carried
    <2>7. Outlived'
      BY <1>13, Others DEF Outlived
    <2>8. Settled'
      BY <1>13, Others DEF Settled, Report, RunningSound, ConfirmUp, Up
    <2>9. InstalledIsTrue'
      <3>1. running \in Slots /\ root[running] # 0
        BY <1>13 DEF RunningSound, ConfirmUp, Up, Bootable
      <3>2. CASE pending.slot = running
        <4>1. pending \in Records
          BY <3>1, <3>2 DEF Slots, NoRecord, TornRecord
        <4>2. pending.version = root[running] /\ root[running] \in proven
          BY <1>13, <3>1, <3>2, <4>1 DEF RecordTrue, Outlived
        <4>3. status' = [status EXCEPT ![running] = Report("installed", root[running])]
          BY <1>13, <3>2, <4>2
        <4> QED
          BY <1>13, <3>1, <4>2, <4>3 DEF InstalledIsTrue, Report
      <3>3. CASE pending.slot # running
        BY <1>13, <3>1, <3>3 DEF InstalledIsTrue, Report
      <3> QED
        BY <3>2, <3>3
    <2> QED
      BY <1>2, <2>1, <2>2, <2>3, <2>4, <2>5, <2>6, <2>7, <2>8, <2>9 DEF StatusInv
  <1>14. CASE ConfirmClear
    <2> USE DEF ConfirmClear, disk, grubenv, updater, StatusInv, TypeOK
    <2>1. RunningSound'
      BY <1>14 DEF RunningSound, Bootable, Up
    <2>2. UpdaterUp'
      BY <1>14 DEF UpdaterUp, Up
    <2>3. RecordTrue'
      BY <1>14 DEF RecordTrue, Records, NoRecord, Slots
    <2>4. Unrecorded'
      BY <1>14 DEF Unrecorded
    <2>5. Blank'
      BY <1>14 DEF Blank
    <2>6. Carried'
      BY <1>14 DEF Carried
    <2>7. Outlived'
      BY <1>14 DEF Outlived, NoRecord, Slots
    <2>8. Settled'
      BY <1>14 DEF Settled
    <2>9. InstalledIsTrue'
      BY <1>14 DEF InstalledIsTrue
    <2> QED
      BY <1>2, <2>1, <2>2, <2>3, <2>4, <2>5, <2>6, <2>7, <2>8, <2>9 DEF StatusInv
  <1> QED
    BY <1>10, <1>11, <1>12, <1>13, <1>14 DEF Confirm

LEMMA PowerKeepsStatus ==
    ASSUME StatusInv, Power
    PROVE  StatusInv'
  <1>1. TypeOK /\ ConfirmUp
    BY DEF StatusInv
  <1>2. TypeOK' /\ ConfirmUp'
    BY <1>1, StepKeepsType, StepKeepsConfirmUp DEF Next
  <1>10. CASE Freeze
    <2> USE DEF Freeze, EndProcesses, disk, grubenv, Slots, StatusInv, TypeOK
    <2>1. RunningSound'
      BY <1>10 DEF RunningSound, Bootable, Up
    <2>2. UpdaterUp'
      BY <1>10 DEF UpdaterUp, Up
    <2>3. RecordTrue'
      BY <1>10 DEF RecordTrue
    <2>4. Unrecorded'
      BY <1>10 DEF Unrecorded
    <2>5. Blank'
      BY <1>10 DEF Blank
    <2>6. Carried'
      BY <1>10 DEF Carried
    <2>7. Outlived'
      BY <1>10 DEF Outlived
    <2>8. Settled'
      BY <1>10 DEF Settled
    <2>9. InstalledIsTrue'
      BY <1>10 DEF InstalledIsTrue
    <2> QED
      BY <1>2, <2>1, <2>2, <2>3, <2>4, <2>5, <2>6, <2>7, <2>8, <2>9 DEF StatusInv
  <1>11. CASE ShutDown
    <2> USE DEF ShutDown, Halt, EndProcesses, grubenv, Slots, StatusInv, TypeOK
    <2>1. RunningSound'
      BY <1>11 DEF RunningSound, Bootable, Up
    <2>2. UpdaterUp'
      BY <1>11 DEF UpdaterUp, Up
    <2>3. RecordTrue'
      BY <1>11 DEF RecordTrue
    <2>4. Unrecorded'
      BY <1>11 DEF Unrecorded
    <2>5. Blank'
      BY <1>11 DEF Blank
    <2>6. Carried'
      BY <1>11 DEF Carried
    <2>7. Outlived'
      BY <1>11 DEF Outlived
    <2>8. Settled'
      BY <1>11 DEF Settled
    <2>9. InstalledIsTrue'
      BY <1>11 DEF InstalledIsTrue
    <2> QED
      BY <1>2, <2>1, <2>2, <2>3, <2>4, <2>5, <2>6, <2>7, <2>8, <2>9 DEF StatusInv
  <1>12. ASSUME NEW s \in Slots, Boot(s)
         PROVE  StatusInv'
    <2> USE DEF Boot, disk, updater, Slots, StatusInv, TypeOK
    <2>1. RunningSound'
      BY <1>12 DEF RunningSound, Bootable, Up
    <2>2. UpdaterUp'
      BY <1>12 DEF UpdaterUp, Up
    <2>3. RecordTrue'
      BY <1>12 DEF RecordTrue
    <2>4. Unrecorded'
      BY <1>12 DEF Unrecorded
    <2>5. Blank'
      BY <1>12 DEF Blank, UpdaterUp, Up
    <2>6. Carried'
      BY <1>12 DEF Carried, UpdaterUp, Up
    <2>7. Outlived'
      BY <1>12 DEF Outlived, ConfirmUp, Up
    <2>8. Settled'
      BY <1>12 DEF Settled
    <2>9. InstalledIsTrue'
      BY <1>12 DEF InstalledIsTrue
    <2> QED
      BY <1>2, <2>1, <2>2, <2>3, <2>4, <2>5, <2>6, <2>7, <2>8, <2>9 DEF StatusInv
  <1>13. ASSUME NEW lost \in SUBSET unsynced, PowerCut(lost) \/ PowerCycle(lost)
         PROVE  StatusInv'
    <2> USE DEF Cut, PowerCut, PowerCycle, Halt, EndProcesses, Lose, grubenv, Slots, StatusInv, TypeOK
    <2>1. RunningSound'
      BY <1>13 DEF RunningSound, Bootable, Up
    <2>2. UpdaterUp'
      BY <1>13 DEF UpdaterUp, Up
    <2>3. RecordTrue'
      BY <1>13 DEF RecordTrue, Records, TornRecord
    <2>4. Unrecorded'
      BY <1>13 DEF Unrecorded
    <2>5. Blank'
      BY <1>13 DEF Blank
    <2>6. Carried'
      BY <1>13 DEF Carried
    <2>7. Outlived'
      BY <1>13 DEF Outlived
    <2>8. Settled'
      BY <1>13 DEF Settled
    <2>9. InstalledIsTrue'
      BY <1>13 DEF InstalledIsTrue, Settled
    <2> QED
      BY <1>2, <2>1, <2>2, <2>3, <2>4, <2>5, <2>6, <2>7, <2>8, <2>9 DEF StatusInv
  <1> QED
    BY <1>10, <1>11, <1>12, <1>13 DEF Power

\* Whatever the timing of the confirmation, a manual choice in GRUB or a torn
\* write: a slot whose status says "installed" holds that release, and the
\* release has stayed up for 90 seconds, as long as updaters do not overlap.
THEOREM InstalledCorrect == OneUpdater => (Spec => []InstalledIsTrue)
  <1> SUFFICES ASSUME OneUpdater
               PROVE  Spec => []InstalledIsTrue
    OBVIOUS
  <1>1. Init => StatusInv
    <2> SUFFICES ASSUME Init
                 PROVE  StatusInv
      OBVIOUS
    <2>1. TypeOK /\ ConfirmUp
      BY InitType
    <2>2. RunningSound /\ UpdaterUp /\ RecordTrue /\ Unrecorded
      BY DEF Init, RunningSound, UpdaterUp, RecordTrue, Unrecorded, Up, Slots, Records, NoRecord
    <2>3. Blank /\ Carried /\ Outlived /\ Settled /\ InstalledIsTrue
      BY DEF Init, Blank, Carried, Outlived, Settled, InstalledIsTrue, NoReport
    <2> QED
      BY <2>1, <2>2, <2>3 DEF StatusInv
  <1>2. ASSUME StatusInv, [Next]_vars
        PROVE  StatusInv'
    <2>1. CASE UNCHANGED vars
      BY <1>2, <2>1 DEF vars, disk, grubenv, updater, machine, StatusInv, TypeOK, ConfirmUp,
                        RunningSound, UpdaterUp, RecordTrue, Unrecorded, Blank, Carried,
                        Outlived, Settled, InstalledIsTrue, Up, Bootable
    <2> QED
      BY <1>2, <2>1, UpdateKeepsStatus, ConfirmKeepsStatus, PowerKeepsStatus DEF Next
  <1>3. StatusInv => InstalledIsTrue
    BY DEF StatusInv
  <1> QED
    BY <1>1, <1>2, <1>3, PTL DEF Spec
===============================================================================
