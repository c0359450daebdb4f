-------------------------- MODULE WifiProfilesProofs --------------------------
(***************************************************************************)
(* For any number of threads, attempts and stops: the newest Wi-Fi profile *)
(* that has worked stays, and no attempt takes away what another one may   *)
(* still need.  Neither the bounds nor the number of threads matter.       *)
(***************************************************************************)
EXTENDS WifiProfiles, TLAPS

Trying == {"load", "up", "drop"}

\* What a thread lists and writes has been numbered already.
Numbered ==
    \A t \in Threads : previous[t] \subseteq 0 .. written /\ mine[t] \in 0 .. written

\* An attempt has a number of its own, newer than what it means to remove,
\* and the helper has not seen it connect before "discard".
Numbers ==
    /\ 0 \in proven
    /\ \A t \in Threads :
        /\ mine[t] # 0 <=> pc[t] \in Trying \cup {"discard"}
        /\ pc[t] \in Trying => mine[t] \notin proven
        /\ pc[t] = "discard" => mine[t] \in proven
        /\ mine[t] # 0 => \A p \in previous[t] : p < mine[t]
    /\ \A s, t \in Threads : mine[s] = mine[t] /\ mine[s] # 0 => s = t

\* Nobody deletes a profile before it is loaded, and from then on the file
\* goes with it.
Stored ==
    \A t \in Threads :
        /\ pc[t] = "load" => mine[t] \in files /\ mine[t] \notin loaded \cup deleting
        /\ pc[t] = "up" /\ mine[t] \in loaded => mine[t] \in files

\* There is a reason for p to go, and there will always be.
Cause(p) ==
    \/ p \in forgotten
    \/ \E q \in proven : q > p
    \/ p \notin proven /\ \A t \in Threads : mine[t] # p

Pending == \A p \in deleting : Cause(p)

Inv == TypeOK /\ Numbered /\ Numbers /\ Stored /\ Pending /\ LastPasswordKept

-----------------------------------------------------------------------------

LEMMA InitInv == Init => Inv
  <1> SUFFICES ASSUME Init PROVE Inv
    OBVIOUS
  <1> USE DEF Init, Calls
  <1>1. TypeOK
    BY DEF TypeOK
  <1>2. Numbered /\ Numbers
    BY DEF Numbered, Numbers, Trying
  <1>3. Stored /\ Pending
    BY DEF Stored, Pending
  <1>4. LastPasswordKept
    BY DEF LastPasswordKept
  <1> QED
    BY <1>1, <1>2, <1>3, <1>4 DEF Inv

\* The outcomes of `nmcli connection delete`.
LEMMA DeleteOutcome ==
    ASSUME NEW p, Delete(p)
    PROVE  /\ files' = files \/ files' = files \ {p}
           /\ loaded' = loaded \/ loaded' = loaded \ {p}
           /\ deleting' = deleting \/ (p \in loaded /\ deleting' = deleting \cup {p})
           /\ p \notin loaded => files' = files
           /\ p \in files' => files' = files
           /\ p \in files /\ p \notin files' => p \notin loaded'
  BY DEF Delete, Gone, store

\* What the handler's end leaves of its variables.
LEMMA EndKeepsType ==
    ASSUME TypeOK, Numbered, NEW t \in Threads, End(t), written' = written
    PROVE  /\ pc' \in [Threads -> {"idle"} \cup Calls]
           /\ previous' \in [Threads -> SUBSET Nat] /\ mine' \in [Threads -> Nat]
           /\ Numbered'
  <1> USE DEF TypeOK, Numbered, End, Goto, Calls
  <1>1. pc' \in [Threads -> {"idle"} \cup Calls]
    OBVIOUS
  <1>2. mine' \in [Threads -> Nat] /\ \A s \in Threads : mine'[s] \in 0 .. written'
    OBVIOUS
  <1>3. previous' \in [Threads -> SUBSET Nat]
    OBVIOUS
  <1>4. \A s \in Threads : previous'[s] \subseteq 0 .. written'
    OBVIOUS
  <1> QED
    BY <1>1, <1>2, <1>3, <1>4

\* The new attempts' numbers and the types do not depend on what goes on in
\* the store.
LEMMA TypeStep ==
    ASSUME TypeOK, Numbered, [Next]_vars
    PROVE  TypeOK' /\ Numbered'
  <1> USE DEF TypeOK, Numbered, Calls, Goto, End, store, locals
  <1>1. ASSUME NEW t \in Threads, Connect(t) \/ GiveUp(t)
        PROVE  TypeOK' /\ Numbered'
    BY <1>1, EndKeepsType DEF Connect, GiveUp
  <1>2. ASSUME NEW t \in Threads, Saved(t)
        PROVE  TypeOK' /\ Numbered'
    <2>1. loaded \in SUBSET Nat
      OBVIOUS
    <2> QED
      BY <1>2, <2>1 DEF Saved
  <1>3. ASSUME NEW t \in Threads, Write(t)
        PROVE  TypeOK' /\ Numbered'
    <2>1. 0 .. written \subseteq 0 .. written' /\ written' \in 0 .. written'
      BY <1>3 DEF Write
    <2>2. files' \subseteq 0 .. written'
      BY <1>3, <2>1 DEF Write
    <2>3. Numbered'
      BY <1>3, <2>1 DEF Write
    <2> QED
      BY <1>3, <2>1, <2>2, <2>3 DEF Write
  <1>4. ASSUME NEW t \in Threads, Load(t) \/ LoadFails(t)
        PROVE  TypeOK' /\ Numbered'
    <2>1. CASE Load(t)
      <3>1. mine[t] \in 0 .. written
        OBVIOUS
      <3> QED
        BY <2>1, <3>1 DEF Load
    <2>2. CASE LoadFails(t)
      <3>1. mine[t] \in 0 .. written
        OBVIOUS
      <3>2. files' \subseteq 0 .. written /\ loaded' \subseteq 0 .. written
        BY <2>2, <3>1 DEF LoadFails
      <3> QED
        BY <2>2, <3>2, EndKeepsType DEF LoadFails
    <2> QED
      BY <1>4, <2>1, <2>2
  <1>41. ASSUME NEW t \in Threads, Up(t) \/ UpFails(t)
        PROVE  TypeOK' /\ Numbered'
    BY <1>41 DEF Up, UpFails
  <1>42. ASSUME NEW t \in Threads, Drop(t) \/ Connected(t)
        PROVE  TypeOK' /\ Numbered'
    <2>1. files' \subseteq 0 .. written /\ loaded' \subseteq 0 .. written /\ deleting' \subseteq 0 .. written
      <3>1. CASE Drop(t)
        BY <3>1, DeleteOutcome DEF Drop
      <3>2. CASE Connected(t)
        BY <3>2 DEF Connected
      <3> QED
        BY <1>42, <3>1, <3>2
    <2> QED
      BY <1>42, <2>1, EndKeepsType DEF Drop, Connected
  <1>43. ASSUME NEW t \in Threads, Discard(t)
        PROVE  TypeOK' /\ Numbered'
    <2>1. PICK p \in previous[t] :
            Delete(p) /\ previous' = [previous EXCEPT ![t] = @ \ {p}]
      BY <1>43 DEF Discard
    <2>2. files' \subseteq 0 .. written /\ loaded' \subseteq 0 .. written /\ deleting' \subseteq 0 .. written
      BY <2>1, DeleteOutcome
    <2>3. previous' \in [Threads -> SUBSET Nat] /\ Numbered'
      BY <1>43, <2>1 DEF Discard
    <2> QED
      BY <1>43, <2>2, <2>3 DEF Discard
  <1>5. ASSUME NEW p \in loaded, Forget(p)
        PROVE  TypeOK' /\ Numbered'
    <2>1. files' \subseteq 0 .. written /\ loaded' \subseteq 0 .. written /\ deleting' \subseteq 0 .. written
      BY <1>5, DeleteOutcome DEF Forget
    <2> QED
      BY <1>5, <2>1 DEF Forget
  <1>6. ASSUME NEW p \in deleting, LateDelete(p)
        PROVE  TypeOK' /\ Numbered'
    BY <1>6 DEF LateDelete, Gone
  <1>7. ASSUME Crash \/ Reboot
        PROVE  TypeOK' /\ Numbered'
    <2>1. previous' \in [Threads -> SUBSET Nat] /\ Numbered'
      BY <1>7 DEF Crash, Reboot, Stop, Idle
    <2>2. files' \subseteq 0 .. written /\ loaded' \subseteq 0 .. written /\ deleting' \subseteq 0 .. written
      BY <1>7 DEF Crash, Reboot
    <2> QED
      <3>1. pc' \in [Threads -> {"idle"} \cup Calls] /\ mine' \in [Threads -> Nat]
        BY <1>7 DEF Crash, Reboot, Stop, Idle
      <3>2. UNCHANGED <<proven, forgotten, written>> /\ stops' \in Nat
        BY <1>7 DEF Crash, Reboot, Stop
      <3> QED
        BY <2>1, <2>2, <3>1, <3>2
  <1>8. ASSUME UNCHANGED vars
        PROVE  TypeOK' /\ Numbered'
    BY <1>8 DEF vars
  <1> QED
    BY <1>1, <1>2, <1>3, <1>4, <1>41, <1>42, <1>43, <1>5, <1>6, <1>7, <1>8 DEF Next, Step

LEMMA NumbersStep ==
    ASSUME TypeOK, Numbered, Numbers, [Next]_vars
    PROVE  Numbers'
  <1> USE DEF TypeOK, Numbered, Numbers, Trying, Calls, Goto, End, store, locals
  <1>1. ASSUME NEW t \in Threads, Connect(t) \/ Saved(t) \/ GiveUp(t)
        PROVE  Numbers'
    BY <1>1 DEF Connect, Saved, GiveUp
  <1>2. ASSUME NEW t \in Threads, Write(t)
        PROVE  Numbers'
    BY <1>2 DEF Write
  <1>3. ASSUME NEW t \in Threads, Load(t) \/ LoadFails(t) \/ UpFails(t)
        PROVE  Numbers'
    BY <1>3 DEF Load, LoadFails, UpFails
  <1>4. ASSUME NEW t \in Threads, Up(t)
        PROVE  Numbers'
    BY <1>4 DEF Up
  <1>5. ASSUME NEW t \in Threads, Drop(t) \/ Connected(t)
        PROVE  Numbers'
    BY <1>5 DEF Drop, Connected
  <1>6. ASSUME NEW t \in Threads, Discard(t)
        PROVE  Numbers'
    BY <1>6 DEF Discard
  <1>7. ASSUME NEW p, Forget(p) \/ LateDelete(p)
        PROVE  Numbers'
    BY <1>7 DEF Forget, LateDelete
  <1>8. ASSUME Crash \/ Reboot
        PROVE  Numbers'
    BY <1>8 DEF Crash, Reboot, Stop, Idle
  <1>9. ASSUME UNCHANGED vars
        PROVE  Numbers'
    BY <1>9 DEF vars
  <1> QED
    BY <1>1, <1>2, <1>3, <1>4, <1>5, <1>6, <1>7, <1>8, <1>9 DEF Next, Step

LEMMA StoredStep ==
    ASSUME TypeOK, Numbered, Numbers, Stored, [Next]_vars
    PROVE  Stored'
  <1> USE DEF TypeOK, Numbered, Numbers, Trying, Stored, Calls, Goto, End, store, locals
  <1>1. ASSUME NEW t \in Threads, Connect(t) \/ Saved(t) \/ GiveUp(t) \/ UpFails(t)
        PROVE  Stored'
    BY <1>1 DEF Connect, Saved, GiveUp, UpFails
  <1>2. ASSUME NEW t \in Threads, Write(t)
        PROVE  Stored'
    BY <1>2 DEF Write
  <1>3. ASSUME NEW t \in Threads, Load(t)
        PROVE  Stored'
    BY <1>3 DEF Load
  <1>4. ASSUME NEW t \in Threads, LoadFails(t)
        PROVE  Stored'
    BY <1>4 DEF LoadFails
  <1>5. ASSUME NEW t \in Threads, Up(t) \/ Connected(t)
        PROVE  Stored'
    BY <1>5 DEF Up, Connected
  <1>6. ASSUME NEW t \in Threads, Drop(t)
        PROVE  Stored'
    BY <1>6, DeleteOutcome DEF Drop
  <1>7. ASSUME NEW t \in Threads, Discard(t)
        PROVE  Stored'
    BY <1>7, DeleteOutcome DEF Discard
  <1>8. ASSUME NEW p \in loaded, Forget(p)
        PROVE  Stored'
    BY <1>8, DeleteOutcome DEF Forget
  <1>9. ASSUME NEW p \in deleting, LateDelete(p)
        PROVE  Stored'
    BY <1>9 DEF LateDelete, Gone
  <1>10. ASSUME Crash \/ Reboot
        PROVE  Stored'
    BY <1>10 DEF Crash, Reboot, Stop, Idle
  <1>11. ASSUME UNCHANGED vars
        PROVE  Stored'
    BY <1>11 DEF vars
  <1> QED
    BY <1>1, <1>2, <1>3, <1>4, <1>5, <1>6, <1>7, <1>8, <1>9, <1>10, <1>11 DEF Next, Step

\* A thread that tries, or that has succeeded, is not about profile 0.
LEMMA PendingStep ==
    ASSUME TypeOK, Numbered, Numbers, Pending, [Next]_vars
    PROVE  Pending'
  <1> USE DEF TypeOK, Numbered, Numbers, Trying, Pending, Cause, Calls, Goto, End, store, locals
  <1>1. ASSUME NEW t \in Threads, Connect(t) \/ Saved(t) \/ GiveUp(t) \/ UpFails(t)
        PROVE  Pending'
    BY <1>1 DEF Connect, Saved, GiveUp, UpFails
  <1>2. ASSUME NEW t \in Threads, Write(t)
        PROVE  Pending'
    BY <1>2 DEF Write
  <1>3. ASSUME NEW t \in Threads, Load(t) \/ LoadFails(t) \/ Connected(t)
        PROVE  Pending'
    <2>1. UNCHANGED <<deleting, proven, forgotten>>
      BY <1>3 DEF Load, LoadFails, Connected
    <2>2. \A s \in Threads : mine'[s] = mine[s] \/ mine'[s] = 0
      BY <1>3 DEF Load, LoadFails, Connected
    <2> QED
      BY <2>1, <2>2
  <1>4. ASSUME NEW t \in Threads, Up(t)
        PROVE  Pending'
    BY <1>4 DEF Up
  <1>5. ASSUME NEW t \in Threads, Drop(t)
        PROVE  Pending'
    <2>1. deleting' \subseteq deleting \cup {mine[t]}
      BY <1>5, DeleteOutcome DEF Drop
    <2> QED
      BY <1>5, <2>1 DEF Drop
  <1>6. ASSUME NEW t \in Threads, Discard(t)
        PROVE  Pending'
    <2>1. PICK p \in previous[t] : Delete(p)
      BY <1>6 DEF Discard
    <2>2. deleting' \subseteq deleting \cup {p}
      BY <2>1, DeleteOutcome
    <2>3. mine[t] \in proven /\ mine[t] > p
      BY <1>6 DEF Discard
    <2> QED
      <3>1. UNCHANGED <<mine, proven, forgotten>>
        BY <1>6 DEF Discard
      <3>2. Cause(p)'
        BY <2>3, <3>1
      <3> QED
        BY <2>2, <3>1, <3>2
  <1>7. ASSUME NEW p \in loaded, Forget(p)
        PROVE  Pending'
    <2>1. deleting' \subseteq deleting \cup {p}
      BY <1>7, DeleteOutcome DEF Forget
    <2> QED
      BY <1>7, <2>1 DEF Forget
  <1>8. ASSUME NEW p \in deleting, LateDelete(p)
        PROVE  Pending'
    BY <1>8 DEF LateDelete
  <1>9. ASSUME Crash \/ Reboot
        PROVE  Pending'
    BY <1>9 DEF Crash, Reboot, Stop, Idle
  <1>10. ASSUME UNCHANGED vars
        PROVE  Pending'
    BY <1>10 DEF vars
  <1> QED
    BY <1>1, <1>2, <1>3, <1>4, <1>5, <1>6, <1>7, <1>8, <1>9, <1>10 DEF Next, Step

-----------------------------------------------------------------------------

\* One step never removes a file without cause; what a step removes from
\* NetworkManager it removes from the disk, except a refused profile.
GoesNow ==
    \A p \in files \ files' :
        \/ p \in forgotten'
        \/ \E q \in proven : q > p
        \/ p \notin proven /\ \A t \in Threads : mine[t] = p => pc'[t] = "idle"

LEMMA CauseStep ==
    ASSUME TypeOK, Numbered, Numbers, Pending, [Next]_vars
    PROVE  GoesNow
  <1> USE DEF TypeOK, Numbered, Numbers, Trying, GoesNow, Calls
  <1>1. ASSUME NEW t \in Threads,
               \/ Connect(t) \/ Saved(t) \/ GiveUp(t) \/ Load(t) \/ Up(t) \/ UpFails(t)
               \/ Connected(t)
        PROVE  GoesNow
    BY <1>1 DEF Connect, Saved, GiveUp, Load, Up, UpFails, Connected, store
  <1>2. ASSUME NEW t \in Threads, Write(t)
        PROVE  GoesNow
    BY <1>2 DEF Write
  <1>3. ASSUME NEW t \in Threads, LoadFails(t)
        PROVE  GoesNow
    BY <1>3 DEF LoadFails, End, Goto
  <1>4. ASSUME NEW t \in Threads, Drop(t)
        PROVE  GoesNow
    <2>1. files \ files' \subseteq {mine[t]}
      BY <1>4, DeleteOutcome DEF Drop
    <2> QED
      BY <1>4, <2>1 DEF Drop, End, Goto
  <1>5. ASSUME NEW t \in Threads, Discard(t)
        PROVE  GoesNow
    <2>1. PICK p \in previous[t] : Delete(p)
      BY <1>5 DEF Discard
    <2>2. files \ files' \subseteq {p}
      BY <2>1, DeleteOutcome
    <2>3. mine[t] \in proven /\ mine[t] > p
      BY <1>5 DEF Discard
    <2> QED
      BY <2>2, <2>3
  <1>6. ASSUME NEW p \in loaded, Forget(p)
        PROVE  GoesNow
    <2>1. files \ files' \subseteq {p}
      BY <1>6, DeleteOutcome DEF Forget
    <2> QED
      BY <1>6, <2>1 DEF Forget
  <1>7. ASSUME NEW p \in deleting, LateDelete(p)
        PROVE  GoesNow
    BY <1>7 DEF LateDelete, Gone, Pending, Cause
  <1>8. ASSUME Crash \/ Reboot \/ UNCHANGED vars
        PROVE  GoesNow
    BY <1>8 DEF Crash, Reboot, store, vars
  <1> QED
    BY <1>1, <1>2, <1>3, <1>4, <1>5, <1>6, <1>7, <1>8 DEF Next, Step

\* The newest proven profile is either what it was or the one that connects.
LEMMA KeptStep ==
    ASSUME TypeOK, Numbered, Numbers, Stored, Pending, LastPasswordKept, [Next]_vars
    PROVE  LastPasswordKept'
  <1>1. PICK p \in proven :
          /\ \A q \in proven : q <= p
          /\ p \in forgotten \/ p \in files \cap loaded
    BY DEF LastPasswordKept
  <1>2. p \in Nat /\ \A q \in proven : ~(q > p)
    BY <1>1 DEF TypeOK
  <1>3. CASE \E t \in Threads : Up(t)
    <2>1. PICK t \in Threads : Up(t)
      BY <1>3
    <2>2. mine[t] \in Nat /\ mine[t] \in files \cap loaded
      BY <2>1 DEF Up, Stored, TypeOK
    <2>3. /\ proven' = proven \cup {mine[t]}
          /\ UNCHANGED <<files, loaded, forgotten>>
      BY <2>1 DEF Up, store
    <2>4. CASE mine[t] > p
      BY <1>1, <1>2, <2>2, <2>3, <2>4 DEF LastPasswordKept, TypeOK
    <2>5. CASE ~(mine[t] > p)
      BY <1>1, <1>2, <2>2, <2>3, <2>5 DEF LastPasswordKept, TypeOK
    <2> QED
      BY <2>4, <2>5
  <1>4. CASE ~\E t \in Threads : Up(t)
    <2>1. UNCHANGED proven /\ forgotten \subseteq forgotten'
      BY <1>4 DEF Next, Step, Connect, Saved, GiveUp, Write, Load, LoadFails, UpFails, Drop,
                  Discard, Connected, Forget, LateDelete, Crash, Reboot, vars
    <2>2. CASE p \in forgotten
      BY <1>1, <2>1, <2>2 DEF LastPasswordKept
    <2>3. CASE p \notin forgotten'
      <3>1. p \in files' => p \in loaded'
        <4>1. ASSUME NEW t \in Threads, Step(t) \/ Connect(t)
              PROVE  \A x \in loaded : x \in files' => x \in loaded'
          BY <4>1, <1>4 DEF Step, Connect, Saved, GiveUp, Write, Load, LoadFails, UpFails, Drop,
                            Discard, Connected, Delete, Gone, store
        <4>2. ASSUME NEW x, Forget(x) \/ LateDelete(x)
              PROVE  \A y \in loaded : y \in files' => y \in loaded'
          BY <4>2 DEF Forget, LateDelete, Delete, Gone, store
        <4>3. ASSUME Crash \/ Reboot \/ UNCHANGED vars
              PROVE  \A x \in loaded : x \in files' => x \in loaded'
          BY <4>3 DEF Crash, Reboot, vars, store
        <4> QED
          BY <1>1, <2>3, <2>1, <4>1, <4>2, <4>3 DEF Next
      <3>2. p \in files'
        BY <1>1, <1>2, <2>1, <2>3, CauseStep DEF GoesNow
      <3> QED
        BY <1>1, <2>1, <3>1, <3>2 DEF LastPasswordKept
    <2>4. CASE p \in forgotten'
      BY <1>1, <2>1, <2>4 DEF LastPasswordKept
    <2> QED
      BY <2>3, <2>4
  <1> QED
    BY <1>3, <1>4

-----------------------------------------------------------------------------

LEMMA SpecInv == Spec => []Inv
  <1>1. Inv /\ [Next]_vars => Inv'
    BY TypeStep, NumbersStep, StoredStep, PendingStep, KeptStep DEF Inv
  <1> QED
    BY InitInv, <1>1, PTL DEF Spec

\* Every profile the helper handles is one that was written.
THEOREM TypeCorrect == Spec => []TypeOK
  BY SpecInv, PTL DEF Inv

\* The newest profile that has worked is on disk and known to NetworkManager
\* unless the user asked to remove it, for any number of wifi.connect at a
\* time and wherever they fail or stop.
THEOREM KeepsLastPassword == Spec => []LastPasswordKept
  BY SpecInv, PTL DEF Inv

\* No attempt takes away a profile that another one may still need.
THEOREM GoesOnlyForCause == Spec => GoesForCause
  <1>1. Inv /\ [Next]_vars => [GoesNow]_vars
    BY CauseStep DEF Inv
  <1>2. [GoesNow]_vars => [\A p \in files \ files' :
        \/ p \in forgotten'
        \/ \E q \in proven : q > p
        \/ p \notin proven /\ \A t \in Threads : mine[t] = p => pc'[t] = "idle"]_vars
    BY DEF GoesNow
  <1> QED
    BY SpecInv, <1>1, <1>2, PTL DEF Spec, GoesForCause

=============================================================================
