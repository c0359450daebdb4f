----------------------------- MODULE WifiProfiles -----------------------------
(***************************************************************************)
(* wifi.connect and wifi.forget of moonlight-helper for one network name.  *)
(* Every attempt writes a profile of its own and asks NetworkManager to    *)
(* load it and to bring it up; the profiles that were there before go only *)
(* after that has worked.  Helper threads serve several clients at once,   *)
(* each nmcli call can fail or time out, and the helper or the machine can *)
(* stop between any two of them.  No lock is taken.                        *)
(*                                                                         *)
(* A profile is the number of the attempt that wrote it, in the order of   *)
(* writing; 0 was there from the start and is known to work.               *)
(***************************************************************************)
EXTENDS Naturals, FiniteSets

CONSTANTS
    Threads,     \* connections to the helper
    MaxAttempts, \* bound: how many profiles are written
    MaxStops     \* bound: helper crashes and reboots

ASSUME BoundsType == MaxAttempts \in Nat /\ MaxStops \in Nat

VARIABLES
    pc,        \* pc[t]: the next call of the thread, or "idle"
    previous,  \* previous[t]: the profiles op_wifi_saved listed
    mine,      \* mine[t]: the profile it wrote, 0 before
    files,     \* profiles on disk
    loaded,    \* profiles NetworkManager knows
    deleting,  \* those it still has to delete for an nmcli that gave up waiting
    proven,    \* (history) profiles the helper saw connect
    forgotten, \* (history) profiles the user asked to remove
    written,   \* (history) how many profiles were ever written
    stops      \* how many crashes and reboots there were

locals == <<pc, previous, mine>>
store == <<files, loaded, deleting>>
vars == <<locals, store, proven, forgotten, written, stops>>

Calls == {"saved", "write", "load", "up", "drop", "discard"}

Goto(t, where) == pc' = [pc EXCEPT ![t] = where]

\* The handler returns or raises.
End(t) ==
    /\ Goto(t, "idle")
    /\ previous' = [previous EXCEPT ![t] = {}]
    /\ mine' = [mine EXCEPT ![t] = 0]

Gone(p) == files' = files \ {p} /\ loaded' = loaded \ {p}

\* nmcli connection delete: NetworkManager forgets it and removes the file.
\* It refuses what it does not know, and it may do so after the time-out.
Delete(p) ==
    \/ p \in loaded /\ Gone(p) /\ UNCHANGED deleting
    \/ p \in loaded /\ deleting' = deleting \cup {p} /\ UNCHANGED <<files, loaded>>
    \/ UNCHANGED store

LateDelete(p) ==
    /\ Gone(p)
    /\ deleting' = deleting \ {p}
    /\ UNCHANGED <<locals, proven, forgotten, written, stops>>

\* How many profiles the attempts under way will still write.
Unwritten == Cardinality({t \in Threads : pc[t] \in {"saved", "write"}})

\* A valid request: the key file has been built off line.
Connect(t) ==
    /\ pc[t] = "idle" /\ written + Unwritten < MaxAttempts
    /\ Goto(t, "saved")
    /\ UNCHANGED <<previous, mine, store, proven, forgotten, written, stops>>

Saved(t) ==
    /\ pc[t] = "saved"
    /\ previous' = [previous EXCEPT ![t] = loaded]
    /\ Goto(t, "write")
    /\ UNCHANGED <<mine, store, proven, forgotten, written, stops>>

\* No list, or no room for the file: nothing has changed yet.
GiveUp(t) ==
    /\ pc[t] \in {"saved", "write"}
    /\ End(t)
    /\ UNCHANGED <<store, proven, forgotten, written, stops>>

\* Mutant of Write: the temporary file is left beside the profile.
WriteTwice(t) ==
    /\ pc[t] = "write"
    /\ written' = written + 1
    /\ mine' = [mine EXCEPT ![t] = written']
    /\ files' = files \cup {written', written' + 1}
    /\ Goto(t, "load")
    /\ UNCHANGED <<previous, loaded, deleting, proven, forgotten, stops>>

\* write_text_atomic: a crash leaves the whole file or none.
Write(t) ==
    /\ pc[t] = "write"
    /\ written' = written + 1
    /\ mine' = [mine EXCEPT ![t] = written']
    /\ files' = files \cup {written'}
    /\ Goto(t, "load")
    /\ UNCHANGED <<previous, loaded, deleting, proven, forgotten, stops>>

\* Mutant of Load: the superseded profiles go as soon as the new one is loaded.
LoadAndDiscard(t) ==
    /\ pc[t] = "load"
    /\ loaded' = (loaded \ previous[t]) \cup {mine[t]}
    /\ files' = files \ previous[t]
    /\ Goto(t, "up")
    /\ UNCHANGED <<previous, mine, deleting, proven, forgotten, written, stops>>

Load(t) ==
    /\ pc[t] = "load"
    /\ loaded' = loaded \cup {mine[t]}
    /\ Goto(t, "up")
    /\ UNCHANGED <<previous, mine, files, deleting, proven, forgotten, written, stops>>

\* It refuses the file, or answers too late: only the file is taken away.
LoadFails(t) ==
    /\ pc[t] = "load"
    /\ files' = files \ {mine[t]}
    /\ loaded' \in {loaded, loaded \cup {mine[t]}}
    /\ UNCHANGED deleting
    /\ End(t)
    /\ UNCHANGED <<proven, forgotten, written, stops>>

Up(t) ==
    /\ pc[t] = "up" /\ mine[t] \in loaded
    /\ proven' = proven \cup {mine[t]}
    /\ Goto(t, "discard")
    /\ UNCHANGED <<previous, mine, store, forgotten, written, stops>>

\* Wrong password, out of range, replaced by another attempt, too slow, gone.
UpFails(t) ==
    /\ pc[t] = "up"
    /\ Goto(t, "drop")
    /\ UNCHANGED <<previous, mine, store, proven, forgotten, written, stops>>

\* Mutant of Drop: a failed attempt removes every profile of that name.
DropByName(t) ==
    /\ pc[t] = "drop"
    /\ files' = files \ (previous[t] \cup {mine[t]})
    /\ loaded' = loaded \ (previous[t] \cup {mine[t]})
    /\ UNCHANGED deleting
    /\ End(t)
    /\ UNCHANGED <<proven, forgotten, written, stops>>

Drop(t) ==
    /\ pc[t] = "drop"
    /\ Delete(mine[t])
    /\ End(t)
    /\ UNCHANGED <<proven, forgotten, written, stops>>

\* One turn of the loop over the superseded profiles.
Discard(t) ==
    /\ pc[t] = "discard"
    /\ \E p \in previous[t] :
        /\ Delete(p)
        /\ previous' = [previous EXCEPT ![t] = @ \ {p}]
    /\ UNCHANGED <<pc, mine, proven, forgotten, written, stops>>

Connected(t) ==
    /\ pc[t] = "discard" /\ previous[t] = {}
    /\ End(t)
    /\ UNCHANGED <<store, proven, forgotten, written, stops>>

\* wifi.forget, by uuid: the user says so.
Forget(p) ==
    /\ p \in loaded
    /\ Delete(p)
    /\ forgotten' = forgotten \cup {p}
    /\ UNCHANGED <<locals, proven, written, stops>>

Idle ==
    /\ pc' = [t \in Threads |-> "idle"]
    /\ previous' = [t \in Threads |-> {}]
    /\ mine' = [t \in Threads |-> 0]

Stop ==
    /\ stops < MaxStops /\ \E t \in Threads : pc[t] # "idle"
    /\ stops' = stops + 1
    /\ Idle

\* The helper is killed between two calls.
Crash ==
    /\ Stop
    /\ UNCHANGED <<store, proven, forgotten, written>>

\* An orderly restart: NetworkManager starts with the profiles on disk.
Reboot ==
    /\ Stop
    /\ loaded' = files /\ deleting' = {}
    /\ UNCHANGED <<files, proven, forgotten, written>>

Init ==
    /\ pc = [t \in Threads |-> "idle"]
    /\ previous = [t \in Threads |-> {}]
    /\ mine = [t \in Threads |-> 0]
    /\ files = {0} /\ loaded = {0} /\ deleting = {}
    /\ proven = {0}
    /\ forgotten = {} /\ written = 0 /\ stops = 0

Step(t) ==
    \/ Saved(t) \/ GiveUp(t) \/ Write(t) \/ Load(t) \/ LoadFails(t) \/ Up(t) \/ UpFails(t)
    \/ Drop(t) \/ Discard(t) \/ Connected(t)

Next ==
    \/ \E t \in Threads : Connect(t) \/ Step(t)
    \/ \E p \in loaded : Forget(p)
    \/ \E p \in deleting : LateDelete(p)
    \/ Crash \/ Reboot

Spec == Init /\ [][Next]_vars

-----------------------------------------------------------------------------

\* The type of the state: every profile is one that was written.
TypeOK ==
    /\ pc \in [Threads -> {"idle"} \cup Calls]
    /\ previous \in [Threads -> SUBSET Nat] /\ mine \in [Threads -> Nat]
    /\ files \subseteq 0 .. written /\ loaded \subseteq 0 .. written
    /\ deleting \subseteq 0 .. written
    /\ proven \subseteq 0 .. written /\ forgotten \subseteq 0 .. written
    /\ written \in Nat /\ stops \in Nat

\* Of the profiles that have connected, the newest is still there, on disk
\* and for NetworkManager, unless the user asked to remove that very one:
\* whatever fails, stops or runs at the same time, the loop at the end of
\* op_wifi_connect and the clean-up of a failed attempt never leave the
\* machine without a password that worked.
LastPasswordKept ==
    \E p \in proven :
        /\ \A q \in proven : q <= p
        /\ p \in forgotten \/ p \in files \cap loaded

\* A profile leaves the disk only because its own attempt failed, because a
\* newer one has connected, or because the user asked: no attempt takes away
\* what another one may still need (op_wifi_connect deletes what was listed
\* before it wrote, and only after its own "up").
GoesForCause ==
    [][\A p \in files \ files' :
        \/ p \in forgotten'
        \/ \E q \in proven : q > p
        \/ p \notin proven /\ \A t \in Threads : mine[t] = p => pc'[t] = "idle"]_vars

=============================================================================
