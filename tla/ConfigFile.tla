------------------------------ MODULE ConfigFile ------------------------------
(***************************************************************************)
(* /etc/moonlight-os/moonlight-os.conf and its three kinds of writers, all *)
(* read-modify-write on the whole file:                                    *)
(*   - threads of the helper: under CONFIG_LOCK, a temporary file is       *)
(*     renamed over the old one (write_conf);                              *)
(*   - moonlight-config-set, started by the console menus: the same, but   *)
(*     in a process of its own, where CONFIG_LOCK means nothing;           *)
(*   - mlos_set in a shell that runs as root (the updater's channel menu): *)
(*     cp truncates the file and then fills it.                            *)
(***************************************************************************)
EXTENDS Naturals

CONSTANTS
    Writers,    \* threads and processes that change settings
    Style,      \* Writers -> {"helper", "tool", "shell"}
    Keys,       \* settings
    Values,     \* what a setting can be set to
    Absent,     \* a setting without a line in the file
    Keep,       \* a setting that an update does not mention
    MaxCuts     \* bound: how often the machine loses power

ASSUME StyleType == Style \in [Writers -> {"helper", "tool", "shell"}]
ASSUME NotValues == Absent \notin Values /\ Keep \notin Values \cup {Absent}
ASSUME CutsType == MaxCuts \in Nat

VARIABLES
    file,       \* file[k]: what the file says about k
    last,       \* history: last[k]: what the last write that named k wrote
    pc,         \* pc[w]: "idle", "read", "write", or a shell's "fill"
    update,     \* update[w]: the assignments w makes, Keep for the others
    text,       \* text[w]: the new file in w's memory or temporary file
    orphan,     \* orphan[w]: cp's open file is no longer the one in /etc
    harm,       \* history: what has happened to the file so far
    cuts        \* how many power cuts have been used up

vars == <<file, last, pc, update, text, orphan, harm, cuts>>

\* Two writers under way together of which one is outside the helper; cp has
\* emptied the file; cp was stopped before it filled the file again.
Harms == {"overlap", "emptied", "lost"}

Nothing == [k \in Keys |-> Keep]
Blank == [k \in Keys |-> Absent]

Updates == [Keys -> Values \cup {Keep}] \ {Nothing}

\* Mutant of Merge: only the update's own lines are written.
MergeForgets(base, u) == [k \in Keys |-> IF u[k] = Keep THEN Absent ELSE u[k]]

\* Mutant of Merge: settings that are not mentioned are written all the same.
MergeAll(base, u) == [k \in Keys |-> u[k]]

\* The lines of base with the update's keys removed, then the update's lines.
Merge(base, u) == [k \in Keys |-> IF u[k] = Keep THEN base[k] ELSE u[k]]

Idle(w) == pc[w] = "idle"
Helpers == {w \in Writers : Style[w] = "helper"}

\* CONFIG_LOCK is held from reading the file to replacing it.
LockFree == \A w \in Helpers : pc[w] # "write"

\* Another writer is under way, and one of the two is not a helper thread.
Meets(w) == \E x \in Writers \ {w} : ~Idle(x) /\ ~({w, x} \subseteq Helpers)

\* Bound: after both of these, when no property below says anything any more,
\* writers run one by one.
Hopeless == {"overlap", "emptied"} \subseteq harm

\* A thread asks for some settings, a menu for one.
Start(w, u) ==
    /\ Idle(w)
    /\ Hopeless => \A x \in Writers : Idle(x)
    /\ w \in Helpers \/ \E k \in Keys : \A j \in Keys \ {k} : u[j] = Keep
    /\ update' = [update EXCEPT ![w] = u]
    /\ pc' = [pc EXCEPT ![w] = "read"]
    /\ harm' = IF Meets(w) THEN harm \cup {"overlap"} ELSE harm
    /\ UNCHANGED <<file, last, text, orphan, cuts>>

\* Mutant of Read: the file is read before the lock is taken.
ReadUnlocked(w) ==
    /\ pc[w] = "read"
    /\ text' = [text EXCEPT ![w] = Merge(file, update[w])]
    /\ pc' = [pc EXCEPT ![w] = "write"]
    /\ UNCHANGED <<file, last, update, orphan, harm, cuts>>

Read(w) ==
    /\ pc[w] = "read"
    /\ w \in Helpers => LockFree
    /\ text' = [text EXCEPT ![w] = Merge(file, update[w])]
    /\ pc' = [pc EXCEPT ![w] = "write"]
    /\ UNCHANGED <<file, last, update, orphan, harm, cuts>>

Wrote(w) == last' = Merge(last, update[w])

\* The call returns and its locals are gone.
Return(w) ==
    /\ pc' = [pc EXCEPT ![w] = "idle"]
    /\ update' = [update EXCEPT ![w] = Nothing]
    /\ text' = [text EXCEPT ![w] = Blank]
    /\ UNCHANGED cuts

\* The complete temporary file is on disk and renamed; a shell that has the
\* old file open goes on writing to a file without a name.
Replace(w) ==
    /\ pc[w] = "write" /\ Style[w] # "shell"
    /\ file' = text[w]
    /\ Wrote(w)
    /\ orphan' = [x \in Writers |-> pc[x] = "fill"]
    /\ Return(w)
    /\ UNCHANGED harm

\* cp opens the file, which empties it ...
Truncate(w) ==
    /\ pc[w] = "write" /\ Style[w] = "shell"
    /\ file' = Blank
    /\ orphan' = [orphan EXCEPT ![w] = FALSE]
    /\ pc' = [pc EXCEPT ![w] = "fill"]
    /\ harm' = harm \cup {"emptied"}
    /\ UNCHANGED <<last, update, text, cuts>>

\* ... and copies the text.
Fill(w) ==
    /\ pc[w] = "fill"
    /\ file' = IF orphan[w] THEN file ELSE text[w]
    /\ Wrote(w)
    /\ Return(w)
    /\ UNCHANGED <<orphan, harm>>

\* A file that is being filled stays as it is.
Interrupted(fillers) == harm' = IF fillers = {} THEN harm ELSE harm \cup {"lost"}

\* No space is left: the temporary file is removed and the caller told.
Fail(w) ==
    /\ pc[w] \in {"write", "fill"}
    /\ Return(w)
    /\ Interrupted({x \in {w} : pc[x] = "fill"})
    /\ UNCHANGED <<file, last, orphan>>

PowerCut ==
    /\ cuts < MaxCuts
    /\ cuts' = cuts + 1
    /\ pc' = [w \in Writers |-> "idle"]
    /\ update' = [w \in Writers |-> Nothing]
    /\ text' = [w \in Writers |-> Blank]
    /\ orphan' = [w \in Writers |-> FALSE]
    /\ Interrupted({w \in Writers : pc[w] = "fill"})
    /\ UNCHANGED <<file, last>>

Init ==
    /\ file \in [Keys -> Values]
    /\ last = file
    /\ pc = [w \in Writers |-> "idle"]
    /\ update = [w \in Writers |-> Nothing]
    /\ text = [w \in Writers |-> Blank]
    /\ orphan = [w \in Writers |-> FALSE]
    /\ harm = {}
    /\ cuts = 0

Next ==
    \/ PowerCut
    \/ \E w \in Writers :
        \/ Read(w) \/ Replace(w) \/ Truncate(w) \/ Fill(w) \/ Fail(w)
        \/ \E u \in Updates : Start(w, u)

Spec == Init /\ [][Next]_vars

\* Every variable has its type.
TypeOK ==
    /\ file \in [Keys -> Values \cup {Absent}]
    /\ last \in [Keys -> Values]
    /\ pc \in [Writers -> {"idle", "read", "write", "fill"}]
    /\ update \in [Writers -> [Keys -> Values \cup {Keep}]]
    /\ text \in [Writers -> [Keys -> Values \cup {Absent}]]
    /\ orphan \in [Writers -> BOOLEAN]
    /\ harm \subseteq Harms
    /\ cuts \in Nat

\* "Preserving unknown settings": what was last written for a setting is in
\* the file, whatever other settings other writers have written since, as long
\* as outside the helper one writer runs at a time; the instant in which cp
\* fills the file, and a cp that was stopped in it, are excepted.
SettingsPreserved ==
    harm \cap {"overlap", "lost"} = {} /\ (\A w \in Writers : pc[w] # "fill")
        => file = last

\* No reader finds a setting missing that has been in the file, whoever writes
\* at the same time, fails or loses power, unless a cp has emptied the file.
NeverMissing == "emptied" \notin harm => \A k \in Keys : file[k] # Absent
===============================================================================
