--------------------------- MODULE ConfigFileProofs ---------------------------
(***************************************************************************)
(* What the writers of the settings file promise each other, for any       *)
(* number of writers of each kind, settings and values, with writes that   *)
(* fail and power cuts: settings are preserved while programs outside the  *)
(* helper run one at a time, and none is ever missing unless cp has        *)
(* emptied the file.                                                       *)
(***************************************************************************)
EXTENDS ConfigFile, TLAPS

------------------------------------------------------------------------------
(* The inductive invariants.                                               *)

Calm == harm \cap {"overlap", "lost"} = {}
Filling == {w \in Writers : pc[w] = "fill"}

\* Programs outside the helper run alone unless "overlap" has happened.
Alone ==
    "overlap" \notin harm =>
        \A w \in Writers \ Helpers : ~Idle(w) => \A x \in Writers \ {w} : Idle(x)

\* At most one thread is between reading the file and replacing it, and
\* threads never fill.
OneInLock ==
    /\ \A v, w \in Helpers : pc[v] = "write" /\ pc[w] = "write" => v = w
    /\ \A w \in Writers : pc[w] = "fill" => Style[w] = "shell"

\* What a writer is about to write is the file it still finds there plus its
\* own update; what cp fills the file with is the last writes plus its own.
FreshText ==
    Calm => \A w \in Writers :
        /\ pc[w] = "write" => text[w] = Merge(file, update[w])
        /\ pc[w] = "fill" => text[w] = Merge(last, update[w]) /\ ~orphan[w]

PreserveInv == TypeOK /\ Alone /\ OneInLock /\ FreshText /\ SettingsPreserved

\* Until cp runs, neither the file nor a text to be written lacks a setting.
Whole ==
    "emptied" \notin harm =>
        /\ file \in [Keys -> Values]
        /\ \A w \in Writers : pc[w] # "fill"
        /\ \A w \in Writers : pc[w] = "write" => text[w] \in [Keys -> Values]

WholeInv == TypeOK /\ Whole

------------------------------------------------------------------------------
(* Merging, and what Return changes.                                       *)

LEMMA MergeType ==
    ASSUME NEW base \in [Keys -> Values \cup {Absent}],
           NEW u \in [Keys -> Values \cup {Keep}]
    PROVE  Merge(base, u) \in [Keys -> Values \cup {Absent}]
  BY DEF Merge

LEMMA MergeSaved ==
    ASSUME NEW base \in [Keys -> Values],
           NEW u \in [Keys -> Values \cup {Keep}]
    PROVE  Merge(base, u) \in [Keys -> Values]
  BY DEF Merge

\* What Return changes keeps its type.
ReturnedType ==
    /\ pc \in [Writers -> {"idle", "read", "write", "fill"}]
    /\ update \in [Writers -> [Keys -> Values \cup {Keep}]]
    /\ text \in [Writers -> [Keys -> Values \cup {Absent}]]
    /\ cuts \in Nat

LEMMA ReturnKeepsType ==
    ASSUME TypeOK, NEW w \in Writers, Return(w)
    PROVE  ReturnedType'
  BY DEF TypeOK, ReturnedType, Return, Nothing, Blank

------------------------------------------------------------------------------
(* Types.                                                                  *)

LEMMA StepKeepsType ==
    ASSUME TypeOK, [Next]_vars
    PROVE  TypeOK'
  <1> USE DEF TypeOK, Nothing, Blank, Harms
  <1>1. ASSUME NEW w \in Writers, NEW u \in Updates, Start(w, u)
        PROVE  TypeOK'
    BY <1>1 DEF Start, Updates
  <1>2. ASSUME NEW w \in Writers, Read(w)
        PROVE  TypeOK'
    <2>1. Merge(file, update[w]) \in [Keys -> Values \cup {Absent}]
      BY MergeType
    <2> QED
      BY <1>2, <2>1 DEF Read
  <1>3. ASSUME NEW w \in Writers, Replace(w) \/ Fill(w)
        PROVE  TypeOK'
    <2>1. Merge(last, update[w]) \in [Keys -> Values]
      BY MergeSaved
    <2>2. last' \in [Keys -> Values]
      BY <1>3, <2>1 DEF Replace, Fill, Wrote
    <2>3. file' \in [Keys -> Values \cup {Absent}]
      BY <1>3 DEF Replace, Fill
    <2>6. orphan' \in [Writers -> BOOLEAN]
      <3>1. CASE Replace(w)
        BY <3>1 DEF Replace
      <3>2. CASE Fill(w)
        BY <3>2 DEF Fill
      <3> QED
        BY <1>3, <3>1, <3>2
    <2>5. harm' = harm
      BY <1>3 DEF Replace, Fill
    <2>4. ReturnedType'
      BY <1>3, ReturnKeepsType DEF Replace, Fill
    <2> QED
      BY <2>2, <2>3, <2>4, <2>5, <2>6 DEF ReturnedType
  <1>4. ASSUME NEW w \in Writers, Truncate(w)
        PROVE  TypeOK'
    BY <1>4 DEF Truncate
  <1>5. ASSUME NEW w \in Writers, Fail(w)
        PROVE  TypeOK'
    <2>1. ReturnedType'
      BY <1>5, ReturnKeepsType DEF Fail
    <2>2. harm' \subseteq Harms
      BY <1>5 DEF Fail, Interrupted
    <2> QED
      BY <1>5, <2>1, <2>2 DEF Fail, ReturnedType
  <1>6. CASE PowerCut
    BY <1>6 DEF PowerCut, Interrupted
  <1>7. CASE UNCHANGED vars
    BY <1>7 DEF vars
  <1> QED
    BY <1>1, <1>2, <1>3, <1>4, <1>5, <1>6, <1>7 DEF Next

LEMMA InitType == Init => TypeOK
  BY CutsType DEF Init, TypeOK, Nothing, Blank, Harms

\* Every variable always has its type.
THEOREM TypeCorrect == Spec => []TypeOK
  <1>1. TypeOK /\ [Next]_vars => TypeOK'
    BY StepKeepsType
  <1> QED
    BY <1>1, InitType, PTL DEF Spec

------------------------------------------------------------------------------
(* Settings are preserved.                                                 *)

\* A writer that is under way with "overlap" never having happened is either
\* a helper thread among helper threads or alone.
LEMMA OneWrites ==
    ASSUME Alone, OneInLock, "overlap" \notin harm,
           NEW v \in Writers, NEW w \in Writers,
           pc[v] \in {"write", "fill"}, pc[w] \in {"write", "fill"}
    PROVE  v = w
  <1>1. CASE v \notin Helpers \/ w \notin Helpers
    BY <1>1 DEF Alone, Idle
  <1>2. CASE v \in Helpers /\ w \in Helpers
    BY <1>2 DEF OneInLock, Helpers
  <1> QED
    BY <1>1, <1>2

LEMMA StepPreserves ==
    ASSUME PreserveInv, [Next]_vars
    PROVE  PreserveInv'
  <1>1. TypeOK'
    BY StepKeepsType DEF PreserveInv
  <1> USE DEF PreserveInv, Calm
  <1>2. ASSUME NEW w \in Writers, NEW u \in Updates, Start(w, u)
        PROVE  PreserveInv'
    <2>1. pc' = [pc EXCEPT ![w] = "read"] /\ Idle(w) /\ UNCHANGED <<file, last, text, orphan>>
      BY <1>2 DEF Start
    <2>2. "overlap" \notin harm' => "overlap" \notin harm /\ ~Meets(w) /\ harm' = harm
      BY <1>2 DEF Start
    <2>3. Calm' => Calm
      BY <1>2 DEF Start
    <2>4. Alone'
      BY <2>1, <2>2 DEF Alone, Meets, Idle, TypeOK, Helpers
    <2>5. OneInLock'
      BY <2>1 DEF OneInLock, TypeOK, Helpers
    <2>6. update' = [update EXCEPT ![w] = u]
      BY <1>2 DEF Start
    <2>7. FreshText'
      BY <2>1, <2>3, <2>6 DEF FreshText, TypeOK
    <2>8. SettingsPreserved'
      BY <2>1, <2>3 DEF SettingsPreserved, TypeOK, Idle
    <2> QED
      BY <1>1, <2>4, <2>5, <2>7, <2>8
  <1>3. ASSUME NEW w \in Writers, Read(w)
        PROVE  PreserveInv'
    <2>1. /\ pc[w] = "read" /\ pc' = [pc EXCEPT ![w] = "write"]
          /\ text' = [text EXCEPT ![w] = Merge(file, update[w])]
          /\ UNCHANGED <<file, last, update, orphan, harm>>
      BY <1>3 DEF Read
    <2>2. Alone'
      BY <2>1 DEF Alone, Idle, TypeOK, Helpers
    <2>3. OneInLock'
      BY <1>3, <2>1 DEF OneInLock, TypeOK, Helpers, Read, LockFree
    <2>4. FreshText'
      BY <2>1 DEF FreshText, TypeOK
    <2>5. SettingsPreserved'
      BY <2>1 DEF SettingsPreserved, TypeOK
    <2> QED
      BY <1>1, <2>2, <2>3, <2>4, <2>5
  <1>4. ASSUME NEW w \in Writers, Replace(w)
        PROVE  PreserveInv'
    <2>1. /\ pc[w] = "write" /\ pc' = [pc EXCEPT ![w] = "idle"]
          /\ file' = text[w] /\ last' = Merge(last, update[w])
          /\ harm' = harm
          /\ text' = [text EXCEPT ![w] = Blank]
          /\ update' = [update EXCEPT ![w] = Nothing]
      BY <1>4 DEF Replace, Wrote, Return
    <2>2. Calm => \A x \in Writers \ {w} : pc[x] \notin {"write", "fill"}
      BY <2>1, OneWrites
    <2>3. Calm => file = last
      BY <2>1, <2>2 DEF SettingsPreserved
    <2>4. Alone' /\ OneInLock'
      BY <2>1 DEF Alone, OneInLock, Idle, TypeOK, Helpers
    <2>5. FreshText'
      BY <2>1, <2>2 DEF FreshText, TypeOK
    <2>6. SettingsPreserved'
      BY <2>1, <2>3 DEF SettingsPreserved, FreshText
    <2> QED
      BY <1>1, <2>4, <2>5, <2>6
  <1>5. ASSUME NEW w \in Writers, Truncate(w)
        PROVE  PreserveInv'
    <2>1. /\ pc[w] = "write" /\ pc' = [pc EXCEPT ![w] = "fill"] /\ Style[w] = "shell"
          /\ harm' = harm \cup {"emptied"}
          /\ orphan' = [orphan EXCEPT ![w] = FALSE]
          /\ UNCHANGED <<last, update, text>>
      BY <1>5 DEF Truncate
    <2>2. Calm' <=> Calm
      BY <2>1
    <2>3. Calm => \A x \in Writers \ {w} : pc[x] \notin {"write", "fill"}
      BY <2>1, OneWrites
    <2>4. Calm => file = last
      BY <2>1, <2>3 DEF SettingsPreserved
    <2>5. Alone' /\ OneInLock'
      BY <2>1 DEF Alone, OneInLock, Idle, TypeOK, Helpers
    <2>6. FreshText'
      BY <2>1, <2>2, <2>3, <2>4 DEF FreshText, TypeOK
    <2>7. SettingsPreserved'
      BY <2>1 DEF SettingsPreserved, TypeOK
    <2> QED
      BY <1>1, <2>5, <2>6, <2>7
  <1>6. ASSUME NEW w \in Writers, Fill(w)
        PROVE  PreserveInv'
    <2>1. /\ pc[w] = "fill" /\ pc' = [pc EXCEPT ![w] = "idle"]
          /\ file' = IF orphan[w] THEN file ELSE text[w]
          /\ last' = Merge(last, update[w])
          /\ harm' = harm
          /\ text' = [text EXCEPT ![w] = Blank]
          /\ update' = [update EXCEPT ![w] = Nothing]
      BY <1>6 DEF Fill, Wrote, Return
    <2>2. Calm => \A x \in Writers \ {w} : pc[x] \notin {"write", "fill"}
      BY <2>1, OneWrites
    <2>3. Calm => file' = last'
      BY <2>1 DEF FreshText
    <2>4. Alone' /\ OneInLock'
      BY <2>1 DEF Alone, OneInLock, Idle, TypeOK, Helpers
    <2>5. FreshText'
      BY <2>1, <2>2 DEF FreshText, TypeOK
    <2> QED
      BY <1>1, <2>1, <2>3, <2>4, <2>5 DEF SettingsPreserved
  <1>7. ASSUME NEW w \in Writers, Fail(w)
        PROVE  PreserveInv'
    <2>1. /\ pc' = [pc EXCEPT ![w] = "idle"]
          /\ UNCHANGED <<file, last, orphan>>
          /\ text' = [text EXCEPT ![w] = Blank]
          /\ update' = [update EXCEPT ![w] = Nothing]
      BY <1>7 DEF Fail, Return
    <2>2. Calm' => Calm /\ pc[w] # "fill"
      BY <1>7 DEF Fail, Interrupted
    <2>3. "overlap" \in harm => "overlap" \in harm'
      BY <1>7 DEF Fail, Interrupted
    <2>4. Alone'
      BY <2>1, <2>3 DEF Alone, Idle, TypeOK, Helpers
    <2>5. OneInLock'
      BY <2>1 DEF OneInLock, TypeOK, Helpers
    <2>6. FreshText'
      BY <2>1, <2>2 DEF FreshText, TypeOK
    <2>7. SettingsPreserved'
      BY <2>1, <2>2 DEF SettingsPreserved, TypeOK
    <2> QED
      BY <1>1, <2>4, <2>5, <2>6, <2>7
  <1>8. CASE PowerCut
    <2>1. pc' = [w \in Writers |-> "idle"] /\ UNCHANGED <<file, last>>
      BY <1>8 DEF PowerCut
    <2>2. Calm' => Calm /\ \A w \in Writers : pc[w] # "fill"
      BY <1>8 DEF PowerCut, Interrupted
    <2> QED
      BY <1>1, <2>1, <2>2 DEF Alone, OneInLock, FreshText, SettingsPreserved, Idle, Helpers
  <1>9. CASE UNCHANGED vars
    BY <1>1, <1>9 DEF vars, Alone, OneInLock, FreshText, SettingsPreserved, Idle, Helpers
  <1> QED
    BY <1>2, <1>3, <1>4, <1>5, <1>6, <1>7, <1>8, <1>9 DEF Next

\* write_conf's "preserving unknown settings": with any number of helper
\* threads and one other program at a time nothing that was written is lost.
THEOREM WritersPreserve == Spec => []SettingsPreserved
  <1>1. Init => PreserveInv
    <2>1. Init => Alone /\ OneInLock /\ FreshText /\ SettingsPreserved
      BY DEF Init, Alone, OneInLock, FreshText, SettingsPreserved, Idle, Helpers
    <2> QED
      BY <2>1, InitType DEF PreserveInv
  <1>2. PreserveInv /\ [Next]_vars => PreserveInv'
    BY StepPreserves
  <1>3. PreserveInv => SettingsPreserved
    BY DEF PreserveInv
  <1> QED
    BY <1>1, <1>2, <1>3, PTL DEF Spec

------------------------------------------------------------------------------
(* No setting goes missing.                                                *)

LEMMA StepKeepsWhole ==
    ASSUME WholeInv, [Next]_vars
    PROVE  WholeInv'
  <1>1. TypeOK'
    BY StepKeepsType DEF WholeInv
  <1> USE DEF WholeInv, Whole, TypeOK
  <1>2. ASSUME NEW w \in Writers, NEW u \in Updates, Start(w, u)
        PROVE  WholeInv'
    BY <1>1, <1>2 DEF Start
  <1>3. ASSUME NEW w \in Writers, Read(w)
        PROVE  WholeInv'
    <2>1. "emptied" \notin harm => Merge(file, update[w]) \in [Keys -> Values]
      BY MergeSaved
    <2> QED
      BY <1>1, <1>3, <2>1 DEF Read
  <1>4. ASSUME NEW w \in Writers, Replace(w)
        PROVE  WholeInv'
    BY <1>1, <1>4 DEF Replace, Return
  <1>5. ASSUME NEW w \in Writers, Truncate(w)
        PROVE  WholeInv'
    BY <1>1, <1>5 DEF Truncate
  <1>6. ASSUME NEW w \in Writers, Fill(w)
        PROVE  WholeInv'
    BY <1>1, <1>6 DEF Fill, Return
  <1>7. ASSUME NEW w \in Writers, Fail(w)
        PROVE  WholeInv'
    BY <1>1, <1>7 DEF Fail, Return, Interrupted
  <1>8. CASE PowerCut
    BY <1>1, <1>8 DEF PowerCut, Interrupted
  <1>9. CASE UNCHANGED vars
    BY <1>1, <1>9 DEF vars
  <1> QED
    BY <1>2, <1>3, <1>4, <1>5, <1>6, <1>7, <1>8, <1>9 DEF Next

\* Writers that rename never show a reader a file without a setting, however
\* many run at once, fail or lose power.
THEOREM NothingMissing == Spec => []NeverMissing
  <1>1. Init => WholeInv
    BY InitType DEF Init, WholeInv, Whole
  <1>2. WholeInv /\ [Next]_vars => WholeInv'
    BY StepKeepsWhole
  <1>3. WholeInv => NeverMissing
    BY NotValues DEF WholeInv, Whole, NeverMissing
  <1> QED
    BY <1>1, <1>2, <1>3, PTL DEF Spec
===============================================================================
