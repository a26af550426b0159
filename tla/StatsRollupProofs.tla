------------------------- MODULE StatsRollupProofs -------------------------
(***************************************************************************)
(* Proofs about StatsRollup, for any clock bound, retention, batch size    *)
(* and number of writes: exactness when rollups run one at a time, and the *)
(* rolled history however many run.                                        *)
(***************************************************************************)
EXTENDS StatsRollup, TLAPS

\* "runs on one replica at a time".
OneRoller == \A q, r \in Rollers : q = r

-----------------------------------------------------------------------------
(* Type correctness. *)

LEMMA TypeInit == Init => TypeOK
  BY StatsRollupAssumption DEF Init, TypeOK, Hours, None

LEMMA TypeStep == ASSUME TypeOK, Next PROVE TypeOK'
<1> USE StatsRollupAssumption
<1>1. ASSUME NEW h \in Hours, Ingest(h) \/ Symbolicate(h) PROVE TypeOK'
  <2>1. raw[h] \in 0..MaxWrites /\ raw[h] < MaxWrites
    BY <1>1 DEF Ingest, Symbolicate, TypeOK
  <2>2. raw' = [raw EXCEPT ![h] = @ + 1] /\ dirty' = [dirty EXCEPT ![h] = @ + 1]
    BY <1>1 DEF Ingest, Symbolicate, MarkHour
  <2>3. raw' \in [Hours -> 0..MaxWrites] /\ dirty' \in [Hours -> Nat]
    BY <2>1, <2>2 DEF TypeOK
  <2> QED BY <1>1, <2>3 DEF Ingest, Symbolicate, rollerVars, TypeOK
<1>2. ASSUME NEW h \in Hours, DropRaw(h) PROVE TypeOK'
  BY <1>2 DEF DropRaw, rollerVars, TypeOK
<1>3. CASE Tick
  BY <1>3 DEF Tick, rollerVars, TypeOK, Hours
<1>4. ASSUME NEW r \in Rollers, StartRollup(r) PROVE TypeOK'
  <2>1. now - Retention \in Int
    BY DEF TypeOK, Hours
  <2> QED BY <1>4, <2>1 DEF StartRollup, TypeOK
<1>5. ASSUME NEW r \in Rollers, ReadKeys(r) PROVE TypeOK'
  <2>1. PICK S \in SUBSET Hours :
          /\ keys' = [keys EXCEPT ![r] = [h \in Hours |-> IF h \in S THEN dirty[h] ELSE 0]]
          /\ step' = [step EXCEPT ![r] = IF S = {} THEN "idle" ELSE "read"]
    BY <1>5 DEF ReadKeys
  <2>2. keys' \in [Rollers -> [Hours -> Nat]]
    BY <2>1 DEF TypeOK
  <2> QED BY <1>5, <2>1, <2>2 DEF ReadKeys, TypeOK
<1>6. ASSUME NEW r \in Rollers, Compute(r) PROVE TypeOK'
  <2>1. fresh' \in [Rollers -> [Hours -> 0..MaxWrites]]
    BY <1>6 DEF Compute, TypeOK
  <2> QED BY <1>6, <2>1 DEF Compute, TypeOK
<1>7. ASSUME NEW r \in Rollers, Commit(r) PROVE TypeOK'
  BY <1>7 DEF Commit, TypeOK
<1>8. ASSUME NEW r \in Rollers, Finish(r), dirty' \in [Hours -> Nat] PROVE TypeOK'
  BY <1>8 DEF Finish, TypeOK, None
<1>9. ASSUME NEW r \in Rollers, ClearKeys(r) PROVE TypeOK'
  BY <1>8, <1>9 DEF ClearKeys, TypeOK
<1>10. ASSUME NEW r \in Rollers, FailRollup(r) PROVE TypeOK'
  BY <1>8, <1>10 DEF FailRollup, TypeOK
<1> QED
  BY <1>1, <1>2, <1>3, <1>4, <1>5, <1>6, <1>7, <1>9, <1>10 DEF Next

\* TypeOK: the clock, the rows, the gens and what each pass holds keep their
\* types.
THEOREM TypeCorrect == Spec => []TypeOK
<1>1. TypeOK /\ [Next]_vars => TypeOK'
  BY TypeStep DEF TypeOK, vars
<1> QED BY <1>1, TypeInit, PTL DEF Spec

-----------------------------------------------------------------------------
(* Exactness.  A gen that still is the one a pass read certifies that the    *)
(* raw rows are still those the pass saw.                                    *)

\* What a pass knows of hour h while it is under way.
PassKnows(r, h) ==
  keys[r][h] # 0 =>
    /\ step[r] \in {"read", "computed", "written"}
    /\ dirty[h] >= keys[r][h]
    /\ cutoff[r] <= now - Retention
    /\ (InWindow(h) /\ dirty[h] = keys[r][h] /\ step[r] = "computed") => fresh[r][h] = raw[h]
    /\ (InWindow(h) /\ dirty[h] = keys[r][h] /\ step[r] = "written") => rolled[h] = raw[h]

\* The strengthening: besides, an hour with a pass on it is dirty.
PassesSound ==
  /\ \A r \in Rollers : step[r] = "started" => cutoff[r] <= now - Retention
  /\ \A r \in Rollers, h \in Hours : PassKnows(r, h)
  /\ \A h \in Hours : (InWindow(h) /\ dirty[h] = 0) => rolled[h] = raw[h]

LEMMA SoundInit == Init => PassesSound
  BY DEF Init, PassesSound, PassKnows, None

LEMMA SoundStep ==
  ASSUME OneRoller, TypeOK, PassesSound, Next PROVE PassesSound'
<1> USE StatsRollupAssumption
<1>0. /\ now \in Int /\ Retention \in Int /\ Hours \subseteq Int
      /\ \A h \in Hours : raw[h] \in Nat /\ rolled[h] \in Nat /\ dirty[h] \in Nat
      /\ \A r \in Rollers : cutoff[r] \in Int
      /\ \A r \in Rollers, h \in Hours : keys[r][h] \in Nat /\ fresh[r][h] \in Nat
  BY DEF TypeOK, Hours
<1>1. ASSUME NEW h \in Hours, Ingest(h) \/ Symbolicate(h) PROVE PassesSound'
  <2>1. /\ raw' = [raw EXCEPT ![h] = @ + 1] /\ dirty' = [dirty EXCEPT ![h] = @ + 1]
        /\ UNCHANGED <<now, rolled, step, cutoff, keys, fresh>>
    BY <1>1 DEF Ingest, Symbolicate, MarkHour, rollerVars
  <2>2. dirty'[h] = dirty[h] + 1
    BY <2>1 DEF TypeOK
  <2>3. \A g \in Hours \ {h} : dirty'[g] = dirty[g] /\ raw'[g] = raw[g]
    BY <2>1 DEF TypeOK
  <2>4. ASSUME NEW r \in Rollers, NEW g \in Hours PROVE PassKnows(r, g)'
    <3>1. PassKnows(r, g)
      BY DEF PassesSound
    <3>2. CASE g = h
      BY <1>0, <2>1, <2>2, <3>1, <3>2 DEF PassKnows, InWindow
    <3>3. CASE g # h
      BY <1>0, <2>1, <2>3, <3>1, <3>3 DEF PassKnows, InWindow
    <3> QED BY <3>2, <3>3
  <2>5. \A g \in Hours : (InWindow(g)' /\ dirty'[g] = 0) => rolled'[g] = raw'[g]
    BY <1>0, <2>1, <2>2, <2>3 DEF PassesSound, InWindow
  <2>6. \A r \in Rollers : step'[r] = "started" => cutoff'[r] <= now' - Retention
    BY <2>1 DEF PassesSound
  <2> QED BY <2>4, <2>5, <2>6 DEF PassesSound
<1>2. ASSUME NEW h \in Hours, DropRaw(h) PROVE PassesSound'
  <2>1. /\ raw' = [raw EXCEPT ![h] = 0] /\ ~InWindow(h)
        /\ UNCHANGED <<now, rolled, dirty, step, cutoff, keys, fresh>>
    BY <1>0, <1>2 DEF DropRaw, rollerVars, InWindow
  <2>2. \A g \in Hours : InWindow(g)' => InWindow(g) /\ raw'[g] = raw[g]
    BY <2>1 DEF InWindow, TypeOK
  <2> QED BY <2>1, <2>2 DEF PassesSound, PassKnows
<1>3. CASE Tick
  <2>1. now' = now + 1 /\ UNCHANGED <<raw, rolled, dirty, step, cutoff, keys, fresh>>
    BY <1>3 DEF Tick, rollerVars
  <2>2. \A g \in Hours : InWindow(g)' => InWindow(g)
    <3>1. now \in Int /\ Retention \in Int /\ Hours \subseteq Int
      BY <1>0
    <3> QED BY <2>1, <3>1 DEF InWindow
  <2>3. \A r \in Rollers : cutoff[r] <= now - Retention => cutoff'[r] <= now' - Retention
    BY <1>0, <2>1
  <2> QED BY <2>1, <2>2, <2>3 DEF PassesSound, PassKnows
<1>4. ASSUME NEW r \in Rollers, StartRollup(r) PROVE PassesSound'
  <2>1. /\ step[r] = "idle" /\ step' = [step EXCEPT ![r] = "started"]
        /\ cutoff' = [cutoff EXCEPT ![r] = now - Retention]
        /\ UNCHANGED <<now, raw, rolled, dirty, keys, fresh>>
    BY <1>4 DEF StartRollup
  <2>2. \A q \in Rollers : q = r
    BY DEF OneRoller
  <2>3. \A h \in Hours : keys[r][h] = 0
    BY <2>1 DEF PassesSound, PassKnows
  <2>4. cutoff'[r] <= now' - Retention
    BY <1>0, <2>1 DEF TypeOK
  <2> QED BY <2>1, <2>2, <2>3, <2>4 DEF PassesSound, PassKnows, InWindow
<1>5. ASSUME NEW r \in Rollers, ReadKeys(r) PROVE PassesSound'
  <2>1. PICK S \in SUBSET Hours :
          /\ Newest(S)
          /\ keys' = [keys EXCEPT ![r] = [h \in Hours |-> IF h \in S THEN dirty[h] ELSE 0]]
          /\ step' = [step EXCEPT ![r] = IF S = {} THEN "idle" ELSE "read"]
    BY <1>5 DEF ReadKeys
  <2>2. step[r] = "started" /\ UNCHANGED <<now, raw, rolled, dirty, cutoff, fresh>>
    BY <1>5 DEF ReadKeys
  <2>3. \A q \in Rollers : q = r
    BY DEF OneRoller
  <2>4. \A h \in Hours : keys'[r][h] = (IF h \in S THEN dirty[h] ELSE 0)
    BY <2>1 DEF TypeOK
  <2>5. step'[r] = (IF S = {} THEN "idle" ELSE "read")
    BY <2>1 DEF TypeOK
  <2>6. cutoff[r] <= now - Retention
    BY <2>2 DEF PassesSound
  <2>7. \A h \in Hours : PassKnows(r, h)'
    BY <1>0, <2>2, <2>4, <2>5, <2>6 DEF PassKnows
  <2> QED BY <2>2, <2>3, <2>5, <2>7 DEF PassesSound, InWindow
<1>6. ASSUME NEW r \in Rollers, Compute(r) PROVE PassesSound'
  <2>1. /\ step[r] = "read" /\ step' = [step EXCEPT ![r] = "computed"]
        /\ fresh' = [fresh EXCEPT ![r] = [h \in Hours |-> IF h \in Todo(r) THEN raw[h] ELSE 0]]
        /\ UNCHANGED <<now, raw, rolled, dirty, cutoff, keys>>
    BY <1>6 DEF Compute
  <2>2. \A q \in Rollers : q = r
    BY DEF OneRoller
  <2>3. step'[r] = "computed" /\ \A h \in Todo(r) : fresh'[r][h] = raw[h]
    BY <2>1 DEF TypeOK, Todo, Batched
  <2>4. ASSUME NEW h \in Hours PROVE PassKnows(r, h)'
    <3>1. PassKnows(r, h)
      BY DEF PassesSound
    <3>2. (keys[r][h] # 0 /\ InWindow(h)) => h \in Todo(r)
      BY <1>0, <3>1 DEF PassKnows, InWindow, Todo, Batched
    <3> QED BY <2>1, <2>3, <3>1, <3>2 DEF PassKnows, InWindow
  <2> QED BY <2>1, <2>2, <2>3, <2>4 DEF PassesSound, InWindow
<1>7. ASSUME NEW r \in Rollers, Commit(r) PROVE PassesSound'
  <2>1. /\ step[r] = "computed" /\ step' = [step EXCEPT ![r] = "written"]
        /\ rolled' = [h \in Hours |-> IF h \in Todo(r) THEN fresh[r][h] ELSE rolled[h]]
        /\ UNCHANGED <<now, raw, dirty, cutoff, keys, fresh>>
    BY <1>7 DEF Commit
  <2>2. \A q \in Rollers : q = r
    BY DEF OneRoller
  <2>3. step'[r] = "written"
    BY <2>1 DEF TypeOK
  <2>4. ASSUME NEW h \in Hours PROVE PassKnows(r, h)'
    <3>1. PassKnows(r, h)
      BY DEF PassesSound
    <3>2. (keys[r][h] # 0 /\ InWindow(h)) => h \in Todo(r)
      BY <1>0, <3>1 DEF PassKnows, InWindow, Todo, Batched
    <3> QED BY <2>1, <2>3, <3>1, <3>2 DEF PassKnows, InWindow
  <2>5. \A h \in Hours : (InWindow(h)' /\ dirty'[h] = 0) => rolled'[h] = raw'[h]
    <3> SUFFICES ASSUME NEW h \in Hours, InWindow(h)', dirty'[h] = 0
                 PROVE  rolled'[h] = raw'[h]
      OBVIOUS
    <3>1. PassKnows(r, h)
      BY DEF PassesSound
    <3>2. keys[r][h] = 0
      BY <1>0, <2>1, <3>1 DEF PassKnows
    <3>3. h \notin Todo(r)
      BY <3>2 DEF Todo, Batched
    <3> QED BY <2>1, <3>3 DEF PassesSound, InWindow
  <2> QED BY <2>2, <2>3, <2>4, <2>5 DEF PassesSound
<1>8. ASSUME NEW r \in Rollers, Finish(r),
             \A h \in Hours : \/ dirty'[h] = dirty[h]
                              \/ keys[r][h] # 0 /\ dirty[h] = keys[r][h] /\ step[r] = "written"
      PROVE  PassesSound'
  <2>1. step'[r] = "idle" /\ (\A h \in Hours : keys'[r][h] = 0) /\ UNCHANGED <<now, raw, rolled>>
    BY <1>8 DEF Finish, TypeOK, None
  <2>2. \A q \in Rollers : q = r
    BY DEF OneRoller
  <2>3. \A h \in Hours : (InWindow(h)' /\ dirty'[h] = 0) => rolled'[h] = raw'[h]
    BY <1>8, <2>1 DEF PassesSound, PassKnows, InWindow
  <2> QED BY <2>1, <2>2, <2>3 DEF PassesSound, PassKnows
<1>9. ASSUME NEW r \in Rollers, ClearKeys(r) PROVE PassesSound'
  <2>1. \A h \in Hours : \/ dirty'[h] = dirty[h]
                         \/ keys[r][h] # 0 /\ dirty[h] = keys[r][h] /\ step[r] = "written"
    BY <1>9 DEF ClearKeys, Batched
  <2> QED BY <1>8, <1>9, <2>1 DEF ClearKeys
<1>10. ASSUME NEW r \in Rollers, FailRollup(r) PROVE PassesSound'
  BY <1>8, <1>10 DEF FailRollup
<1> QED
  BY <1>1, <1>2, <1>3, <1>4, <1>5, <1>6, <1>7, <1>9, <1>10 DEF Next

LEMMA SoundExact == ASSUME PassesSound PROVE ExactInWindow
  BY DEF PassesSound, ExactInWindow, View

LEMMA AlwaysSound == ASSUME OneRoller PROVE Spec => []PassesSound
<1>1. TypeOK /\ PassesSound /\ UNCHANGED vars => PassesSound'
  BY DEF PassesSound, PassKnows, InWindow, vars
<1>2. TypeOK /\ PassesSound /\ [Next]_vars => PassesSound'
  BY <1>1, SoundStep
<1> QED BY <1>2, SoundInit, TypeCorrect, PTL DEF Spec

\* ExactInWindow: inside the retention window the views show every committed
\* write, whatever late data, failures and hour changes a pass meets, provided
\* passes run one at a time.
THEOREM ExactWithOneRoller == ASSUME OneRoller PROVE Spec => []ExactInWindow
  BY AlwaysSound, SoundExact, PTL

-----------------------------------------------------------------------------
(* Refinement: the views implement ExactStats. *)

\* Shown(h): what ExactStats is told of hour h.
Shown(h) == IF InWindow(h) THEN View(h) ELSE -1

LEMMA ExactInit == Init => Exact!Init
<1> SUFFICES ASSUME Init PROVE [h \in Hours |-> Shown(h)] = [h \in Hours |-> 0]
  BY DEF Exact!Init, Shown
<1>1. \A h \in Hours : Shown(h) = 0
  BY StatsRollupAssumption DEF Init, Shown, InWindow, View, Hours, None
<1> QED BY <1>1

\* Exact views show the raw rows of the window, before and after a step; so a
\* write counts once, and what a pass or a failure does changes nothing.
LEMMA ExactStep ==
  ASSUME TypeOK, ExactInWindow, ExactInWindow', Next
  PROVE  [Exact!Next]_([h \in Hours |-> Shown(h)])
<1> USE StatsRollupAssumption
<1> DEFINE content == [h \in Hours |-> Shown(h)]
<1>0. /\ now \in Int /\ Retention \in Int /\ Hours \subseteq Int
      /\ \A h \in Hours : raw[h] \in Nat
      /\ \A h \in Hours : Shown(h) = IF InWindow(h) THEN raw[h] ELSE -1
      /\ \A h \in Hours : Shown(h)' = IF InWindow(h)' THEN raw'[h] ELSE -1
  BY DEF TypeOK, Hours, Shown, ExactInWindow
<1>1. ASSUME NEW h \in Hours, Ingest(h) \/ Symbolicate(h)
      PROVE  Exact!Write(h) \/ UNCHANGED content
  <2>1. now' = now /\ raw' = [raw EXCEPT ![h] = @ + 1]
    BY <1>1 DEF Ingest, Symbolicate
  <2>2. raw'[h] = raw[h] + 1 /\ \A g \in Hours \ {h} : raw'[g] = raw[g]
    BY <2>1 DEF TypeOK
  <2>3. \A g \in Hours : InWindow(g)' <=> InWindow(g)
    BY <2>1 DEF InWindow
  <2>4. CASE InWindow(h)
    <3>1. Shown(h) # -1 /\ Shown(h)' = Shown(h) + 1
      BY <1>0, <2>2, <2>3, <2>4
    <3>2. \A g \in Hours \ {h} : Shown(g)' = Shown(g)
      BY <1>0, <2>2, <2>3
    <3>3. content' = [content EXCEPT ![h] = @ + 1] /\ content[h] # -1
      BY <3>1, <3>2
    <3> QED BY <3>3 DEF Exact!Write, Shown
  <2>5. CASE ~InWindow(h)
    <3>1. \A g \in Hours : Shown(g)' = Shown(g)
      BY <1>0, <2>2, <2>3, <2>5
    <3> QED BY <3>1
  <2> QED BY <2>4, <2>5
<1>2. ASSUME Tick PROVE Exact!Next
  <2>1. now' = now + 1 /\ raw' = raw
    BY <1>2 DEF Tick
  <2>2. \A g \in Hours : InWindow(g)' => InWindow(g)
    BY <1>0, <2>1 DEF InWindow
  <2> DEFINE S == {g \in Hours : ~InWindow(g)'}
  <2>3. \A g \in Hours : Shown(g)' = IF g \in S THEN -1 ELSE Shown(g)
    BY <1>0, <2>1, <2>2
  <2>4. content' = [g \in Hours |-> IF g \in S THEN -1 ELSE content[g]]
    BY <2>3
  <2>5. Exact!Leave(S)
    BY <2>4 DEF Exact!Leave, Shown
  <2>6. S \in SUBSET Hours
    OBVIOUS
  <2> HIDE DEF S
  <2> QED BY <2>5, <2>6 DEF Exact!Next
<1>3. ASSUME now' = now, \A h \in Hours : InWindow(h) => raw'[h] = raw[h]
      PROVE  UNCHANGED content
  <2>1. \A g \in Hours : InWindow(g)' <=> InWindow(g)
    BY <1>3 DEF InWindow
  <2>2. \A g \in Hours : Shown(g)' = Shown(g)
    BY <1>0, <1>3, <2>1
  <2> QED BY <2>2
<1>4. ASSUME NEW h \in Hours, DropRaw(h) PROVE UNCHANGED content
  <2>1. now' = now /\ ~InWindow(h) /\ raw' = [raw EXCEPT ![h] = 0]
    BY <1>0, <1>4 DEF DropRaw, InWindow
  <2>2. \A g \in Hours : InWindow(g) => raw'[g] = raw[g]
    BY <2>1 DEF TypeOK
  <2> QED BY <1>3, <2>1, <2>2
<1>5. ASSUME NEW r \in Rollers,
             StartRollup(r) \/ ReadKeys(r) \/ Compute(r) \/ Commit(r) \/ ClearKeys(r) \/ FailRollup(r)
      PROVE  UNCHANGED content
  <2>1. now' = now /\ raw' = raw
    BY <1>5 DEF StartRollup, ReadKeys, Compute, Commit, ClearKeys, FailRollup, Finish
  <2> QED BY <1>3, <2>1
<1>6. Exact!Next \/ UNCHANGED content
  <2>1. ASSUME NEW h \in Hours, Ingest(h) \/ Symbolicate(h) PROVE Exact!Next \/ UNCHANGED content
    BY <1>1, <2>1 DEF Exact!Next
  <2> QED BY <1>2, <1>4, <1>5, <2>1 DEF Next
<1> QED BY <1>6

\* ExactSpec: with one roller the views implement ExactStats: an hour's
\* statistics change with a committed write to it and with nothing else until
\* it leaves the retention window.
THEOREM ViewsImplementExactStats == ASSUME OneRoller PROVE Spec => ExactSpec
<1>1. ASSUME TypeOK, ExactInWindow, ExactInWindow', [Next]_vars
      PROVE  [Exact!Next]_([h \in Hours |-> Shown(h)])
  <2>1. CASE Next
    BY <1>1, <2>1, ExactStep
  <2>2. CASE UNCHANGED vars
    BY <2>2 DEF vars, Shown, InWindow, View
  <2> QED BY <1>1, <2>1, <2>2
<1> QED
  BY <1>1, ExactInit, ExactWithOneRoller, TypeCorrect, PTL DEF Spec, ExactSpec, Exact!Spec, Shown
-----------------------------------------------------------------------------
(* The rolled history, with any number of rollers at a time.                 *)

\* Inside the window the rolled rows never count more writes than there are,
\* nor more than a recompute under way is about to store; two recomputes of
\* one hour exclude each other.
HistoryBelow ==
  /\ \A h \in Hours : InWindow(h) => rolled[h] <= raw[h]
  /\ \A r \in Rollers : step[r] = "computed" =>
       \A h \in Todo(r) : InWindow(h) => rolled[h] <= fresh[r][h] /\ fresh[r][h] <= raw[h]
  /\ \A q, r \in Rollers :
       (q # r /\ step[q] = "computed" /\ step[r] = "computed") => Todo(q) \cap Todo(r) = {}

LEMMA BelowInit == Init => HistoryBelow
  BY DEF Init, HistoryBelow, None

\* A step that leaves the recomputes alone and shrinks no window hour.
LEMMA BelowWrites ==
  ASSUME HistoryBelow, UNCHANGED <<rolled, step, cutoff, keys, fresh>>, TypeOK, TypeOK',
         \A h \in Hours : InWindow(h)' => InWindow(h) /\ raw[h] <= raw'[h]
  PROVE  HistoryBelow'
<1>1. \A r \in Rollers : Todo(r)' = Todo(r) /\ Todo(r) \subseteq Hours
  BY DEF Todo, Batched
<1>2. \A h \in Hours : raw[h] \in Nat /\ raw'[h] \in Nat /\ rolled[h] \in Nat
  BY StatsRollupAssumption DEF TypeOK
<1>3. \A r \in Rollers, h \in Hours : fresh[r][h] \in Nat
  BY StatsRollupAssumption DEF TypeOK
<1> QED BY <1>1, <1>2, <1>3 DEF HistoryBelow

\* A step of r that is neither a recompute nor its commit.
LEMMA BelowPass ==
  ASSUME HistoryBelow, TypeOK, NEW r \in Rollers, UNCHANGED <<now, raw, rolled>>,
         step'[r] # "computed",
         \A q \in Rollers \ {r} : /\ step'[q] = step[q] /\ cutoff'[q] = cutoff[q]
                                  /\ keys'[q] = keys[q] /\ fresh'[q] = fresh[q]
  PROVE  HistoryBelow'
<1>1. \A q \in Rollers \ {r} : Todo(q)' = Todo(q) /\ Todo(q) \subseteq Hours
  BY DEF Todo, Batched
<1> QED BY <1>1 DEF HistoryBelow, InWindow

LEMMA BelowStep == ASSUME TypeOK, TypeOK', HistoryBelow, Next PROVE HistoryBelow'
<1> USE StatsRollupAssumption
<1>0. /\ now \in Int /\ Retention \in Int /\ Hours \subseteq Int
      /\ \A h \in Hours : raw[h] \in Nat /\ rolled[h] \in Nat
  <2>1. Hours \subseteq Int /\ Retention \in Int
    BY DEF Hours
  <2>2. \A h \in Hours : raw[h] \in 0..MaxWrites /\ rolled[h] \in 0..MaxWrites
    BY DEF TypeOK
  <2> QED BY <2>1, <2>2 DEF TypeOK
<1>1. ASSUME NEW h \in Hours, Ingest(h) \/ Symbolicate(h) PROVE HistoryBelow'
  <2>1. raw' = [raw EXCEPT ![h] = @ + 1] /\ UNCHANGED <<now, rolled, step, cutoff, keys, fresh>>
    BY <1>1 DEF Ingest, Symbolicate, rollerVars
  <2>2. \A g \in Hours : InWindow(g)' => InWindow(g) /\ raw[g] <= raw'[g]
    BY <1>0, <2>1 DEF InWindow, TypeOK
  <2> QED BY <2>1, <2>2, BelowWrites
<1>2. ASSUME NEW h \in Hours, DropRaw(h) PROVE HistoryBelow'
  <2>1. /\ raw' = [raw EXCEPT ![h] = 0] /\ ~InWindow(h)
        /\ UNCHANGED <<now, rolled, step, cutoff, keys, fresh>>
    BY <1>0, <1>2 DEF DropRaw, rollerVars, InWindow
  <2>2. \A g \in Hours : InWindow(g)' => InWindow(g) /\ raw[g] <= raw'[g]
    BY <1>0, <2>1 DEF InWindow, TypeOK
  <2> QED BY <2>1, <2>2, BelowWrites
<1>3. CASE Tick
  <2>1. now' = now + 1 /\ UNCHANGED <<raw, rolled, step, cutoff, keys, fresh>>
    BY <1>3 DEF Tick, rollerVars
  <2>2. \A g \in Hours : InWindow(g)' => InWindow(g) /\ raw[g] <= raw'[g]
    BY <1>0, <2>1 DEF InWindow
  <2> QED BY <2>1, <2>2, BelowWrites
<1>4. ASSUME NEW r \in Rollers, StartRollup(r) PROVE HistoryBelow'
  <2>1. /\ UNCHANGED <<now, raw, rolled>> /\ step'[r] # "computed"
        /\ \A q \in Rollers \ {r} : /\ step'[q] = step[q] /\ cutoff'[q] = cutoff[q]
                                   /\ keys'[q] = keys[q] /\ fresh'[q] = fresh[q]
    BY <1>4 DEF StartRollup, TypeOK
  <2> QED BY <2>1, BelowPass
<1>5. ASSUME NEW r \in Rollers, ReadKeys(r) PROVE HistoryBelow'
  <2>1. /\ UNCHANGED <<now, raw, rolled>> /\ step'[r] # "computed"
        /\ \A q \in Rollers \ {r} : /\ step'[q] = step[q] /\ cutoff'[q] = cutoff[q]
                                   /\ keys'[q] = keys[q] /\ fresh'[q] = fresh[q]
    BY <1>5 DEF ReadKeys, TypeOK
  <2> QED BY <2>1, BelowPass
<1>6. ASSUME NEW r \in Rollers, Compute(r) PROVE HistoryBelow'
  <2>1. /\ step' = [step EXCEPT ![r] = "computed"]
        /\ fresh' = [fresh EXCEPT ![r] = [h \in Hours |-> IF h \in Todo(r) THEN raw[h] ELSE 0]]
        /\ \A q \in Rollers : step[q] = "computed" => Todo(q) \cap Todo(r) = {}
        /\ step[r] = "read"
        /\ UNCHANGED <<now, raw, rolled, cutoff, keys>>
    BY <1>6 DEF Compute
  <2>2. \A q \in Rollers : Todo(q)' = Todo(q) /\ Todo(q) \subseteq Hours
    BY <2>1 DEF Todo, Batched
  <2>3. \A h \in Todo(r) : fresh'[r][h] = raw[h]
    BY <2>1, <2>2 DEF TypeOK
  <2>4. \A q \in Rollers \ {r} : step'[q] = step[q] /\ fresh'[q] = fresh[q]
    BY <2>1 DEF TypeOK
  <2>5. \A q \in Rollers : step'[q] = "computed" =>
          \A h \in Todo(q)' : InWindow(h)' =>
            rolled'[h] <= fresh'[q][h] /\ fresh'[q][h] <= raw'[h]
    <3>1. ASSUME NEW h \in Todo(r), InWindow(h)
          PROVE  rolled[h] <= fresh'[r][h] /\ fresh'[r][h] <= raw[h]
      <4>1. h \in Hours /\ fresh'[r][h] = raw[h]
        BY <2>2, <2>3, <3>1
      <4>2. rolled[h] <= raw[h]
        BY <3>1, <4>1 DEF HistoryBelow
      <4>3. raw[h] <= raw[h]
        BY <1>0, <4>1
      <4> QED BY <4>1, <4>2, <4>3
    <3> QED BY <2>1, <2>2, <2>4, <3>1 DEF HistoryBelow, InWindow
  <2> QED BY <2>1, <2>2, <2>4, <2>5 DEF HistoryBelow, InWindow
<1>7. ASSUME NEW r \in Rollers, Commit(r) PROVE HistoryBelow'
  <2>1. /\ step[r] = "computed" /\ step' = [step EXCEPT ![r] = "written"]
        /\ rolled' = [h \in Hours |-> IF h \in Todo(r) THEN fresh[r][h] ELSE rolled[h]]
        /\ UNCHANGED <<now, raw, cutoff, keys, fresh>>
    BY <1>7 DEF Commit
  <2>2. \A q \in Rollers : Todo(q)' = Todo(q) /\ Todo(q) \subseteq Hours
    BY <2>1 DEF Todo, Batched
  <2>3. step'[r] = "written" /\ \A q \in Rollers \ {r} : step'[q] = step[q]
    BY <2>1 DEF TypeOK
  <2>4. \A h \in Hours : InWindow(h)' => rolled'[h] <= raw'[h]
    BY <2>1 DEF HistoryBelow, InWindow
  <2>5. \A q \in Rollers \ {r} : step[q] = "computed" => \A h \in Todo(q) : rolled'[h] = rolled[h]
    BY <2>1, <2>2 DEF HistoryBelow
  <2> QED BY <2>1, <2>2, <2>3, <2>4, <2>5 DEF HistoryBelow, InWindow
<1>8. ASSUME NEW r \in Rollers, ClearKeys(r) \/ FailRollup(r) PROVE HistoryBelow'
  <2>1. Finish(r)
    BY <1>8 DEF ClearKeys, FailRollup
  <2>2. /\ UNCHANGED <<now, raw, rolled>> /\ step'[r] # "computed"
        /\ \A q \in Rollers \ {r} : /\ step'[q] = step[q] /\ cutoff'[q] = cutoff[q]
                                   /\ keys'[q] = keys[q] /\ fresh'[q] = fresh[q]
    BY <2>1 DEF Finish, TypeOK
  <2> QED BY <2>2, BelowPass
<1> QED
  BY <1>1, <1>2, <1>3, <1>4, <1>5, <1>6, <1>7, <1>8 DEF Next

LEMMA BelowKeeps ==
  ASSUME TypeOK, HistoryBelow, Next, NEW h \in Hours, rolled'[h] < rolled[h]
  PROVE  \E r \in Rollers : Straddling(r)
<1>0. /\ now \in Int /\ Retention \in Int /\ Hours \subseteq Int /\ h \in Int
      /\ rolled[h] \in Nat
  BY StatsRollupAssumption DEF TypeOK, Hours
<1>1. ~(rolled[h] < rolled[h])
  BY <1>0
<1>2. rolled' # rolled
  BY <1>1
<1>3. PICK r \in Rollers : Commit(r)
  BY <1>2 DEF Next, Ingest, Symbolicate, DropRaw, Tick, StartRollup, ReadKeys, Compute,
              ClearKeys, FailRollup, Finish
<1>4. /\ step[r] = "computed" /\ h \in Todo(r) /\ rolled'[h] = fresh[r][h]
  BY <1>1, <1>3 DEF Commit
<1>5. ASSUME cutoff[r] = now - Retention PROVE FALSE
  <2>1. InWindow(h)
    BY <1>0, <1>4, <1>5 DEF Todo, InWindow
  <2>2. rolled[h] <= fresh[r][h]
    BY <1>4, <2>1 DEF HistoryBelow
  <2>3. fresh[r][h] \in Nat
    BY StatsRollupAssumption DEF TypeOK
  <2> QED BY <1>0, <1>4, <2>2, <2>3
<1> QED BY <1>4, <1>5 DEF Straddling

\* HistoryKept: however many passes overlap, fail or run late, the rolled rows
\* of an hour lose a write only to a pass whose cutoff an hour change outdated.
THEOREM HistoryIsKept == Spec => HistoryKept
<1>1. TypeOK /\ TypeOK' /\ HistoryBelow /\ [Next]_vars => HistoryBelow'
  <2>1. ASSUME TypeOK, TypeOK', HistoryBelow, UNCHANGED vars PROVE HistoryBelow'
    BY <2>1 DEF HistoryBelow, InWindow, Todo, Batched, vars
  <2> QED BY <2>1, BelowStep
<1>2. TypeOK /\ HistoryBelow /\ [Next]_vars =>
        [\A h \in Hours : rolled'[h] < rolled[h] => \E r \in Rollers : Straddling(r)]_vars
  BY BelowKeeps
<1> QED BY <1>1, <1>2, BelowInit, TypeCorrect, PTL DEF Spec, HistoryKept
=============================================================================
