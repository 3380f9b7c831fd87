---------------------------- MODULE Timers_proofs ----------------------------
(***************************************************************************)
(* Proofs about the timers, for any cards, keys, durations, limits and     *)
(* movements of the clock: one run per card, an end that fits its          *)
(* deadline, one effect per key, and that what a run became stays, in the  *)
(* history and on the screens.  The invariants are inductive but for two   *)
(* facts: runs are numbered in the order they start (Numbered), so that a  *)
(* start overwrites none, and a key without answer has touched nothing     *)
(* (Tied).                                                                 *)
(***************************************************************************)
EXTENDS Timers, FiniteSetTheorems, WellFoundedInduction, TLAPS

Numbered == \E n \in 0..MaxRuns : \A t \in Runs : state[t] # "none" <=> t <= n

Tied == \A k \in Keys : answer[k] = 0 => touched[k] = {}

IInv == TimersInv /\ EffectOnce /\ Numbered /\ Tied

Kept3(t) == /\ state[t] = "running" => ended[t] = Never
            /\ state[t] = "expired" => ended[t] = due[t]
            /\ state[t] = "stopped" => ended[t] < due[t]

-----------------------------------------------------------------------------
(* Numbers and expiry.                                                     *)

\* Runs are finitely many numbers.
LEMMA RunsFinite == IsFiniteSet(Runs) /\ Runs \subseteq Int /\ MaxRuns \in Nat
<1>1. MaxRuns \in Nat
  BY TimerAssumption
<1>2. IsFiniteSet(1..MaxRuns)
  BY <1>1, FS_Interval
<1> QED
  BY <1>1, <1>2 DEF Runs

\* Of any runs there is a newest one.
LEMMA Newest ==
    ASSUME NEW A \in SUBSET Runs, A # {}
    PROVE  \E m \in A : \A r \in A : r <= m
<1> DEFINE From(m) == {r \in A : r >= m}
           T == {From(m) : m \in A}
<1>1. A \subseteq Int
  BY RunsFinite
<1>2. IsFiniteSet(A)
  BY RunsFinite, FS_Subset
<1>3. IsWellFoundedOn(StrictSubsetOrdering(A), SUBSET A)
  BY <1>2, FS_StrictSubsetOrderingWellFounded, FS_FiniteSubsetsOfFinite
<1>4. T \subseteq SUBSET A /\ T # {}
  OBVIOUS
<1>5. PICK x \in T : \A y \in T : <<y, x>> \notin StrictSubsetOrdering(A)
  <2> HIDE DEF T
  <2> QED
    BY <1>3, <1>4, WFMin, Zenon
<1>6. PICK m \in A : x = From(m)
  BY <1>5
<1>7. ASSUME NEW r \in A, ~(r <= m) PROVE FALSE
  <2>0. r \in Int /\ m \in Int /\ m < r
    BY <1>1, <1>7
  <2>01. ASSUME NEW y \in A, y >= r PROVE y >= m
    <3>1. y \in Int
      BY <1>1
    <3> QED
      BY <2>0, <2>01, <3>1
  <2>1. m \in From(m) /\ m \notin From(r)
    <3>1. m >= m /\ ~(m >= r)
      BY <2>0
    <3> QED
      BY <3>1, Zenon
  <2>11. From(r) \subseteq From(m)
    BY <2>01, Zenon
  <2>2. From(r) \in T
    OBVIOUS
  <2> QED
    BY <1>4, <1>5, <1>6, <2>1, <2>11, <2>2 DEF StrictSubsetOrdering
<1> QED
  BY <1>7

\* A run with as many before it as another one is that one.
LEMMA Rank ==
    ASSUME NEW S \in SUBSET Runs, NEW s \in S, NEW t \in S,
           Cardinality({r \in S : r < s}) = Cardinality({r \in S : r < t})
    PROVE  s = t
<1>0. S \subseteq Int
  BY RunsFinite
<1>1. IsFiniteSet(S)
  BY RunsFinite, FS_Subset
<1>2. ASSUME NEW a \in S, NEW b \in S, a < b
      PROVE  Cardinality({r \in S : r < a}) # Cardinality({r \in S : r < b})
  <2> DEFINE A == {r \in S : r < a}
             B == {r \in S : r < b}
  <2>0. a \in Int /\ b \in Int /\ a < b
    BY <1>0, <1>2
  <2>01. ASSUME NEW y \in S, y < a PROVE y < b
    <3>1. y \in Int
      BY <1>0
    <3> QED
      BY <2>0, <2>01, <3>1
  <2>1. a \in B /\ a \notin A
    <3>1. ~(a < a)
      BY <2>0
    <3> QED
      BY <2>0, <3>1, Zenon
  <2>11. A \subseteq B
    BY <2>01, Zenon
  <2>2. IsFiniteSet(B)
    BY <1>1, FS_Subset
  <2> QED
    BY <2>1, <2>11, <2>2, FS_Subset
<1>3. s \in Int /\ t \in Int
  BY DEF Runs
<1> QED
  BY <1>2, <1>3

\* The run a start inserts is new, and the next one.
LEMMA NextRun ==
    ASSUME Numbered, NEW s \in Runs, s = Cardinality({t \in Runs : state[t] # "none"}) + 1
    PROVE  \A t \in Runs : state[t] # "none" <=> t < s
<1>0. MaxRuns \in Nat
  BY TimerAssumption
<1>1. PICK n \in 0..MaxRuns : \A t \in Runs : state[t] # "none" <=> t <= n
  BY DEF Numbered
<1> DEFINE St == {t \in Runs : state[t] # "none"}
<1>2. St = 1..n /\ s = Cardinality(St) + 1
  BY <1>0, <1>1 DEF Runs
<1> HIDE DEF St
<1>3. Cardinality(1..n) = n
  <2>1. n \in Int /\ 1 \in Int /\ n >= 0
    BY <1>0
  <2>2. Cardinality(1..n) = IF 1 > n THEN 0 ELSE n - 1 + 1
    BY <2>1, FS_Interval
  <2> QED
    BY <2>1, <2>2
<1>4. s = n + 1 /\ n \in Nat
  BY <1>0, <1>2, <1>3
<1> QED
  BY <1>1, <1>4 DEF Runs

\* What expiry at some time does to each run.
LEMMA Expiry ==
    ASSUME TypeOK, NEW at \in Int
    PROVE  /\ Expired(at) \in [Runs -> RunState]
           /\ EndedAt(at) \in [Runs -> Nat \union {Never}]
           /\ \A t \in Runs :
                /\ t \in Going(at) <=> state[t] = "running" /\ due[t] > at
                /\ Expired(at)[t] = IF state[t] = "running" /\ due[t] <= at
                                    THEN "expired" ELSE state[t]
                /\ EndedAt(at)[t] = IF state[t] = "running" /\ due[t] <= at
                                    THEN due[t] ELSE ended[t]
<1>1. \A t \in Runs : /\ t \in Due(at) <=> state[t] = "running" /\ due[t] <= at
                      /\ due[t] \in Nat /\ ended[t] \in Nat \union {Never}
                      /\ state[t] \in RunState
  BY DEF Due, Running, TypeOK
<1>2. \A t \in Runs : t \in Going(at) <=> state[t] = "running" /\ due[t] > at
  BY <1>1 DEF Going, Running
<1>3. "expired" \in RunState
  BY DEF RunState
<1> QED
  BY <1>1, <1>2, <1>3 DEF Expired, EndedAt

\* EndedRight, run by run.
LEMMA EndedRightIs == EndedRight <=> \A t \in Runs : Kept3(t)
  BY DEF EndedRight, Kept3, Known, Kept

\* A card is placed only once, and is a card.
LEMMA PlacedCards ==
    ASSUME TypeOK
    PROVE  /\ Placed \subseteq Widgets /\ NoWidget \notin Placed
           /\ \A i \in DOMAIN layout : layout[i] \in Placed /\ i \in Int
  BY TimerAssumption DEF TypeOK, Placed

\* The card of a timer that keeps running is busy.
LEMMA BusyIs ==
    ASSUME TypeOK, NEW at \in Int, NEW t \in Runs, t \in Going(at)
    PROVE  slot[t] \in Busy(at)
  BY DEF Busy

-----------------------------------------------------------------------------
(* Start.                                                                  *)

\* What a start writes, run by run: s is new, the other runs are expired if
\* due, or pruned when ended and not retained.
StartWrites(k, v, s) ==
  /\ s \in Runs /\ v \in Slots /\ k \in Keys
  /\ \A t \in Runs : state[t] # "none" <=> t < s
  /\ v # NoWidget => v \in Placed /\ v \notin Busy(clock)
  /\ due'[s] \in Nat
  /\ state'[s] = "running" /\ slot'[s] = v /\ ended'[s] = Never
  /\ \A t \in Runs \ {s} :
       /\ slot'[t] = slot[t] /\ due'[t] = due[t] /\ ended'[t] = EndedAt(clock)[t]
       /\ \/ state'[t] = Expired(clock)[t]
          \/ /\ state'[t] = "pruned"
             /\ t \in Known \ (Retained(s, v) \union Going(clock))
       /\ t \in Retained(s, v) => state'[t] = Expired(clock)[t]

\* What a start is given is a placed idle card, or none.
LEMMA AllocationIs ==
    ASSUME TypeOK, NEW w \in Slots, NEW v \in Allocation(w)
    PROVE  v \in Slots /\ (v # NoWidget => v \in Placed /\ v \notin Busy(clock))
<1>1. CASE w # NoWidget
  BY <1>1, PlacedCards DEF Allocation, Slots
<1>2. CASE w = NoWidget /\ layout = <<>>
  BY <1>2 DEF Allocation, Slots
<1>3. CASE w = NoWidget /\ layout # <<>>
  <2>1. PICK i \in DOMAIN layout : v = layout[i] /\ layout[i] \notin Busy(clock)
    BY <1>3 DEF Allocation
  <2> QED
    BY <2>1, PlacedCards DEF Slots
<1> QED
  BY <1>1, <1>2, <1>3

\* Start writes what StartWrites says, with values of their types.
LEMMA StartIs ==
    ASSUME IInv, NEW k \in Keys, NEW w \in Slots, NEW d \in Durations, Start(k, w, d)
    PROVE  \E v \in Slots, s \in Runs :
             /\ StartWrites(k, v, s)
             /\ state' \in [Runs -> RunState] /\ slot' \in [Runs -> Slots]
             /\ due' \in [Runs -> Nat] /\ ended' \in [Runs -> Nat \union {Never}]
             /\ answer[k] = 0
             /\ answer' = [answer EXCEPT ![k] = s]
             /\ touched' = [touched EXCEPT ![k] = @ \union {s}]
<1> USE DEF IInv, TimersInv
<1>1. PICK v \in Allocation(w), s \in Runs :
        /\ s = Cardinality({t \in Runs : state[t] # "none"}) + 1
        /\ state' = [t \in Runs |->
             IF t = s THEN "running"
             ELSE IF t \in Known \ (Retained(s, v) \union Going(clock)) THEN "pruned"
             ELSE Expired(clock)[t]]
        /\ slot' = [slot EXCEPT ![s] = v]
        /\ due' = [due EXCEPT ![s] = clock + d]
        /\ ended' = [EndedAt(clock) EXCEPT ![s] = Never]
        /\ answer' = [answer EXCEPT ![k] = s]
        /\ touched' = [touched EXCEPT ![k] = @ \union {s}]
  BY DEF Start
<1>2. v \in Slots /\ (v # NoWidget => v \in Placed /\ v \notin Busy(clock))
  BY AllocationIs
<1>3. \A t \in Runs : state[t] # "none" <=> t < s
  BY <1>1, NextRun
<1>4. clock \in Nat /\ clock + d \in Nat /\ clock \in Int
  BY TimerAssumption DEF TypeOK
<1>5. /\ Expired(clock) \in [Runs -> RunState]
      /\ EndedAt(clock) \in [Runs -> Nat \union {Never}]
  BY <1>4, Expiry
<1>6. state' \in [Runs -> RunState]
  BY <1>1, <1>5 DEF RunState
<1>7. slot' \in [Runs -> Slots] /\ due' \in [Runs -> Nat] /\ ended' \in [Runs -> Nat \union {Never}]
  BY <1>1, <1>2, <1>4, <1>5 DEF TypeOK
<1>8. answer[k] = 0
  BY DEF Start, NewKey
<1>9. state'[s] = "running" /\ slot'[s] = v /\ ended'[s] = Never /\ due'[s] \in Nat
  BY <1>1, <1>4, <1>5 DEF TypeOK
<1>10. ASSUME NEW t \in Runs \ {s}
       PROVE  /\ slot'[t] = slot[t] /\ due'[t] = due[t] /\ ended'[t] = EndedAt(clock)[t]
              /\ \/ state'[t] = Expired(clock)[t]
                 \/ /\ state'[t] = "pruned"
                    /\ t \in Known \ (Retained(s, v) \union Going(clock))
              /\ t \in Retained(s, v) => state'[t] = Expired(clock)[t]
  BY <1>1, <1>5, <1>10 DEF TypeOK
<1> QED
  BY <1>1, <1>2, <1>3, <1>6, <1>7, <1>8, <1>9, <1>10 DEF StartWrites

\* A key that had no answer and had touched nothing touches at most the run
\* it is answered with.
LEMMA KeyOnce ==
    ASSUME TypeOK, EffectOnce, Tied, NEW k \in Keys, answer[k] = 0,
           NEW s \in Runs, NEW X \in SUBSET {s},
           answer' = [answer EXCEPT ![k] = s],
           touched' = [touched EXCEPT ![k] = @ \union X]
    PROVE  /\ EffectOnce' /\ Tied'
           /\ answer' \in [Keys -> 0..MaxRuns] /\ touched' \in [Keys -> SUBSET Runs]
<1>0. s \in 0..MaxRuns /\ s # 0 /\ MaxRuns \in Nat
  BY RunsFinite DEF Runs
<1>1. answer' \in [Keys -> 0..MaxRuns] /\ touched' \in [Keys -> SUBSET Runs]
  BY <1>0 DEF TypeOK
<1>2. touched[k] = {}
  BY DEF Tied
<1>3. touched'[k] = X /\ answer'[k] = s
  BY <1>2 DEF TypeOK
<1>4. \A q \in Keys \ {k} : touched'[q] = touched[q] /\ answer'[q] = answer[q]
  BY DEF TypeOK
<1>5. X = {} \/ X = {s}
  OBVIOUS
<1>6. Cardinality(X) <= 1
  <2>1. Cardinality({}) = 0 /\ Cardinality({s}) = 1
    BY FS_Singleton, FS_EmptySet, Zenon
  <2> QED
    BY <1>5, <2>1
<1>7. EffectOnce'
  BY <1>3, <1>4, <1>5, <1>6 DEF EffectOnce
<1>8. Tied'
  BY <1>0, <1>3, <1>4 DEF Tied
<1> QED
  BY <1>1, <1>7, <1>8

\* A start puts no second running timer on a card.
LEMMA StartOne ==
    ASSUME TypeOK, OneRunPerCard, NEW k, NEW v, NEW s, StartWrites(k, v, s)
    PROVE  OneRunPerCard'
<1> DEFINE Runs2 == {t \in Runs : state'[t] = "running"}
<1>0. clock \in Int
  BY TimerAssumption DEF TypeOK
<1>1. ASSUME NEW t \in Runs \ {s}, state'[t] = "running"
      PROVE  t \in Going(clock) /\ t \in Running /\ slot'[t] = slot[t]
             /\ slot[t] \in Busy(clock)
  <2>1. state'[t] = Expired(clock)[t] /\ slot'[t] = slot[t]
    BY <1>1 DEF StartWrites
  <2>2. t \in Going(clock) /\ t \in Running
    BY <1>0, <1>1, <2>1, Expiry DEF Running, TypeOK
  <2> QED
    BY <1>0, <2>1, <2>2, BusyIs
<1>2. slot'[s] = v /\ (v # NoWidget => v \notin Busy(clock))
  BY DEF StartWrites
<1>3. ASSUME NEW a \in Runs, NEW b \in Runs, state'[a] = "running", state'[b] = "running",
             slot'[a] = slot'[b], slot'[a] # NoWidget
      PROVE  a = b
  <2>1. CASE a # s /\ b # s
    BY <1>1, <1>3, <2>1 DEF OneRunPerCard
  <2>2. CASE a = s /\ b # s
    BY <1>1, <1>2, <1>3, <2>2
  <2>3. CASE a # s /\ b = s
    BY <1>1, <1>2, <1>3, <2>3
  <2> QED
    BY <2>1, <2>2, <2>3
<1> QED
  BY <1>3 DEF OneRunPerCard, Running

\* A start expires what is due at its deadline.
LEMMA StartEnded ==
    ASSUME TypeOK, EndedRight, NEW k, NEW v, NEW s, StartWrites(k, v, s)
    PROVE  EndedRight'
<1>0. clock \in Int
  BY TimerAssumption DEF TypeOK
<1>1. ASSUME NEW t \in Runs PROVE Kept3(t)'
  <2>1. CASE t = s
    BY <2>1 DEF StartWrites, Kept3
  <2>2. CASE t # s
    <3>1. ended'[t] = EndedAt(clock)[t] /\ due'[t] = due[t]
          /\ (state'[t] = Expired(clock)[t] \/ state'[t] = "pruned")
      BY <2>2 DEF StartWrites
    <3>2. Kept3(t)
      BY EndedRightIs
    <3> QED
      BY <1>0, <3>1, <3>2, Expiry DEF Kept3
  <2> QED
    BY <2>1, <2>2
<1>2. EndedRight' <=> \A t \in Runs : Kept3(t)'
  BY DEF EndedRight, Kept3, Known, Kept
<1> QED
  BY <1>1, <1>2

\* What a page shows of a run, without the sets of rows.
LEMMA ShownIs ==
    ASSUME TypeOK, NEW at \in Int, clock = at, NEW t \in Runs
    PROVE  ShownAs(t) = IF state[t] = "running" /\ due[t] <= at THEN "expired" ELSE state[t]
<1>1. t \in Due(clock) <=> state[t] = "running" /\ due[t] <= clock
  BY DEF Due, Running
<1> QED
  BY <1>1 DEF ShownAs

\* A run once shown expired stays so, unless a step stops a due run.
LEMMA StaysShown ==
    ASSUME TypeOK, TypeOK', RunStep,
           \A t \in Known : state[t] = "running" /\ due[t] <= clock =>
              state'[t] \in {"running", "expired", "pruned"}
    PROVE  ShownStep
<1>1. SUFFICES ASSUME clock' >= clock,
                      NEW t \in DOMAIN Snapshot \intersect DOMAIN Snapshot',
                      Snapshot[t] = "expired"
               PROVE  Snapshot'[t] = "expired"
  BY DEF ShownStep
<1>2. t \in Known /\ t \in Known' /\ t \in Runs
  BY DEF Snapshot, Known
<1>3. Snapshot[t] = ShownAs(t) /\ Snapshot'[t] = ShownAs(t)'
  BY <1>2 DEF Snapshot
<1>4. clock \in Int /\ clock' \in Int
  BY TimerAssumption DEF TypeOK
<1>5. ShownAs(t) = IF state[t] = "running" /\ due[t] <= clock THEN "expired" ELSE state[t]
  BY <1>2, <1>4, ShownIs
<1>6. ShownAs(t)' = IF state'[t] = "running" /\ due'[t] <= clock' THEN "expired" ELSE state'[t]
  <2>1. t \in Due(clock)' <=> state'[t] = "running" /\ due'[t] <= clock'
    BY <1>2 DEF Due, Running
  <2> QED
    BY <2>1 DEF ShownAs
<1>7. due[t] \in Nat /\ due'[t] = due[t] /\ state'[t] # "pruned"
  BY <1>2 DEF TypeOK, RunStep, Known, Kept
<1>8. CASE state[t] = "running" /\ due[t] <= clock
  <2>1. state'[t] = "running" \/ state'[t] = "expired"
    BY <1>2, <1>7, <1>8
  <2> QED
    BY <1>1, <1>3, <1>4, <1>6, <1>7, <1>8, <2>1
<1>9. CASE state[t] = "expired"
  <2>1. state'[t] = "expired"
    BY <1>2, <1>7, <1>9 DEF RunStep
  <2> QED
    BY <1>3, <1>6, <2>1
<1> QED
  BY <1>1, <1>3, <1>5, <1>8, <1>9

\* A start leaves existing runs as they were, but for expiry and pruning.
LEMMA StartRun ==
    ASSUME TypeOK, NEW k, NEW v, NEW s, StartWrites(k, v, s)
    PROVE  /\ RunStep
           /\ \A t \in Known : state[t] = "running" /\ due[t] <= clock =>
                state'[t] \in {"running", "expired", "pruned"}
<1>0. clock \in Int
  BY TimerAssumption DEF TypeOK
<1>1. ASSUME NEW t \in Known
      PROVE  /\ t \in Runs \ {s}
             /\ slot'[t] = slot[t] /\ due'[t] = due[t] /\ ended'[t] = EndedAt(clock)[t]
             /\ \/ state'[t] = Expired(clock)[t]
                \/ state'[t] = "pruned"
  <2>1. t \in Runs /\ state[t] # "none"
    BY DEF Known, Kept
  <2>2. t # s
    BY <2>1, RunsFinite DEF StartWrites
  <2> QED
    BY <2>1, <2>2 DEF StartWrites
<1>2. ASSUME NEW t \in Known, state[t] # "running"
      PROVE  state'[t] \in {state[t], "pruned"} /\ ended'[t] = ended[t]
  BY <1>0, <1>1, <1>2, Expiry
<1>3. ASSUME NEW t \in Known, state[t] = "running", due[t] <= clock
      PROVE  state'[t] \in {"running", "expired", "pruned"}
  BY <1>0, <1>1, <1>3, Expiry
<1> QED
  BY <1>1, <1>2, <1>3 DEF RunStep

\* A pruned run was not going; one of a placed card leaves a newer one there.
LEMMA StartLatest ==
    ASSUME TypeOK, NEW k, NEW v, NEW s, StartWrites(k, v, s)
    PROVE  LatestStep
<1>0. clock \in Int
  BY TimerAssumption DEF TypeOK
<1>1. SUFFICES ASSUME NEW p \in Known, state'[p] = "pruned"
               PROVE  /\ p \notin Going(clock)
                      /\ slot[p] \in Placed =>
                           \E t \in Runs : t > p /\ slot'[t] = slot[p] /\ state'[t] \in Kept
  BY DEF LatestStep
<1>2. p \in Runs /\ state[p] \in Kept /\ p # s /\ s \in Runs
  BY <1>1, RunsFinite DEF Known, Kept, StartWrites
<1>3. state'[p] # Expired(clock)[p]
  BY <1>0, <1>1, <1>2, Expiry DEF Kept
<1>4. p \notin Retained(s, v) /\ p \notin Going(clock)
  BY <1>2, <1>3 DEF StartWrites
<1> DEFINE of == [slot EXCEPT ![s] = v]
           C == {t \in Known \union {s} : of[t] = slot[p]}
<1>5. ASSUME slot[p] \in Placed
      PROVE  \E t \in Runs : t > p /\ slot'[t] = slot[p] /\ state'[t] \in Kept
  <2>1. of \in [Runs -> Slots] /\ of[p] = slot[p]
    BY <1>2 DEF TypeOK, StartWrites
  <2>2. p \notin LastOf(s, v)
    BY <1>4 DEF Retained
  <2>3. PICK r \in Known \union {s} : r > p /\ of[r] = of[p]
    BY <1>1, <1>5, <2>1, <2>2 DEF LastOf
  <2>4. r \in C /\ C \in SUBSET Runs
    BY <1>2, <2>1, <2>3 DEF Known
  <2>5. PICK m \in C : \A q \in C : q <= m
    <3> HIDE DEF C
    <3> QED
      BY <2>4, Newest
  <2>6. m \in Known \union {s} /\ m \in Runs /\ of[m] = slot[p] /\ r <= m
    BY <2>4, <2>5
  <2>7. m > p
    BY <1>2, <2>3, <2>4, <2>6, RunsFinite
  <2>8. ASSUME NEW q \in Known \union {s}, q > m PROVE of[q] # of[m]
    <3>1. q \in Int /\ m \in Int /\ ~(q <= m)
      BY <1>2, <2>6, <2>8, RunsFinite DEF Known
    <3> QED
      BY <2>5, <2>6, <3>1
  <2>9. m \in Retained(s, v)
    BY <1>5, <2>6, <2>8 DEF Retained, LastOf
  <2>10. slot'[m] = of[m]
    BY <2>6 DEF StartWrites, TypeOK
  <2>11. state'[m] \in Kept
    <3>1. CASE m = s
      BY <3>1 DEF StartWrites, Kept
    <3>2. CASE m # s
      <4>1. state'[m] = Expired(clock)[m] /\ state[m] \in Kept
        BY <2>6, <2>9, <3>2 DEF StartWrites, Known
      <4> QED
        BY <1>0, <2>6, <4>1, Expiry DEF Kept
    <3> QED
      BY <3>1, <3>2
  <2> QED
    BY <2>6, <2>7, <2>10, <2>11
<1> QED
  BY <1>4, <1>5

\* Start: the invariant and the step.
LEMMA StartStep ==
    ASSUME IInv, NEW k \in Keys, NEW w \in Slots, NEW d \in Durations, Start(k, w, d)
    PROVE  IInv' /\ RunStep /\ LatestStep /\ ShownStep
<1> USE DEF IInv, TimersInv
<1>1. PICK v \in Slots, s \in Runs :
             /\ StartWrites(k, v, s)
             /\ state' \in [Runs -> RunState] /\ slot' \in [Runs -> Slots]
             /\ due' \in [Runs -> Nat] /\ ended' \in [Runs -> Nat \union {Never}]
             /\ answer[k] = 0
             /\ answer' = [answer EXCEPT ![k] = s]
             /\ touched' = [touched EXCEPT ![k] = @ \union {s}]
  BY StartIs
<1>2. /\ EffectOnce' /\ Tied'
      /\ answer' \in [Keys -> 0..MaxRuns] /\ touched' \in [Keys -> SUBSET Runs]
  <2>1. {s} \in SUBSET {s}
    OBVIOUS
  <2> QED
    BY <1>1, <2>1, KeyOnce
<1>3. TypeOK'
  BY <1>1, <1>2 DEF TypeOK, Start
<1>4. OneRunPerCard' /\ EndedRight'
  BY <1>1, StartOne, StartEnded
<1>5. Numbered'
  <2>0. s \in 0..MaxRuns /\ s \in Int /\ clock \in Int
    BY RunsFinite, TimerAssumption DEF Runs, TypeOK
  <2>1. ASSUME NEW t \in Runs PROVE state'[t] # "none" <=> t <= s
    <3>1. CASE t = s
      BY <2>0, <1>1, <3>1 DEF StartWrites
    <3>2. CASE t # s
      <4>1. state[t] # "none" <=> t < s
        BY <1>1 DEF StartWrites
      <4>2. state'[t] = Expired(clock)[t] \/ (state'[t] = "pruned" /\ state[t] \in Kept)
        BY <1>1, <3>2 DEF StartWrites, Known
      <4>3. state'[t] # "none" <=> state[t] # "none"
        BY <2>0, <4>2, Expiry DEF Kept
      <4> QED
        BY <2>0, <3>2, <4>1, <4>3, RunsFinite
    <3> QED
      BY <3>1, <3>2
  <2> QED
    BY <2>0, <2>1 DEF Numbered
<1>6. RunStep /\ ShownStep
  BY <1>1, <1>3, StartRun, StaysShown
<1>7. LatestStep
  BY <1>1, StartLatest
<1> QED
  BY <1>2, <1>3, <1>4, <1>5, <1>6, <1>7

-----------------------------------------------------------------------------
(* The steps that start no run.                                            *)

\* Expiry as of a time, at most with one more end or one binding per run.
Ends(at) ==
  \A t \in Runs :
    /\ due'[t] = due[t]
    /\ \/ state'[t] = Expired(at)[t] /\ ended'[t] = EndedAt(at)[t]
       \/ /\ at = clock /\ t \in Going(at)
          /\ state'[t] = "stopped" /\ ended'[t] = at
    /\ \/ slot'[t] = slot[t]
       \/ /\ t \in Going(at) /\ slot[t] = NoWidget /\ slot'[t] \in Placed
          /\ state'[t] = "running"

\* Such a step keeps the ends, the numbers, the history and the screens.
LEMMA EndsStep ==
    ASSUME TypeOK, TypeOK', EndedRight, Numbered, NEW at \in Nat, Ends(at)
    PROVE  EndedRight' /\ Numbered' /\ RunStep /\ LatestStep /\ ShownStep
<1>1. ASSUME NEW t \in Runs
      PROVE  /\ due'[t] = due[t] /\ due[t] \in Nat
             /\ \/ state'[t] = state[t] /\ ended'[t] = ended[t]
                \/ state[t] = "running" /\ state'[t] = "expired" /\ ended'[t] = due[t]
                \/ /\ state[t] = "running" /\ state'[t] = "stopped" /\ ended'[t] = at
                   /\ at = clock /\ due[t] > at
             /\ \/ slot'[t] = slot[t]
                \/ /\ slot[t] = NoWidget /\ slot'[t] \in Placed
                   /\ state'[t] = "running"
  BY Expiry DEF Ends, TypeOK
<1>2. EndedRight'
  <2>1. ASSUME NEW t \in Runs PROVE Kept3(t)'
    <3>1. Kept3(t)
      BY EndedRightIs
    <3> QED
      BY <1>1, <3>1 DEF Kept3
  <2>2. EndedRight' <=> \A t \in Runs : Kept3(t)'
    BY DEF EndedRight, Kept3, Known, Kept
  <2> QED
    BY <2>1, <2>2
<1>3. Numbered'
  <2>1. \A t \in Runs : state'[t] # "none" <=> state[t] # "none"
    BY <1>1
  <2> QED
    BY <2>1 DEF Numbered
<1>4. RunStep
  BY <1>1 DEF RunStep, Known
<1>5. LatestStep
  <2>1. ASSUME NEW t \in Known PROVE state'[t] # "pruned"
    BY <1>1 DEF Known, Kept
  <2> QED
    BY <2>1 DEF LatestStep
<1>6. ShownStep
  <2>1. ASSUME NEW t \in Known, state[t] = "running", due[t] <= clock
        PROVE  state'[t] \in {"running", "expired", "pruned"}
    <3>1. clock \in Int /\ t \in Runs
      BY TimerAssumption DEF TypeOK, Known
    <3> QED
      BY <1>1, <2>1, <3>1
  <2> QED
    BY <1>4, <2>1, StaysShown
<1> QED
  BY <1>2, <1>3, <1>4, <1>5, <1>6

\* Expiry and stops move no run to another card.
LEMMA EndsOne ==
    ASSUME TypeOK, OneRunPerCard, NEW at \in Nat, Ends(at), slot' = slot
    PROVE  OneRunPerCard'
<1>1. \A t \in Runs : state'[t] = "running" => state[t] = "running"
  BY Expiry DEF Ends
<1> QED
  BY <1>1 DEF OneRunPerCard, Running

\* Nothing happens to the runs.
LEMMA Still ==
    ASSUME TypeOK, TypeOK', OneRunPerCard, EndedRight, Numbered, UNCHANGED runs
    PROVE  OneRunPerCard' /\ EndedRight' /\ Numbered' /\ RunStep /\ LatestStep /\ ShownStep
<1>1. state' = state /\ slot' = slot /\ due' = due /\ ended' = ended
  BY DEF runs
<1>2. OneRunPerCard' /\ EndedRight' /\ Numbered'
  BY <1>1 DEF OneRunPerCard, Running, EndedRight, Known, Numbered
<1>3. RunStep
  BY <1>1 DEF RunStep
<1>4. ASSUME NEW t \in Known PROVE state'[t] # "pruned"
  BY <1>1 DEF Known, Kept
<1>5. LatestStep
  BY <1>4 DEF LatestStep
<1>6. ASSUME NEW t \in Known, state[t] = "running", due[t] <= clock
      PROVE  state'[t] \in {"running", "expired", "pruned"}
  BY <1>1, <1>6
<1>7. ShownStep
  BY <1>3, <1>6, StaysShown
<1> QED
  BY <1>2, <1>3, <1>5, <1>7

\* Stop: the invariant and the step.
LEMMA StopStep ==
    ASSUME IInv, NEW k \in Keys, NEW w \in Slots, NEW target \in 0..MaxRuns,
           Stop(k, target, w)
    PROVE  IInv' /\ RunStep /\ LatestStep /\ ShownStep
<1> USE DEF IInv, TimersInv
<1>0. clock \in Nat /\ clock \in Int
  BY TimerAssumption DEF TypeOK
<1>1. PICK s \in Meant(target, w) :
        /\ state' = [Expired(clock) EXCEPT ![s] = IF s \in Going(clock) THEN "stopped" ELSE @]
        /\ ended' = [EndedAt(clock) EXCEPT ![s] = IF s \in Going(clock) THEN clock ELSE @]
        /\ touched' = [touched EXCEPT ![k] = @ \union (IF s \in Going(clock) THEN {s} ELSE {})]
        /\ answer' = [answer EXCEPT ![k] = s]
  BY DEF Stop
<1>2. s \in Runs
  BY <1>1 DEF Meant, Known, Going, Running
<1>3. /\ EffectOnce' /\ Tied'
      /\ answer' \in [Keys -> 0..MaxRuns] /\ touched' \in [Keys -> SUBSET Runs]
  <2>1. (IF s \in Going(clock) THEN {s} ELSE {}) \in SUBSET {s}
    OBVIOUS
  <2>2. answer[k] = 0
    BY DEF Stop, NewKey
  <2> QED
    BY <1>1, <1>2, <2>1, <2>2, KeyOnce
<1>4. /\ Expired(clock) \in [Runs -> RunState]
      /\ EndedAt(clock) \in [Runs -> Nat \union {Never}]
  BY <1>0, Expiry
<1>5. UNCHANGED <<slot, due, layout, clock, tick, saves, up>>
  BY DEF Stop
<1>6. TypeOK'
  <2>1. state' \in [Runs -> RunState]
    BY <1>1, <1>4 DEF RunState
  <2>2. ended' \in [Runs -> Nat \union {Never}]
    BY <1>0, <1>1, <1>4
  <2> QED
    BY <1>3, <1>5, <2>1, <2>2 DEF TypeOK
<1>7. Ends(clock)
  <2>1. ASSUME NEW t \in Runs
        PROVE  \/ state'[t] = Expired(clock)[t] /\ ended'[t] = EndedAt(clock)[t]
               \/ t \in Going(clock) /\ state'[t] = "stopped" /\ ended'[t] = clock
    BY <1>1, <1>2, <1>4
  <2> QED
    BY <1>5, <2>1 DEF Ends
<1>8. EndedRight' /\ Numbered' /\ RunStep /\ LatestStep /\ ShownStep
  BY <1>0, <1>6, <1>7, EndsStep
<1>9. OneRunPerCard'
  BY <1>0, <1>5, <1>7, EndsOne
<1> QED
  BY <1>3, <1>6, <1>8, <1>9

\* The tick of the scheduler: the invariant and the step.
LEMMA TickStep ==
    ASSUME IInv, TickCommit
    PROVE  IInv' /\ RunStep /\ LatestStep /\ ShownStep
<1> USE DEF IInv, TimersInv
<1>0. tick \in Nat /\ tick \in Int
  BY TimerAssumption DEF TypeOK, TickCommit
<1>1. /\ Expired(tick) \in [Runs -> RunState]
      /\ EndedAt(tick) \in [Runs -> Nat \union {Never}]
  BY <1>0, Expiry
<1>2. TypeOK' /\ slot' = slot
  BY <1>1 DEF TypeOK, TickCommit
<1>3. Ends(tick)
  BY DEF Ends, TickCommit
<1>4. EndedRight' /\ Numbered' /\ RunStep /\ LatestStep /\ ShownStep
  BY <1>0, <1>2, <1>3, EndsStep
<1>5. OneRunPerCard'
  BY <1>0, <1>2, <1>3, EndsOne
<1>6. EffectOnce' /\ Tied'
  BY DEF TickCommit, EffectOnce, Tied
<1> QED
  BY <1>2, <1>4, <1>5, <1>6

\* Reconciliation: the loose runs go to idle cards, one on each.
LEMMA ReconcileStep ==
    ASSUME TypeOK, OneRunPerCard, EndedRight, Numbered, Reconcile,
           UNCHANGED <<answer, layout, clock, tick, touched>>,
           saves' \in 0..MaxSaves, up' \in BOOLEAN
    PROVE  /\ TypeOK' /\ OneRunPerCard' /\ EndedRight' /\ Numbered'
           /\ RunStep /\ LatestStep /\ ShownStep
<1>0. clock \in Nat /\ clock \in Int
  BY TimerAssumption DEF TypeOK
<1>1. CASE layout = <<>>
  <2>1. UNCHANGED runs
    BY <1>1 DEF Reconcile
  <2>2. TypeOK'
    BY <2>1 DEF TypeOK, runs
  <2> QED
    BY <2>1, <2>2, Still
<1>2. CASE layout # <<>>
  <2> DEFINE Got(s) == \E i \in DOMAIN layout : Paired(s, i)
             of(s) == CHOOSE i \in DOMAIN layout : Paired(s, i)
  <2>1. /\ state' = Expired(clock) /\ ended' = EndedAt(clock) /\ due' = due
        /\ slot' = [s \in Runs |-> IF Got(s) THEN layout[of(s)] ELSE slot[s]]
    BY <1>2 DEF Reconcile
  <2>2. ASSUME NEW s \in Runs, Got(s)
        PROVE  /\ of(s) \in DOMAIN layout /\ slot'[s] = layout[of(s)]
               /\ s \in Loose /\ of(s) \in Idle
               /\ Cardinality({t \in Loose : t < s}) = Cardinality({j \in Idle : j < of(s)})
    <3>1. of(s) \in DOMAIN layout /\ Paired(s, of(s))
      BY <2>2, Zenon
    <3>2. slot'[s] = layout[of(s)]
      BY <2>1, <2>2
    <3> HIDE DEF of
    <3> QED
      BY <3>1, <3>2 DEF Paired
  <2>3. ASSUME NEW s \in Runs, ~Got(s) PROVE slot'[s] = slot[s]
    BY <2>1, <2>3
  <2> HIDE DEF Got, of
  <2>4. ASSUME NEW s \in Runs, Got(s)
        PROVE  /\ slot'[s] \in Placed /\ slot'[s] \in Widgets /\ slot'[s] \notin Busy(clock)
               /\ s \in Going(clock) /\ slot[s] = NoWidget
    <3>1. of(s) \in DOMAIN layout /\ slot'[s] = layout[of(s)] /\ s \in Loose /\ of(s) \in Idle
      BY <2>2, <2>4
    <3> QED
      BY <3>1, PlacedCards DEF Loose, Idle
  <2>5. slot' \in [Runs -> Slots]
    <3>1. \A s \in Runs : slot'[s] \in Slots
      BY <2>3, <2>4 DEF TypeOK, Slots
    <3>2. DOMAIN slot' = Runs /\ slot' = [s \in Runs |-> slot'[s]]
      BY <2>1
    <3> QED
      BY <3>1, <3>2
  <2>6. TypeOK'
    BY <1>0, <2>1, <2>5, Expiry DEF TypeOK
  <2>7. ASSUME NEW t \in Runs, t \in Going(clock) PROVE Expired(clock)[t] = "running"
    <3>1. /\ state[t] = "running" /\ due[t] > clock
          /\ Expired(clock)[t] = IF state[t] = "running" /\ due[t] <= clock
                                 THEN "expired" ELSE state[t]
      BY <1>0, <2>7, Expiry
    <3>2. ~(due[t] <= clock)
      BY <1>0, <3>1 DEF TypeOK
    <3> QED
      BY <3>1, <3>2
  <2>8. Ends(clock)
    <3>1. ASSUME NEW t \in Runs
          PROVE  \/ slot'[t] = slot[t]
                 \/ /\ t \in Going(clock) /\ slot[t] = NoWidget /\ slot'[t] \in Placed
                    /\ state'[t] = "running"
      BY <2>1, <2>3, <2>4, <2>7
    <3> QED
      BY <2>1, <3>1 DEF Ends
  <2>9. ASSUME NEW t \in Runs, state'[t] = "running"
        PROVE  t \in Going(clock) /\ t \in Running /\ slot[t] \in Busy(clock)
    <3>1. t \in Going(clock) /\ t \in Running
      BY <1>0, <2>1, <2>9, Expiry DEF Running, TypeOK
    <3> QED
      BY <1>0, <3>1, BusyIs
  <2>10. ASSUME NEW a \in Runs, NEW b \in Runs, state'[a] = "running", state'[b] = "running",
                slot'[a] = slot'[b], slot'[a] # NoWidget
         PROVE  a = b
    <3>1. CASE Got(a) /\ Got(b)
      <4>1. of(a) \in DOMAIN layout /\ of(b) \in DOMAIN layout /\ layout[of(a)] = layout[of(b)]
        BY <2>2, <2>10, <3>1
      <4>2. of(a) = of(b)
        BY <4>1 DEF TypeOK
      <4>3. a \in Loose /\ b \in Loose
            /\ Cardinality({t \in Loose : t < a}) = Cardinality({t \in Loose : t < b})
        BY <2>2, <3>1, <4>2
      <4>4. Loose \in SUBSET Runs
        BY DEF Loose, Going, Running
      <4> QED
        BY <4>3, <4>4, Rank
    <3>2. CASE Got(a) /\ ~Got(b)
      BY <2>3, <2>4, <2>9, <2>10, <3>2
    <3>3. CASE ~Got(a) /\ Got(b)
      BY <2>3, <2>4, <2>9, <2>10, <3>3
    <3>4. CASE ~Got(a) /\ ~Got(b)
      BY <2>3, <2>9, <2>10, <3>4 DEF OneRunPerCard
    <3> QED
      BY <3>1, <3>2, <3>3, <3>4
  <2>11. OneRunPerCard'
    BY <2>10 DEF OneRunPerCard, Running
  <2> QED
    BY <1>0, <2>6, <2>8, <2>11, EndsStep
<1> QED
  BY <1>1, <1>2

-----------------------------------------------------------------------------
(* All steps.                                                              *)

\* The invariant holds at first.
LEMMA InitInv == Init => IInv
<1> SUFFICES ASSUME Init PROVE IInv
  OBVIOUS
<1>0. MaxRuns \in Nat /\ MaxTime \in Nat /\ MaxSaves \in Nat
  BY TimerAssumption
<1>1. TypeOK
  BY <1>0 DEF Init, TypeOK, Slots, RunState, Never
<1>2. OneRunPerCard /\ EndedRight
  BY DEF Init, OneRunPerCard, EndedRight, Running, Known, Kept
<1>3. EffectOnce /\ Tied
  <2>1. Cardinality({}) = 0
    BY FS_EmptySet
  <2> QED
    BY <2>1 DEF Init, EffectOnce, Tied
<1>4. Numbered
  <2>1. 0 \in 0..MaxRuns /\ \A t \in Runs : state[t] # "none" <=> t <= 0
    BY <1>0 DEF Init, Runs
  <2> QED
    BY <2>1 DEF Numbered
<1> QED
  BY <1>1, <1>2, <1>3, <1>4 DEF IInv, TimersInv

\* Every step keeps the invariant and what a run became.
LEMMA NextStep ==
    ASSUME IInv, Next
    PROVE  IInv' /\ RunStep /\ LatestStep /\ ShownStep
<1> USE DEF IInv, TimersInv
<1>0. MaxRuns \in Nat /\ MaxTime \in Nat /\ MaxSaves \in Nat
  BY TimerAssumption
<1>1. ASSUME NEW k \in Sent, NEW w \in Slots, NEW d \in Durations, Start(k, w, d)
      PROVE  IInv' /\ RunStep /\ LatestStep /\ ShownStep
  BY <1>1, StartStep DEF Sent
<1>2. ASSUME NEW k \in Sent, NEW w \in Slots, NEW target \in 0..MaxRuns, Stop(k, target, w)
      PROVE  IInv' /\ RunStep /\ LatestStep /\ ShownStep
  BY <1>2, StopStep DEF Sent
<1>3. CASE TickCommit
  BY <1>3, TickStep
<1>4. CASE ReconcileLayout \/ Restart
  <2>1. /\ Reconcile /\ UNCHANGED <<answer, layout, clock, tick, touched>>
        /\ saves' \in 0..MaxSaves /\ up' \in BOOLEAN
    <3>1. CASE ReconcileLayout
      <4>1. saves' = saves - 1 /\ saves > 0 /\ saves \in 0..MaxSaves
        BY <3>1 DEF ReconcileLayout, TypeOK
      <4>2. saves' \in 0..MaxSaves
        BY <1>0, <4>1
      <4> QED
        BY <3>1, <4>2 DEF ReconcileLayout, TypeOK
    <3>2. CASE Restart
      BY <3>2 DEF Restart, TypeOK
    <3> QED
      BY <1>4, <3>1, <3>2
  <2>2. EffectOnce' /\ Tied'
    BY <2>1 DEF EffectOnce, Tied
  <2> QED
    BY <2>1, <2>2, ReconcileStep
<1>5. CASE TickRead \/ TickFails \/ SaveLayout \/ ReconcileFails \/ Advance \/ Crash
  <2>1. UNCHANGED <<runs, answer, touched>>
    BY <1>5 DEF TickRead, TickFails, SaveLayout, ReconcileFails, Advance, Crash
  <2>2. layout' \in Seq(Widgets) /\ \A i, j \in DOMAIN layout' : layout'[i] = layout'[j] => i = j
    <3>1. CASE SaveLayout
      <4>1. layout' \in Layouts
        BY <3>1 DEF SaveLayout
      <4>2. PICK n \in 0..Cardinality(Widgets) : layout' \in [1..n -> Widgets]
        BY <4>1 DEF Layouts
      <4>3. layout' \in Seq(Widgets)
        <5>1. n \in Nat
          BY <4>2, TimerAssumption, FS_CardinalityType
        <5> QED
          BY <4>2, <5>1
      <4>4. \A i, j \in DOMAIN layout' : layout'[i] = layout'[j] => i = j
        BY <4>1 DEF Layouts
      <4> QED
        BY <4>3, <4>4
    <3>2. CASE ~SaveLayout
      <4>1. layout' = layout
        BY <1>5, <3>2 DEF TickRead, TickFails, ReconcileFails, Advance, Crash
      <4> QED
        BY <4>1 DEF TypeOK
    <3> QED
      BY <3>1, <3>2
  <2>3. clock' \in 0..MaxTime /\ tick' \in (0..MaxTime) \union {Never}
        /\ saves' \in 0..MaxSaves /\ up' \in BOOLEAN
    <3>1. clock \in 0..MaxTime /\ tick \in (0..MaxTime) \union {Never} /\ up \in BOOLEAN
          /\ saves \in Int /\ 0 <= saves /\ saves <= MaxSaves
      BY <1>0 DEF TypeOK
    <3>2. CASE TickRead \/ TickFails
      BY <1>0, <3>1, <3>2 DEF TickRead, TickFails
    <3>3. CASE SaveLayout
      <4>1. saves' = saves + 1 /\ saves < MaxSaves
        BY <3>3 DEF SaveLayout
      <4>2. saves' \in 0..MaxSaves
        BY <1>0, <3>1, <4>1
      <4> QED
        BY <3>1, <3>3, <4>2 DEF SaveLayout
    <3>4. CASE ReconcileFails
      <4>1. saves' = saves - 1 /\ saves > 0
        BY <3>4 DEF ReconcileFails
      <4>2. saves' \in 0..MaxSaves
        BY <1>0, <3>1, <4>1
      <4> QED
        BY <3>1, <3>4, <4>2 DEF ReconcileFails
    <3>5. CASE Advance
      BY <1>0, <3>1, <3>5 DEF Advance
    <3>6. CASE Crash
      <4>1. clock' = clock /\ tick' = Never /\ saves' = 0 /\ up' = FALSE
        BY <3>6 DEF Crash
      <4>2. 0 \in 0..MaxSaves
        BY <1>0
      <4> QED
        BY <3>1, <4>1, <4>2, Zenon
    <3> QED
      BY <1>5, <3>2, <3>3, <3>4, <3>5, <3>6
  <2>4. TypeOK'
    BY <2>1, <2>2, <2>3 DEF TypeOK, runs
  <2>5. EffectOnce' /\ Tied'
    BY <2>1 DEF EffectOnce, Tied
  <2> QED
    BY <2>1, <2>4, <2>5, Still
<1> QED
  BY <1>1, <1>2, <1>3, <1>4, <1>5 DEF Next

\* The invariant is inductive.
LEMMA Inductive == IInv /\ [Next]_vars => IInv'
<1>1. CASE Next
  BY <1>1, NextStep
<1>2. CASE UNCHANGED vars
  BY <1>2 DEF vars, IInv, TimersInv, TypeOK, OneRunPerCard, EndedRight, EffectOnce,
     Numbered, Tied, Running, Known
<1> QED
  BY <1>1, <1>2

\* No card ever has two running timers, and every timer ended as its deadline
\* says, whichever of start, stop, scheduler, layout change and restart came
\* first, for any number of cards, runs and seconds.
THEOREM CardsAndEnds == Spec => []TimersInv
<1>1. IInv => TimersInv
  BY DEF IInv
<1> QED
  BY <1>1, InitInv, Inductive, PTL DEF Spec

\* A request key starts or stops at most one timer, however often start() and
\* stop() are sent with it.
THEOREM OneEffect == Spec => []EffectOnce
<1>1. IInv => EffectOnce
  BY DEF IInv
<1> QED
  BY <1>1, InitInv, Inductive, PTL DEF Spec

\* What a run became stays with it in every step of every behaviour: its
\* deadline, its end, its card, its place in the history while it is the last
\* of a placed card, and what the screens were shown.
THEOREM ThatRunsStay == Spec => RunsStay
<1>1. IInv /\ [Next]_vars => [RunStep /\ LatestStep /\ ShownStep]_vars
  BY NextStep
<1> QED
  BY <1>1, InitInv, Inductive, PTL DEF Spec, RunsStay

=============================================================================
