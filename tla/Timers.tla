------------------------------- MODULE Timers -------------------------------
(***************************************************************************)
(* The countdown timers of app/timers.py (class TimerService) and the      *)
(* layout handler of app/main.py that rebinds them.                        *)
(*                                                                         *)
(* Timers run in threads over one SQLite database.  A handler or scheduler *)
(* step is one write transaction (BEGIN IMMEDIATE), hence one action; the  *)
(* clock is read inside it, except by tick(), which reads it before and    *)
(* may find other transactions committed in between (variable tick).  The  *)
(* layout is saved in one transaction and reconciled in a second one.      *)
(*                                                                         *)
(* A request that is refused rolls its transaction back, the expiry it had *)
(* begun included, so refusals are the guards of the actions.  A repeated  *)
(* request key changes nothing: its stored answer, or a conflict, goes     *)
(* back.  A running row always has version 1 (only its end increments it), *)
(* so stop() with a version is stop() without one, or a refusal.           *)
(***************************************************************************)
EXTENDS Integers, FiniteSets, Sequences

CONSTANTS
  Widgets,      \* ids of timer cards a layout may place
  Keys,         \* request keys: (principal, request_id), numbered as they come in
  Durations,    \* duration_seconds, 1..600 in the code
  ClockSteps,   \* by how much the wall clock may move; negative when it is set back
  MaxActive,    \* MAX_ACTIVE
  MaxHistory,   \* MAX_HISTORY
  MaxReceipts,  \* MAX_RECEIPTS
  MaxRuns,      \* bound: timers ever started
  MaxTime,      \* bound: the last moment of the clock
  MaxSaves,     \* bound: layout saves waiting for their reconciliation
  NoWidget      \* widget_id NULL

ASSUME TimerAssumption ==
  /\ NoWidget \notin Widgets
  /\ IsFiniteSet(Widgets) /\ IsFiniteSet(Keys) /\ Keys \subseteq Nat
  /\ Durations \subseteq Nat \ {0}
  /\ ClockSteps \subseteq Int
  /\ {MaxActive, MaxHistory, MaxReceipts, MaxRuns, MaxTime, MaxSaves} \subseteq Nat

Runs  == 1..MaxRuns
Slots == Widgets \union {NoWidget}
Never == -1

VARIABLES
  state,   \* of each run, by sequence number; "none" before, "pruned" after
  slot,    \* widget_id
  due,     \* deadline_at
  ended,   \* ended_at, Never while NULL
  answer,  \* hub_timer_requests: the run each key's answer names, 0 without one
  layout,  \* the placed timer cards in display order
  clock,   \* the wall clock in whole seconds
  tick,    \* the clock as the scheduler read it, Never between two ticks
  saves,   \* layout saves whose reconciliation is still to come
  up,      \* the application is running
  touched  \* history: runs started or stopped under each key

runs == <<state, slot, due, ended>>
vars == <<state, slot, due, ended, answer, layout, clock, tick, saves, up, touched>>

RunState == {"none", "running", "expired", "stopped", "pruned"}
Kept     == {"running", "expired", "stopped"}

Placed  == {layout[i] : i \in DOMAIN layout}
Running == {s \in Runs : state[s] = "running"}
Known   == {s \in Runs : state[s] \in Kept}

\* Mutant of Due: expiry compares with a strict sign and misses its second.
DueStrict(at) == {s \in Running : due[s] < at}

\* The rows _expire(db, at) ends, and those that keep running.
Due(at) == {s \in Running : due[s] <= at}
Going(at) == Running \ Due(at)
Busy(at) == {slot[s] : s \in Going(at)}
Expired(at) == [s \in Runs |-> IF s \in Due(at) THEN "expired" ELSE state[s]]
EndedAt(at) == [s \in Runs |-> IF s \in Due(at) THEN due[s] ELSE ended[s]]

\* _data(): a due run is shown as expired before its expiry is stored.
ShownAs(s) == IF s \in Due(clock) THEN "expired" ELSE state[s]

\* snapshot(): every row, read in one transaction at one time.
Snapshot == [s \in Known |-> ShownAs(s)]

-----------------------------------------------------------------------------

Init ==
  /\ state = [s \in Runs |-> "none"]
  /\ slot = [s \in Runs |-> NoWidget]
  /\ due = [s \in Runs |-> 0]
  /\ ended = [s \in Runs |-> Never]
  /\ answer = [k \in Keys |-> 0]
  /\ layout = <<>>
  /\ clock = 0
  /\ tick = Never
  /\ saves = 0
  /\ up = TRUE
  /\ touched = [k \in Keys |-> {}]

-----------------------------------------------------------------------------
(* Start and stop.                                                         *)

\* The keys used so far and the next one.
Sent == {k \in Keys : \A q \in Keys : q < k => answer[q] # 0}

\* Mutant of NewKey: the receipt is not looked up.
AnyKey(k) == Cardinality({q \in Keys : answer[q] # 0}) < MaxReceipts

\* _replay(): an unknown key, and room for one more receipt.
NewKey(k) ==
  /\ answer[k] = 0
  /\ Cardinality({q \in Keys : answer[q] # 0}) < MaxReceipts

\* Room for one more running timer.
Room == Cardinality(Going(clock)) < MaxActive

\* Mutant of Allocation: any placed card, idle or not.
AllocationBlind(w) ==
  IF w # NoWidget THEN {w} \intersect Placed
  ELSE IF layout = <<>> THEN {NoWidget} ELSE Placed

\* The card a start for widget w gets: that card if it is placed and idle,
\* the first idle card for a request without a card, none without cards.
Allocation(w) ==
  IF w # NoWidget THEN {w} \intersect (Placed \ Busy(clock))
  ELSE IF layout = <<>> THEN {NoWidget}
  ELSE {layout[i] : i \in {j \in DOMAIN layout :
          /\ layout[j] \notin Busy(clock)
          /\ \A h \in 1..(j - 1) : layout[h] \in Busy(clock)}}

\* The newest MaxHistory rows, once run s is inserted.
Recent(s) == {t \in Known \union {s} :
                Cardinality({r \in Known \union {s} : r > t}) < MaxHistory}

\* The newest run of every placed card, once s is inserted on card v.
LastOf(s, v) ==
  LET of == [slot EXCEPT ![s] = v]
  IN {t \in Known \union {s} :
        /\ of[t] \in Placed
        /\ \A r \in Known \union {s} : r > t => of[r] # of[t]}

\* Mutant of Retained: the last runs of the cards go with the rest.
RetainedRecent(s, v) == Recent(s)

\* What the insertion of run s on card v keeps of the ended runs.
Retained(s, v) == Recent(s) \union LastOf(s, v)

\* start(): expiry, limits, allocation, insertion, pruning and receipt in
\* one transaction.
Start(k, w, d) ==
  /\ up /\ NewKey(k) /\ Room
  /\ \E v \in Allocation(w), s \in Runs :
       /\ s = Cardinality({t \in Runs : state[t] # "none"}) + 1
       /\ state' = [t \in Runs |->
            IF t = s THEN "running"
            ELSE IF t \in Known \ (Retained(s, v) \union Going(clock)) THEN "pruned"
            ELSE Expired(clock)[t]]
       /\ slot' = [slot EXCEPT ![s] = v]
       /\ due' = [due EXCEPT ![s] = clock + d]
       /\ ended' = [EndedAt(clock) EXCEPT ![s] = Never]
       /\ answer' = [answer EXCEPT ![k] = s]
       /\ touched' = [touched EXCEPT ![k] = @ \union {s}]
  /\ UNCHANGED <<layout, clock, tick, saves, up>>

\* The run that stop(target) means after expiry: the newest one going, the
\* one going on the card, or the row with the given id.
Meant(target, w) ==
  IF target # 0 THEN {target} \intersect Known
  ELSE IF w # NoWidget THEN {s \in Going(clock) : slot[s] = w}
  ELSE {s \in Going(clock) : \A t \in Going(clock) : t <= s}

\* Mutant of Stop: an expired run is stopped once more.
StopAgain(k, target, w) ==
  /\ up /\ NewKey(k)
  /\ \E s \in Meant(target, w) :
       /\ w # NoWidget => slot[s] = w
       /\ state' = [Expired(clock) EXCEPT ![s] = "stopped"]
       /\ ended' = [EndedAt(clock) EXCEPT ![s] = clock]
       /\ touched' = [touched EXCEPT ![k] = @ \union {s}]
       /\ answer' = [answer EXCEPT ![k] = s]
  /\ UNCHANGED <<slot, due, layout, clock, tick, saves, up>>

\* stop(): target 0 stands for 'current'.  An ended run is answered for,
\* not changed.
Stop(k, target, w) ==
  /\ up /\ NewKey(k)
  /\ \E s \in Meant(target, w) :
       /\ w # NoWidget => slot[s] = w
       /\ LET change == s \in Going(clock)
          IN /\ state' = [Expired(clock) EXCEPT ![s] = IF change THEN "stopped" ELSE @]
             /\ ended' = [EndedAt(clock) EXCEPT ![s] = IF change THEN clock ELSE @]
             /\ touched' = [touched EXCEPT ![k] = @ \union (IF change THEN {s} ELSE {})]
       /\ answer' = [answer EXCEPT ![k] = s]
  /\ UNCHANGED <<slot, due, layout, clock, tick, saves, up>>

-----------------------------------------------------------------------------
(* Scheduler, layout, life cycle.                                          *)

\* run(), tick(): the clock is read first.
TickRead ==
  /\ up /\ tick = Never
  /\ tick' = clock
  /\ UNCHANGED <<runs, answer, layout, clock, saves, up, touched>>

\* tick() looks for due rows and expires them, with the clock read before;
\* without due rows it changes nothing.
TickCommit ==
  /\ up /\ tick # Never
  /\ state' = Expired(tick)
  /\ ended' = EndedAt(tick)
  /\ tick' = Never
  /\ UNCHANGED <<slot, due, answer, layout, clock, saves, up, touched>>

\* A locked or failing database: scheduler_error, and the next round.
TickFails ==
  /\ up /\ tick # Never
  /\ tick' = Never
  /\ UNCHANGED <<runs, answer, layout, clock, saves, up, touched>>

\* Mutant of Layouts: a card may be placed twice.
LayoutsAny == UNION {[1..n -> Widgets] : n \in 0..Cardinality(Widgets)}

\* The layouts that pass the validation of the request: card ids are unique.
Layouts == {l \in UNION {[1..n -> Widgets] : n \in 0..Cardinality(Widgets)} :
              \A i, j \in DOMAIN l : l[i] = l[j] => i = j}

\* PUT /api/layout: first the layout alone.
SaveLayout ==
  /\ up /\ saves < MaxSaves
  /\ layout' \in Layouts \ {layout}
  /\ saves' = saves + 1
  /\ UNCHANGED <<runs, answer, clock, tick, up, touched>>

\* The runs without a card, and the idle cards.
Loose == {s \in Going(clock) : slot[s] = NoWidget}
Idle  == {i \in DOMAIN layout : layout[i] \notin Busy(clock)}

\* Mutant of Paired: runs of other cards are moved too.
PairedAny(s, i) ==
  /\ s \in Going(clock) /\ i \in Idle
  /\ Cardinality({t \in Going(clock) : t < s}) = Cardinality({j \in Idle : j < i})

\* The oldest loose run goes to the first idle card, and so on.
Paired(s, i) ==
  /\ s \in Loose /\ i \in Idle
  /\ Cardinality({t \in Loose : t < s}) = Cardinality({j \in Idle : j < i})

\* reconcile_widgets(): expiry, and the unbound runs go to idle cards.
Reconcile ==
  IF layout = <<>> THEN UNCHANGED runs
  ELSE /\ state' = Expired(clock)
       /\ ended' = EndedAt(clock)
       /\ slot' = [s \in Runs |->
            IF \E i \in DOMAIN layout : Paired(s, i)
            THEN layout[CHOOSE i \in DOMAIN layout : Paired(s, i)] ELSE slot[s]]
       /\ UNCHANGED due

\* The second transaction of the layout handler.
ReconcileLayout ==
  /\ up /\ saves > 0
  /\ Reconcile
  /\ saves' = saves - 1
  /\ UNCHANGED <<answer, layout, clock, tick, up, touched>>

\* It fails: the handler answers an error, the layout stays saved.
ReconcileFails ==
  /\ up /\ saves > 0
  /\ saves' = saves - 1
  /\ UNCHANGED <<runs, answer, layout, clock, tick, up, touched>>

\* The wall clock moves, whether or not the application runs.
Advance ==
  /\ \E d \in ClockSteps : clock' = clock + d
  /\ clock' \in 0..MaxTime
  /\ UNCHANGED <<runs, answer, layout, tick, saves, up, touched>>

\* A kill or a shutdown: what is committed stays, what was to come is lost.
Crash ==
  /\ up
  /\ up' = FALSE /\ tick' = Never /\ saves' = 0
  /\ UNCHANGED <<runs, answer, layout, clock, touched>>

\* TimerService.__init__ reconciles.
Restart ==
  /\ ~up
  /\ Reconcile
  /\ up' = TRUE
  /\ UNCHANGED <<answer, layout, clock, tick, saves, touched>>

Next ==
  \/ \E k \in Sent, w \in Slots :
       \/ \E d \in Durations : Start(k, w, d)
       \/ \E target \in 0..MaxRuns : Stop(k, target, w)
  \/ TickRead \/ TickCommit \/ TickFails
  \/ SaveLayout \/ ReconcileLayout \/ ReconcileFails
  \/ Advance \/ Crash \/ Restart

Spec == Init /\ [][Next]_vars

\* The scheduler goes on, and the database does not stay locked for ever.
FairSpec == Spec /\ WF_vars(TickRead) /\ SF_vars(TickCommit)

-----------------------------------------------------------------------------
(* Properties.                                                             *)

\* The shape of the state; a moment of the future may lie after MaxTime.
TypeOK ==
  /\ state \in [Runs -> RunState]
  /\ slot \in [Runs -> Slots]
  /\ due \in [Runs -> Nat]
  /\ ended \in [Runs -> Nat \union {Never}]
  /\ answer \in [Keys -> 0..MaxRuns]
  /\ layout \in Seq(Widgets)
  /\ \A i, j \in DOMAIN layout : layout[i] = layout[j] => i = j
  /\ clock \in 0..MaxTime
  /\ tick \in (0..MaxTime) \union {Never}
  /\ saves \in 0..MaxSaves
  /\ up \in BOOLEAN
  /\ touched \in [Keys -> SUBSET Runs]

\* No card ever has two running timers, whichever of start, unscoped start,
\* layout change and restart put them there: the code's own checks already
\* keep what the unique index hub_timer_widget_running would refuse.
OneRunPerCard ==
  \A s, t \in Running : slot[s] = slot[t] /\ slot[s] # NoWidget => s = t

\* A request key starts or stops at most one timer, however often it is sent:
\* a repeated stop of the current timer never stops the next one.
EffectOnce ==
  /\ \A k \in Keys : Cardinality(touched[k]) <= 1
  /\ \A k \in Keys : touched[k] # {} => touched[k] = {answer[k]}

\* A timer that expired ended at its deadline, one that was stopped ended
\* before it: an answered stop never takes back an expiry that was due.
EndedRight ==
  \A s \in Known :
    CASE state[s] = "running" -> ended[s] = Never
      [] state[s] = "expired" -> ended[s] = due[s]
      [] state[s] = "stopped" -> ended[s] < due[s]

\* What every card and every list of runs rests on.
TimersInv == TypeOK /\ OneRunPerCard /\ EndedRight

\* A run that exists keeps its deadline, a run that ended stays as it ended,
\* and a run is bound to a card once, while it runs, never moved.
RunStep ==
  \A s \in Known :
    /\ due'[s] = due[s]
    /\ state[s] # "running" => state'[s] \in {state[s], "pruned"} /\ ended'[s] = ended[s]
    /\ slot'[s] # slot[s] => /\ slot[s] = NoWidget /\ slot'[s] \in Placed
                            /\ state'[s] = "running"

\* No step removes a running timer, nor the last run of a card that is
\* placed, from which the card restores its duration after a reload.
LatestStep ==
  \A s \in Known : state'[s] = "pruned" =>
    /\ s \notin Going(clock)
    /\ slot[s] \in Placed => \E t \in Runs : t > s /\ slot'[t] = slot[s] /\ state'[t] \in Kept

\* What a page was told of a timer's end is what becomes of it: one that was
\* shown expired, its row still running, is never running or stopped later,
\* unless the clock is set back.
ShownStep ==
  clock' >= clock =>
    \A s \in DOMAIN Snapshot \intersect DOMAIN Snapshot' :
      Snapshot[s] = "expired" => Snapshot'[s] = "expired"

\* All three, in every step: what a run became stays with it, in the history
\* and on the screens too.
RunsStay == [][RunStep /\ LatestStep /\ ShownStep]_vars

\* In a server that stays up, with a clock that stays past the deadline, a
\* timer does not stay in state running, nor can the scheduler be kept from it.
DueExpires ==
  \A s \in Runs : ~<>[](up /\ state[s] = "running" /\ due[s] <= clock)

=============================================================================
