------------------------------- MODULE Alarms -------------------------------
(***************************************************************************)
(* The alarms of app/life.py (class LifeService): schedules, the           *)
(* occurrences they leave, and the scheduler that rings them.              *)
(*                                                                         *)
(* Every handler and every scheduler round is one write transaction, but   *)
(* three of them decide on something older than their transaction: tick()  *)
(* and act() read the clock before it begins (tick, ask.now), and          *)
(* update_alarm() computes the next moment before it (edit.at).  What a    *)
(* screen showed, and the version it sends back, is older still.           *)
(*                                                                         *)
(* A schedule is the set of moments it stands for: one, or one per Week    *)
(* but for the moments the local clock skips (wall_instants of a date      *)
(* without that time).  An occurrence is identified by its alarm and its   *)
(* scheduled_at, as UNIQUE(alarm_id, scheduled_at) has it.  A display may  *)
(* act only while an alarm card is placed and a manager always may, with   *)
(* the same effect, so that refusal is left out; so are labels and the     *)
(* order of lists.                                                         *)
(***************************************************************************)
EXTENDS Integers, FiniteSets

CONSTANTS
  Alarms,       \* ids of alarms, each used once
  Keys,         \* request_id of create and act, numbered as they come in
  Week,         \* the period of a repeating alarm
  Skipped,      \* moments that do not exist on the local clock
  Ring,         \* RING_SECONDS
  Grace,        \* LATE_GRACE_SECONDS
  Snooze,       \* SNOOZE_SECONDS
  MaxSnoozes,   \* MAX_SNOOZES
  MaxAlarms,    \* MAX_ALARMS
  MaxEvents,    \* the recent occurrences tick() keeps, 100 in the code
  MaxReceipts,  \* MAX_RECEIPTS
  MaxTime,      \* bound: the last moment of the clock
  MaxEdits      \* bound: the last version of an alarm that is edited

ASSUME AlarmAssumption ==
  /\ IsFiniteSet(Alarms) /\ IsFiniteSet(Keys) /\ Keys \subseteq Nat
  /\ {Week, Ring, Snooze} \subseteq Nat \ {0}
  /\ {Grace, MaxSnoozes, MaxAlarms, MaxEvents, MaxReceipts, MaxTime, MaxEdits} \subseteq Nat
  /\ Skipped \subseteq Nat
  \* next_fire() looks two weeks ahead and refuses a schedule without a date
  \* among them; the local clock does not skip one moment two weeks in a row.
  /\ \A t \in Skipped : t + Week \notin Skipped

Moments == 0..MaxTime
Never   == -1
Nothing == [none |-> TRUE]

\* AlarmInput, reduced to what next_fire() reads: 'once' at some moment,
\* 'weekly' from some moment of the week.
Specs ==
  [repeat: {"once"}, at: Moments, enabled: BOOLEAN]
    \union [repeat: {"weekly"}, at: Moments \intersect (0..(Week - 1)), enabled: BOOLEAN]

Occurrences == Alarms \X Moments

VARIABLES
  alarm,     \* each id: "none", "live", "deleted"
  spec,      \* spec_json
  next,      \* next_fire, Never while NULL
  version,   \* the version of each alarm
  event,     \* the row of each occurrence: state, due_at, ring_until, version, snoozes
  lifeRevision, \* the parity of hub_life_meta.revision: a transaction adds one or none
  receipts,  \* hub_life_receipts
  clock,     \* the wall clock
  tick,      \* the clock as a scheduler round read it, Never between rounds
  edit,      \* an update between its validation and its transaction
  ask,       \* an act between its screen and clock, and its transaction
  up,        \* the application is running
  rung       \* history: how often each occurrence began to ring

rows == <<alarm, spec, next, version, event, rung>>
alarms == <<alarm, spec, next, version, event, lifeRevision, receipts, clock, tick,
          edit, ask, up, rung>>

NoEvent == [state |-> "none", due |-> 0, until |-> Never, version |-> 0, snoozes |-> 0]

Live  == {a \in Alarms : alarm[a] = "live"}
Shown == {"ringing", "snoozed", "missed"}
Known == {o \in Occurrences : event[o].state \notin {"none", "gone"}}

-----------------------------------------------------------------------------

AlarmsInit ==
  /\ alarm = [a \in Alarms |-> "none"]
  /\ spec = [a \in Alarms |-> CHOOSE s \in Specs : ~s.enabled]
  /\ next = [a \in Alarms |-> Never]
  /\ version = [a \in Alarms |-> 0]
  /\ event = [o \in Occurrences |-> NoEvent]
  /\ lifeRevision = 0
  /\ receipts = {}
  /\ clock = 0
  /\ tick = Never
  /\ edit = Nothing
  /\ ask = Nothing
  /\ up = TRUE
  /\ rung = [o \in Occurrences |-> 0]

-----------------------------------------------------------------------------
(* Schedules.                                                              *)

Instants(s) ==
  (IF s.repeat = "once" THEN {s.at} ELSE {s.at + Week * n : n \in 0..(MaxTime + 2)}) \ Skipped

Future(s, after) == {t \in Instants(s) : t > after}

\* next_fire(): the first moment after the given one, Never when disabled
\* or past.
NextFire(s, after) ==
  IF s.enabled /\ Future(s, after) # {}
  THEN CHOOSE t \in Future(s, after) : \A u \in Future(s, after) : t <= u
  ELSE Never

\* _validated_alarm(): an enabled alarm has a next moment.
Valid(s) == s.enabled => NextFire(s, clock) # Never

\* bump().
Bump == lifeRevision' = 1 - lifeRevision

\* _recorded(): an unknown key, and room for one more.
NewKey(k) == k \notin receipts /\ Cardinality(receipts) < MaxReceipts

\* The ids used so far and the next one.
Sent == {k \in Keys : \A q \in Keys : q < k => q \in receipts}

\* _receipt() bumps too.
Receipt(k) ==
  /\ receipts' = receipts \union {k}
  /\ Bump

-----------------------------------------------------------------------------
(* The manager.                                                            *)

\* create_alarm(): validation, limit, row and receipt in one transaction.
Create(k, a, s) ==
  /\ up /\ NewKey(k) /\ Valid(s)
  /\ alarm[a] = "none" /\ Cardinality(Live) < MaxAlarms
  /\ alarm' = [alarm EXCEPT ![a] = "live"]
  /\ spec' = [spec EXCEPT ![a] = s]
  /\ next' = [next EXCEPT ![a] = NextFire(s, clock)]
  /\ version' = [version EXCEPT ![a] = 1]
  /\ Receipt(k)
  /\ UNCHANGED <<event, clock, tick, edit, ask, up, rung>>

\* update_alarm() validates the new schedule and computes its next moment.
EditBegin(a, s) ==
  /\ up /\ edit = Nothing
  /\ a \in Live /\ Valid(s) /\ version[a] <= MaxEdits
  /\ edit' = [alarm |-> a, version |-> version[a], spec |-> s, at |-> NextFire(s, clock)]
  /\ UNCHANGED <<rows, lifeRevision, receipts, clock, tick, ask, up>>

\* Mutant of Current: the version is not compared.
CurrentAny(a, v) == a \in Live

\* _current() on hub_alarms.
Current(a, v) == a \in Live /\ version[a] = v

\* Mutant of Cancelled: only what rings is cancelled, a snooze survives.
CancelledRinging(a) ==
  [o \in Occurrences |->
     IF o[1] = a /\ event[o].state = "ringing"
     THEN [event[o] EXCEPT !.state = "cancelled", !.until = Never, !.version = @ + 1]
     ELSE event[o]]

\* Mutant of Cancelled: what was answered is cancelled as well.
CancelledAll(a) ==
  [o \in Occurrences |->
     IF o[1] = a /\ o \in Known
     THEN [event[o] EXCEPT !.state = "cancelled", !.until = Never, !.version = @ + 1]
     ELSE event[o]]

\* The occurrences after an edit of alarm a.
Cancelled(a) ==
  [o \in Occurrences |->
     IF o[1] = a /\ event[o].state \in Shown
     THEN [event[o] EXCEPT !.state = "cancelled", !.until = Never, !.version = @ + 1]
     ELSE event[o]]

\* Mutant of EditCommit: the revision is not bumped.
EditCommitSilent ==
  /\ up /\ edit # Nothing
  /\ Current(edit.alarm, edit.version)
  /\ spec' = [spec EXCEPT ![edit.alarm] = edit.spec]
  /\ next' = [next EXCEPT ![edit.alarm] = edit.at]
  /\ version' = [version EXCEPT ![edit.alarm] = @ + 1]
  /\ event' = Cancelled(edit.alarm)
  /\ edit' = Nothing
  /\ UNCHANGED <<alarm, lifeRevision, receipts, clock, tick, ask, up, rung>>

\* Its transaction: the schedule is replaced, what the old one left is
\* cancelled.
EditCommit ==
  /\ up /\ edit # Nothing
  /\ Current(edit.alarm, edit.version)
  /\ spec' = [spec EXCEPT ![edit.alarm] = edit.spec]
  /\ next' = [next EXCEPT ![edit.alarm] = edit.at]
  /\ version' = [version EXCEPT ![edit.alarm] = @ + 1]
  /\ event' = Cancelled(edit.alarm)
  /\ edit' = Nothing
  /\ Bump
  /\ UNCHANGED <<alarm, receipts, clock, tick, ask, up, rung>>

\* The alarm changed or went, or the database stayed locked.
EditFails ==
  /\ up /\ edit # Nothing
  /\ edit' = Nothing
  /\ UNCHANGED <<rows, lifeRevision, receipts, clock, tick, ask, up>>

\* delete_alarm(): the occurrences go with the row.
Delete(a) ==
  /\ up /\ a \in Live
  /\ alarm' = [alarm EXCEPT ![a] = "deleted"]
  /\ next' = [next EXCEPT ![a] = Never]
  /\ event' = [o \in Occurrences |->
       IF o[1] = a /\ o \in Known THEN [NoEvent EXCEPT !.state = "gone"] ELSE event[o]]
  /\ Bump
  /\ UNCHANGED <<spec, version, receipts, clock, tick, edit, ask, up, rung>>

-----------------------------------------------------------------------------
(* The scheduler.                                                          *)

\* run() starts a round: tick() reads the clock.
TickRead ==
  /\ up /\ tick = Never
  /\ tick' = clock
  /\ UNCHANGED <<rows, lifeRevision, receipts, clock, edit, ask, up>>

\* Mutant of Sounded: however late, it rings.
SoundedLate(e, due) ==
  [e EXCEPT !.state = "ringing", !.due = due, !.until = tick + Ring, !.version = @ + 1]

\* A row that is due at the given moment: it rings, or is missed when late.
Sounded(e, due) ==
  LET inTime == tick - due <= Grace
  IN [e EXCEPT !.state = IF inTime THEN "ringing" ELSE "missed",
               !.due = due,
               !.until = IF inTime THEN tick + Ring ELSE Never,
               !.version = @ + 1]

\* Mutant of Firing: the moment itself is too early.
FiringStrict == {a \in Live : next[a] # Never /\ next[a] < tick}

\* The alarms this round fires.
Firing == {a \in Live : next[a] # Never /\ next[a] <= tick}

\* An occurrence this round inserts; an existing row is left alone.
Fired(o) == o[1] \in Firing /\ o[2] = next[o[1]] /\ o \notin Known

\* A ring nobody answered.
Silenced(o) == event[o].state = "ringing" /\ event[o].until <= tick

Woken(o) == event[o].state = "snoozed" /\ event[o].due <= tick

\* Mutant of Ticked: a ring that ends keeps its version.
TickedSameVersion ==
  [o \in Occurrences |->
     IF Silenced(o) THEN [event[o] EXCEPT !.state = "missed", !.until = Never]
     ELSE IF Woken(o) THEN Sounded(event[o], event[o].due)
     ELSE IF Fired(o) THEN Sounded(NoEvent, o[2])
     ELSE event[o]]

\* The occurrences after the first three statements of the round.
Ticked ==
  [o \in Occurrences |->
     IF Silenced(o) THEN [event[o] EXCEPT !.state = "missed", !.until = Never, !.version = @ + 1]
     ELSE IF Woken(o) THEN Sounded(event[o], event[o].due)
     ELSE IF Fired(o) THEN Sounded(NoEvent, o[2])
     ELSE event[o]]

\* Mutant of Retained: the latest rows only, whatever their state.
RetainedLatest(ev) ==
  LET all == {o \in Occurrences : ev[o].state \notin {"none", "gone"}}
  IN {r \in SUBSET all : /\ Cardinality(r) <= MaxEvents
                         /\ \A o \in r, p \in all \ r : o[2] >= p[2]
                         /\ r # all => Cardinality(r) = MaxEvents}

\* The sets of rows the last one may keep: all that ring or are snoozed, and
\* the latest MaxEvents, in any order among those of one moment.
Retained(ev) ==
  LET all    == {o \in Occurrences : ev[o].state \notin {"none", "gone"}}
      recent == {r \in SUBSET all :
                   /\ Cardinality(r) = IF Cardinality(all) < MaxEvents
                                       THEN Cardinality(all) ELSE MaxEvents
                   /\ \A o \in r, p \in all \ r : o[2] >= p[2]}
  IN {r \union {o \in all : ev[o].state \in {"ringing", "snoozed"}} : r \in recent}

\* Mutant of After: a single alarm stays enabled.
AfterOnce(a) == spec[a]

\* The schedule of an alarm that fired: a single one is disabled.
After(a) == IF spec[a].repeat = "once" THEN [spec[a] EXCEPT !.enabled = FALSE] ELSE spec[a]

\* The transaction of a round.
TickCommit ==
  /\ up /\ tick # Never
  /\ \E keep \in Retained(Ticked) :
       event' = [o \in Occurrences |->
         IF Ticked[o].state \in {"none", "gone"} \/ o \in keep THEN Ticked[o]
         ELSE [NoEvent EXCEPT !.state = "gone"]]
  /\ spec' = [a \in Alarms |-> IF a \in Firing THEN After(a) ELSE spec[a]]
  /\ next' = [a \in Alarms |-> IF a \in Firing THEN NextFire(After(a), tick) ELSE next[a]]
  /\ version' = [a \in Alarms |-> IF a \in Firing THEN version[a] + 1 ELSE version[a]]
  /\ rung' = [o \in Occurrences |->
       IF (Fired(o) \/ Woken(o)) /\ Ticked[o].state = "ringing" THEN rung[o] + 1 ELSE rung[o]]
  /\ IF event' # event \/ Firing # {} THEN Bump ELSE UNCHANGED lifeRevision
  /\ tick' = Never
  /\ UNCHANGED <<alarm, receipts, clock, edit, ask, up>>

\* A locked or failing database: the next round tries again.
TickFails ==
  /\ up /\ tick # Never
  /\ tick' = Never
  /\ UNCHANGED <<rows, lifeRevision, receipts, clock, edit, ask, up>>

-----------------------------------------------------------------------------
(* Displays and manager: acknowledge and snooze.                           *)

\* A screen shows an occurrence; act() reads the clock.
AskBegin(o) ==
  /\ up /\ ask = Nothing
  /\ event[o].state \in Shown
  /\ ask' = [event |-> o, version |-> event[o].version, state |-> event[o].state, now |-> clock]
  /\ UNCHANGED <<rows, lifeRevision, receipts, clock, tick, edit, up>>

\* _current() on hub_alarm_events.
CurrentAsk == ask # Nothing /\ ask.event \in Known /\ event[ask.event].version = ask.version

Acknowledged(e) == [e EXCEPT !.state = "acknowledged", !.until = Never, !.version = @ + 1]

\* act('ack').
Acknowledge(k) ==
  /\ up /\ NewKey(k) /\ CurrentAsk
  /\ event[ask.event].state \in Shown
  /\ event' = [event EXCEPT ![ask.event] = Acknowledged(event[ask.event])]
  /\ ask' = Nothing
  /\ Receipt(k)
  /\ UNCHANGED <<alarm, spec, next, version, clock, tick, edit, up, rung>>

\* Mutant of MaySnooze: one snooze too many.
MaySnoozeMore(e) == e.state = "ringing" /\ e.until > ask.now /\ e.snoozes <= MaxSnoozes

MaySnooze(e) == e.state = "ringing" /\ e.until > ask.now /\ e.snoozes < MaxSnoozes

Snoozed(e) == [e EXCEPT !.state = "snoozed", !.due = ask.now + Snooze, !.until = Never,
                        !.snoozes = @ + 1, !.version = @ + 1]

\* act('snooze').
SnoozeIt(k) ==
  /\ up /\ NewKey(k) /\ CurrentAsk
  /\ MaySnooze(event[ask.event])
  /\ event' = [event EXCEPT ![ask.event] = Snoozed(event[ask.event])]
  /\ ask' = Nothing
  /\ Receipt(k)
  /\ UNCHANGED <<alarm, spec, next, version, clock, tick, edit, up, rung>>

\* A refusal, a repeated key, or a locked database.
AskFails ==
  /\ up /\ ask # Nothing
  /\ ask' = Nothing
  /\ UNCHANGED <<rows, lifeRevision, receipts, clock, tick, edit, up>>

-----------------------------------------------------------------------------

Advance ==
  /\ clock < MaxTime
  /\ clock' = clock + 1
  /\ UNCHANGED <<rows, lifeRevision, receipts, tick, edit, ask, up>>

\* A kill or a shutdown: what was under way and not committed is gone.
Crash ==
  /\ up
  /\ up' = FALSE /\ tick' = Never /\ edit' = Nothing /\ ask' = Nothing
  /\ UNCHANGED <<rows, lifeRevision, receipts, clock>>

\* LifeService.__init__ changes no row.
LifeRestarts ==
  /\ ~up
  /\ up' = TRUE
  /\ UNCHANGED <<rows, lifeRevision, receipts, clock, tick, edit, ask>>

AlarmsNext ==
  \/ \E a \in Alarms, s \in Specs :
       \/ \E k \in Sent : Create(k, a, s)
       \/ EditBegin(a, s)
  \/ EditCommit \/ EditFails
  \/ \E a \in Alarms : Delete(a)
  \/ TickRead \/ TickCommit \/ TickFails
  \/ \E o \in Occurrences : AskBegin(o)
  \/ \E k \in Sent : Acknowledge(k) \/ SnoozeIt(k)
  \/ AskFails
  \/ Advance \/ Crash \/ LifeRestarts

AlarmsSpec == AlarmsInit /\ [][AlarmsNext]_alarms

\* The rounds go on, and the database does not stay locked for ever.
AlarmsFairSpec == AlarmsSpec /\ WF_alarms(TickRead) /\ SF_alarms(TickCommit)

-----------------------------------------------------------------------------
(* Properties.                                                             *)

Row == [state: {"none", "gone", "acknowledged", "cancelled"} \union Shown,
        due: Nat, until: Nat \union {Never}, version: Nat, snoozes: 0..MaxSnoozes]

\* The shape of the state.
AlarmsTypeOK ==
  /\ alarm \in [Alarms -> {"none", "live", "deleted"}]
  /\ spec \in [Alarms -> Specs]
  /\ next \in [Alarms -> Nat \union {Never}]
  /\ version \in [Alarms -> Nat]
  /\ event \in [Occurrences -> Row]
  /\ lifeRevision \in {0, 1}
  /\ receipts \subseteq Keys
  /\ clock \in Moments
  /\ tick \in Moments \union {Never}
  /\ edit \in {Nothing} \union
       [alarm: Alarms, version: Nat, spec: Specs, at: Nat \union {Never}]
  /\ ask \in {Nothing} \union
       [event: Occurrences, version: Nat, state: Shown, now: Moments]
  /\ up \in BOOLEAN
  /\ rung \in [Occurrences -> Nat]

\* While the clock does not go back, an alarm's next moment lies after every
\* occurrence it has had, whatever an edit validated before a round that
\* fired the alarm: INSERT OR IGNORE never swallows an occurrence, and no
\* occurrence rings again after its row was removed from the history.
NextIsNew ==
  \A o \in Occurrences : o[1] \in Live /\ event[o].state # "none" =>
    next[o[1]] = Never \/ next[o[1]] > o[2]

\* An alarm is enabled exactly while it has a next moment to fire at: a
\* single alarm that fired, whoever answered it, is switched off, and a
\* weekly one is never left on without a date.
EnabledIsScheduled ==
  \A a \in Live : spec[a].enabled <=> next[a] # Never

\* What rings or is snoozed belongs to the schedule as it is now: an edit
\* leaves nothing of the old schedule that could still sound.
SoundsCurrent ==
  \A o \in Known : event[o].state \in {"ringing", "snoozed"} =>
    o[1] \in Live /\ o[2] \in Instants(spec[o[1]])

\* An occurrence begins to ring once and once more per snooze, and every
\* ring began no later than Grace after its moment, restarts and late rounds
\* included.
RingsInBounds ==
  \A o \in Known :
    /\ rung[o] <= event[o].snoozes + 1
    /\ event[o].state = "ringing" => event[o].until <= event[o].due + Grace + Ring

\* A display that sends back the current version saw the current state: no
\* snooze or acknowledgement meant for an earlier ring reaches a later one.
VersionTells ==
  CurrentAsk => event[ask.event].state = ask.state

\* An occurrence that was acknowledged or cancelled stays so until it leaves
\* the history; one that was missed never rings again; the number of snoozes
\* does not shrink.
FinalStep ==
  \A o \in Known :
    /\ event[o].state \in {"acknowledged", "cancelled"} =>
         event'[o].state \in {event[o].state, "gone"}
    /\ event[o].state = "missed" =>
         event'[o].state \in {"missed", "acknowledged", "cancelled", "gone"}
    /\ event'[o].state # "gone" => event'[o].snoozes >= event[o].snoozes

\* No round takes an occurrence that rings or is snoozed, and none of an
\* alarm that stays while fewer than MaxEvents later ones are there.
HistoryStep ==
  \A o \in Known : event'[o].state = "gone" /\ alarm'[o[1]] = "live" =>
    /\ event[o].state \in {"ringing", "snoozed"} => Ticked[o].state = "missed"
    /\ Cardinality({p \in Occurrences \ {o} :
         event'[p].state \notin {"none", "gone"} /\ p[2] >= o[2]}) >= MaxEvents

\* Whatever a display shows of the alarms changes only with the revision, by
\* which screens drop answers that come late.
RevisionStep ==
  UNCHANGED lifeRevision => UNCHANGED <<alarm, spec, next, version, event>>

\* All three, in every step: what was decided about an occurrence stands, and
\* no screen misses a change.
AlarmsStand == [][FinalStep /\ HistoryStep /\ RevisionStep]_alarms

\* What the screens and the room are promised in every state.
AlarmsInv ==
  /\ AlarmsTypeOK /\ NextIsNew /\ EnabledIsScheduled
  /\ SoundsCurrent /\ RingsInBounds /\ VersionTells

\* In a server that stays up nothing stays due: an alarm fires unless it is
\* edited or deleted, a ring nobody answers ends, and a snooze that is over
\* rings or is missed.
NothingStaysDue ==
  /\ \A a \in Alarms :
       ~<>[](up /\ a \in Live /\ next[a] # Never /\ next[a] <= clock)
  /\ \A o \in Occurrences :
       /\ ~<>[](up /\ event[o].state = "ringing" /\ event[o].until <= clock)
       /\ ~<>[](up /\ event[o].state = "snoozed" /\ event[o].due <= clock)

=============================================================================
