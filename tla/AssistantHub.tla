----------------------------- MODULE AssistantHub -----------------------------
(***************************************************************************)
(* The request hub of app/llm.py (class LLMHub) with the two engines that  *)
(* carry out what a request asks for: AssistantEngine of app/assistant.py  *)
(* (to-do changes in one transaction) and WidgetBridge of                  *)
(* app/widget_bridge.py (changes through a widget adapter, whose           *)
(* transaction is not the hub's).                                          *)
(*                                                                         *)
(* Requests are numbered in the order of their creation, so the oldest of  *)
(* a set is its least member; an id is used once.  A retry makes a new     *)
(* request of the same family: it inherits action_key, here the number of  *)
(* the family's first request.                                             *)
(*                                                                         *)
(* One asyncio loop: what lies between two awaits is one action.  An       *)
(* adapter works in a thread (asyncio.to_thread), so its commit is a step  *)
(* of its own between the call and the answer.                             *)
(***************************************************************************)
EXTENDS Integers, FiniteSets

CONSTANTS
  N,           \* bound: requests ever created
  MaxPending,  \* MAX_PENDING
  MaxHistory,  \* MAX_HISTORY
  Kinds        \* the kinds of request clients make

AllKinds == {"legacy", "chat", "read", "task", "widget", "timer"}

ASSUME HubAssumption ==
  /\ N \in Nat /\ MaxPending \in Nat \ {0} /\ MaxHistory \in Nat \ {0}
  /\ Kinds \subseteq AllKinds

Requests == 1..N
Nobody   == 0

VARIABLES
  status,      \* llm_requests.status; "none" before, "deleted" after the row's life
  kind,        \* how the text was routed (a retry keeps the text, hence the kind)
  path,        \* "fast": in the request handler; "rule", "model": by the worker
  key,         \* record['action_key']: the family
  rec,         \* state of the assistant record, "none" without one
  confirming,  \* record['protocol_confirming']
  ledger,      \* assistant_effects by action_key, "none" without a row
  enabled,     \* LLMConfig.enabled
  up,          \* the application is running
  listening,   \* speech.active_id is set
  worker,      \* where the worker task stands
  active,      \* active_id
  adapter,     \* the adapter call made for a request
  confirmer,   \* the request whose confirm() holds confirm_lock
  lost,        \* rows left running by a database error, in this process
  orphans,     \* requests whose adapter thread outlived its caller
  sent,        \* history: times the request was posted to the model
  applied      \* history: changes made on behalf of the request

row    == <<kind, path, key, lost>>
data   == <<status, rec, confirming, ledger>>
config == <<enabled, up, listening>>
task   == <<worker, active>>
calls  == <<adapter, confirmer, orphans>>
past   == <<sent, applied>>
vars   == <<status, kind, path, key, lost, rec, confirming, ledger, enabled, up, listening,
            worker, active, adapter, confirmer, orphans, sent, applied>>

ACTIVE    == {"queued", "running"}
Outcome   == {"awaiting_confirmation", "needs_clarification", "failed", "succeeded"}
Status    == ACTIVE \union Outcome \union
             {"none", "deleted", "prepared", "cancelled", "interrupted"}
RecState  == Outcome \union {"none", "new", "executed", "cancelled"}
Ledger    == {"none", "reserved", "complete", "uncertain"}
Place     == {"off", "idle", "announce", "call", "stage", "dead"}

\* Exact reads, direct widget changes and direct timer controls run in the
\* handler; to-do changes matched by a rule need no model.
Paths == [legacy |-> {"model"}, chat |-> {"model"}, read |-> {"fast"},
          task |-> {"rule", "model"}, widget |-> {"fast", "model"}, timer |-> {"fast", "model"}]

\* A text about no widget is legacy or chat, as its sender asks; what else a
\* text is follows from its words in every mode.
Kindred(k) == IF k \in {"legacy", "chat"} THEN {"legacy", "chat"} ELSE {k}

Stored  == {r \in Requests : status[r] \notin {"none", "deleted"}}
Pending == {r \in Requests : status[r] \in ACTIVE}

\* Mutant of StatusOf: the validation word ends up in the status column.
StatusRaw(x) == x

\* The request status that goes with a record state: "executed" is what a
\* record says (validation executed, already_executed), "succeeded" its status.
StatusOf(x) == IF x = "executed" THEN "succeeded" ELSE x

Applied(k) == \E r \in Requests : key[r] = k /\ applied[r] > 0

-----------------------------------------------------------------------------

Init ==
  /\ status = [r \in Requests |-> "none"]
  /\ kind = [r \in Requests |-> "legacy"]
  /\ path = [r \in Requests |-> "model"]
  /\ key = [r \in Requests |-> r]
  /\ rec = [r \in Requests |-> "none"]
  /\ confirming = [r \in Requests |-> FALSE]
  /\ ledger = [r \in Requests |-> "none"]
  /\ enabled = FALSE /\ up = FALSE /\ listening = FALSE
  /\ worker = "off" /\ active = Nobody
  /\ adapter = [r \in Requests |-> "none"]
  /\ confirmer = Nobody
  /\ orphans = {} /\ lost = {}
  /\ sent = [r \in Requests |-> 0]
  /\ applied = [r \in Requests |-> 0]

-----------------------------------------------------------------------------
(* Creating, queueing, cancelling and deleting requests.                   *)

Fresh(r) == status[r] = "none" /\ \A q \in 1..(r - 1) : status[q] # "none"

\* _ensure_worker(): a worker that died of an exception is replaced.
Revived == IF worker = "dead" THEN "idle" ELSE worker

\* attach(): a record takes its family's key from the record it retries.
Family(r, parent) ==
  IF parent = Nobody \/ rec[parent] = "none" THEN r ELSE key[parent]

\* submit(), submit_transcription() and retry(), all through _insert().  A known
\* request key returns the old request.  Only a queued request meets the
\* limit on pending ones.
Insert(r) ==
  /\ up /\ Fresh(r) /\ Cardinality(Stored) < MaxHistory
  /\ \E parent \in {Nobody} \union (Stored \ Pending), k \in Kinds :
     \E w \in Paths[k] :
       LET s == IF w = "fast" THEN "running"
                ELSE IF enabled \/ w = "rule" THEN "queued" ELSE "prepared"
       IN
       /\ parent # Nobody => k \in Kindred(kind[parent])
       /\ s = "queued" => Cardinality(Pending) < MaxPending
       /\ status' = [status EXCEPT ![r] = s]
       /\ kind' = [kind EXCEPT ![r] = k]
       /\ path' = [path EXCEPT ![r] = w]
       /\ key' = [key EXCEPT ![r] = Family(r, parent)]
       /\ rec' = [rec EXCEPT ![r] = IF k = "legacy" THEN "none" ELSE "new"]
       /\ adapter' = [adapter EXCEPT ![r] = IF w = "fast" THEN "busy" ELSE "none"]
       /\ worker' = IF s = "queued" THEN Revived ELSE worker
  /\ UNCHANGED <<lost, confirming, ledger, config, active, confirmer, orphans, past>>

\* Mutant of RunPrepared: the limit is forgotten.
RunPreparedUnlimited(r) ==
  /\ up /\ status[r] = "prepared" /\ enabled
  /\ status' = [status EXCEPT ![r] = "queued"]
  /\ UNCHANGED <<row, rec, confirming, ledger, config, task, calls, past>>

\* run_prepared(): the same snapshot, the same limit, no look at the worker.
RunPrepared(r) ==
  /\ up /\ status[r] = "prepared" /\ enabled
  /\ Cardinality(Pending) < MaxPending
  /\ status' = [status EXCEPT ![r] = "queued"]
  /\ UNCHANGED <<row, rec, confirming, ledger, config, task, calls, past>>

\* Records of the widget bridge carry record['widget_bridge'].
Bridged(r) == kind[r] \in {"read", "widget", "timer"} /\ rec[r] # "none"

\* Mutant of NotExecuting: the check is skipped.
Always(r) == TRUE

\* assert_not_executing()
NotExecuting(r) ==
  Bridged(r) => ~confirming[r] /\ ledger[key[r]] \notin {"reserved", "uncertain"}

\* cancel(): row and record at once; whoever works on the request finds out
\* later.
Cancel(r) ==
  /\ up /\ NotExecuting(r)
  /\ status[r] \in ACTIVE \union {"prepared", "awaiting_confirmation"}
  /\ status' = [status EXCEPT ![r] = "cancelled"]
  /\ rec' = [rec EXCEPT ![r] = IF @ = "none" THEN "none" ELSE "cancelled"]
  /\ UNCHANGED <<row, confirming, ledger, config, task, calls, past>>

\* delete(): the record goes with the row, the ledger stays.
Delete(r) ==
  /\ up /\ r \in Stored \ Pending
  /\ status' = [status EXCEPT ![r] = "deleted"]
  /\ rec' = [rec EXCEPT ![r] = "none"]
  /\ confirming' = [confirming EXCEPT ![r] = FALSE]
  /\ UNCHANGED <<row, ledger, config, task, calls, past>>

\* configure()
Configure ==
  /\ up /\ Pending = {}
  /\ enabled' \in BOOLEAN
  /\ worker' = IF enabled' THEN Revived ELSE worker
  /\ UNCHANGED <<row, data, up, listening, active, calls, past>>

-----------------------------------------------------------------------------
(* What processing a request comes to.                                     *)

\* parse_result(): a reply of the wrong shape is a failure.
Parsed == {"succeeded", "failed"}

\* assess(): a repetition, an echo or a reply cut short is not shown.
Assessed == {"succeeded", "needs_clarification"}

\* Mutant of Staged: any receipt of the family counts as a success.
StagedBlind(r) ==
  CASE kind[r] = "read"   -> Outcome \ {"awaiting_confirmation"}
    [] kind[r] = "timer"  ->
         {"failed"} \union
         (IF adapter[r] = "applied" THEN {"executed"} ELSE {"needs_clarification", "succeeded"})
    [] kind[r] \in {"task", "widget"} ->
         IF ledger[key[r]] = "none" THEN Outcome
         ELSE {"executed", "needs_clarification", "failed"}
    [] kind[r] = "chat" -> Assessed
    [] OTHER -> Parsed

\* AssistantEngine.stage(), WidgetBridge.stage(), fast_read() and
\* stage_timer(): the record state they store.  A family whose change is in
\* the ledger is not previewed again; an uncertain one is not decided.
Staged(r) ==
  CASE kind[r] = "read"   -> Outcome \ {"awaiting_confirmation"}
    [] kind[r] = "task"   ->
         IF ledger[key[r]] = "none" THEN Outcome \ {"failed"}
         ELSE {"executed", "needs_clarification"}
    [] kind[r] = "widget" ->
         {"needs_clarification", "failed"} \union
         (CASE ledger[key[r]] = "none"     -> {"awaiting_confirmation", "succeeded"}
            [] ledger[key[r]] = "complete" -> {"executed"}
            [] OTHER                       -> {})
    [] kind[r] = "timer"  ->
         {"failed"} \union
         (IF adapter[r] = "applied" THEN {"executed"} ELSE {"needs_clarification", "succeeded"})
    [] kind[r] = "chat" -> Assessed
    [] OTHER -> Parsed

\* Mutant of TimerCommit: no receipt is looked up.
TimerCommitAgain(r) ==
  /\ up /\ adapter[r] = "busy" /\ kind[r] = "timer"
  /\ adapter' = [adapter EXCEPT ![r] = "applied"]
  /\ applied' = [applied EXCEPT ![r] = @ + 1]
  /\ UNCHANGED <<row, data, config, task, confirmer, orphans, sent>>

\* A timer control is carried out without confirmation.  TimerService keeps
\* its receipt in the transaction of the change, so a repetition changes
\* nothing and gets the first answer.
TimerCommit(r) ==
  /\ up /\ adapter[r] = "busy" /\ kind[r] = "timer"
  /\ adapter' = [adapter EXCEPT ![r] = "applied"]
  /\ applied' = IF Applied(key[r]) THEN applied ELSE [applied EXCEPT ![r] = @ + 1]
  /\ UNCHANGED <<row, data, config, task, confirmer, orphans, sent>>

\* The end of _execute_fast_read(): the result is written whatever the status
\* has become; a deleted request fails on the foreign key instead.
FastDone(r) ==
  /\ up /\ adapter[r] # "none" /\ path[r] = "fast" /\ confirmer # r
  /\ adapter' = [adapter EXCEPT ![r] = "none"]
  /\ IF status[r] = "deleted"
       THEN UNCHANGED <<status, rec>>
       ELSE \E x \in Staged(r) :
              /\ rec' = [rec EXCEPT ![r] = x]
              /\ status' = [status EXCEPT ![r] = StatusOf(x)]
  /\ UNCHANGED <<row, confirming, ledger, config, task, confirmer, orphans, past>>

\* A database error left r as it is: nobody will end it if it was running.
Leave(r) == lost' = IF status[r] = "running" THEN lost \union {r} ELSE lost

\* The database fails before the try of _execute_fast_read(), or in its handler.
FastBreaks(r) ==
  /\ up /\ adapter[r] # "none" /\ path[r] = "fast" /\ confirmer # r
  /\ adapter' = [adapter EXCEPT ![r] = "none"]
  /\ Leave(r)
  /\ UNCHANGED <<kind, path, key, data, config, task, confirmer, orphans, past>>

-----------------------------------------------------------------------------
(* The worker: _loop(), _execute() and _execute_assistant().               *)

Oldest(r) == status[r] = "queued" /\ \A q \in 1..(r - 1) : status[q] # "queued"

Idle == worker' = "idle" /\ active' = Nobody

\* A running transcription is waited for; then notify('..running') is awaited.
\* The branches that put a request back to prepared because the connection
\* was switched off are not reached: see QueueBound.
Pick(r) ==
  /\ up /\ worker = "idle" /\ ~listening /\ Oldest(r)
  /\ kind[r] = "legacy" => enabled
  /\ status' = [status EXCEPT ![r] = "running"]
  /\ worker' = "announce" /\ active' = r
  /\ UNCHANGED <<row, rec, confirming, ledger, config, calls, past>>

\* The request was cancelled during the announcement.
Skip ==
  /\ up /\ worker = "announce" /\ status[active] # "running"
  /\ kind[active] = "legacy" => status[active] # "deleted"
  /\ Idle
  /\ UNCHANGED <<row, data, config, calls, past>>

\* ... and deleted: get() raises, also outside the try of _execute(), the exception
\* leaves _loop() and active_id keeps its value.
Die ==
  /\ up /\ worker = "announce"
  /\ kind[active] = "legacy" /\ status[active] = "deleted"
  /\ worker' = "dead"
  /\ UNCHANGED <<row, data, config, active, calls, past>>

\* dispatch_attempted is stored, then the model is called.  The code of
\* plain requests does not look at the switch again.
Dispatch ==
  /\ up /\ worker = "announce" /\ status[active] = "running"
  /\ path[active] = "model" /\ (kind[active] = "legacy" \/ enabled)
  /\ worker' = "call"
  /\ sent' = [sent EXCEPT ![active] = @ + 1]
  /\ UNCHANGED <<row, data, config, active, calls, applied>>

\* Mutant of Record: the status update has lost its WHERE status='running'.
RecordAnyway(r, x) ==
  /\ rec' = [rec EXCEPT ![r] = x]
  /\ status' = [status EXCEPT ![r] = StatusOf(x)]

\* A record state is stored unconditionally, a status only over 'running'.
Record(r, x) ==
  /\ rec' = [rec EXCEPT ![r] = x]
  /\ status' = [status EXCEPT ![r] = IF @ = "running" THEN StatusOf(x) ELSE @]

\* A rule's to-do change, or a stale request of any kind, ends here ...
Rule ==
  /\ up /\ worker = "announce" /\ status[active] = "running"
  /\ \/ path[active] = "rule" /\ \E x \in Staged(active) : Record(active, x)
     \/ kind[active] # "legacy" /\ Record(active, "needs_clarification")
  /\ Idle
  /\ UNCHANGED <<row, confirming, ledger, config, calls, past>>

\* ... a to-do change parsed by the model here, the model's own answer too ...
Answer ==
  /\ up /\ worker = "call" /\ kind[active] \in {"legacy", "chat", "task"}
  /\ IF status[active] = "deleted"
       THEN UNCHANGED <<status, rec>>
       ELSE \E x \in Staged(active) :
              IF kind[active] # "legacy" THEN Record(active, x)
              ELSE /\ status' = [status EXCEPT ![active] =
                                   IF @ = "running" THEN x ELSE @]
                   /\ UNCHANGED rec
  /\ Idle
  /\ UNCHANGED <<row, confirming, ledger, config, calls, past>>

\* ... and a widget proposal goes on to its adapter.
Propose ==
  /\ up /\ worker = "call" /\ kind[active] \in {"widget", "timer"}
  /\ worker' = "stage"
  /\ adapter' = [adapter EXCEPT ![active] = "busy"]
  /\ UNCHANGED <<row, data, config, active, confirmer, orphans, past>>

StageDone ==
  /\ up /\ worker = "stage"
  /\ adapter' = [adapter EXCEPT ![active] = "none"]
  /\ IF status[active] = "deleted"
       THEN UNCHANGED <<status, rec>>
       ELSE \E x \in Staged(active) : Record(active, x)
  /\ Idle
  /\ UNCHANGED <<row, confirming, ledger, config, confirmer, orphans, past>>

\* Mutant of CallFails: the error is swallowed.
CallFailsQuietly ==
  /\ up /\ worker = "call"
  /\ Idle
  /\ UNCHANGED <<row, data, config, calls, past>>

\* LLMFailure and every other exception end a row that still runs; the record
\* keeps its state.
Failed(r) == [status EXCEPT ![r] = IF @ = "running" THEN "failed" ELSE @]

\* The backend is away, busy, slow, too long or not JSON, or the reply is of
\* no use to its route.
CallFails ==
  /\ up /\ worker = "call"
  /\ status' = Failed(active)
  /\ Idle
  /\ UNCHANGED <<row, rec, confirming, ledger, config, calls, past>>

\* A database error outside a try ends the worker: in the loop's own query, in
\* an announcement (changed() bumps the revision; that of "running" comes after
\* the commit of the row and leaves active_id set), or in the handler that
\* was to store a failure.
WorkerBreaks ==
  /\ up
  /\ \/ worker = "idle" /\ UNCHANGED <<lost, active, adapter>>
     \/ worker = "announce" /\ Leave(active) /\ UNCHANGED <<active, adapter>>
     \/ /\ worker \in {"announce", "call", "stage"} /\ Leave(active)
        /\ active' = Nobody
        /\ adapter' = [adapter EXCEPT ![active] = "none"]
  /\ worker' = "dead"
  /\ UNCHANGED <<kind, path, key, data, config, confirmer, orphans, past>>

WorkerStep == \/ \E r \in Requests : Pick(r)
              \/ Skip \/ Die \/ Dispatch \/ Rule \/ Answer
              \/ Propose \/ StageDone \/ CallFails

-----------------------------------------------------------------------------
(* Confirmation by an administrator.                                       *)

\* AssistantEngine.confirm(): change, receipt and status in one transaction;
\* with a receipt already there only the request is brought up to date.
ConfirmTask(r) ==
  /\ up /\ kind[r] = "task" /\ rec[r] # "none"
  /\ \/ /\ ledger[key[r]] # "none"
        /\ UNCHANGED <<ledger, applied>>
     \/ /\ ledger[key[r]] = "none"
        /\ status[r] = "awaiting_confirmation" /\ rec[r] = "awaiting_confirmation"
        /\ ledger' = [ledger EXCEPT ![key[r]] = "complete"]
        /\ applied' = [applied EXCEPT ![r] = @ + 1]
  /\ status' = [status EXCEPT ![r] = "succeeded"]
  /\ rec' = [rec EXCEPT ![r] = "executed"]
  /\ UNCHANGED <<row, confirming, config, task, calls, sent>>

\* Mutant of Reserve: the ledger is not consulted.
ReserveAgain(r) ==
  /\ up /\ kind[r] = "widget" /\ confirmer = Nobody
  /\ status[r] = "awaiting_confirmation" /\ rec[r] = "awaiting_confirmation"
  /\ ledger' = [ledger EXCEPT ![key[r]] = "reserved"]
  /\ confirming' = [confirming EXCEPT ![r] = TRUE]
  /\ status' = [status EXCEPT ![r] = "running"]
  /\ confirmer' = r
  /\ adapter' = [adapter EXCEPT ![r] = "busy"]
  /\ UNCHANGED <<row, rec, config, task, orphans, past>>

\* WidgetBridge.confirm(): the reservation is committed before the adapter is
\* entered; a ledger row of the family refuses or answers without a change.
Reserve(r) ==
  /\ up /\ kind[r] = "widget" /\ confirmer = Nobody
  /\ ledger[key[r]] = "none"
  /\ status[r] = "awaiting_confirmation" /\ rec[r] = "awaiting_confirmation"
  /\ ledger' = [ledger EXCEPT ![key[r]] = "reserved"]
  /\ confirming' = [confirming EXCEPT ![r] = TRUE]
  /\ status' = [status EXCEPT ![r] = "running"]
  /\ confirmer' = r
  /\ adapter' = [adapter EXCEPT ![r] = "busy"]
  /\ UNCHANGED <<row, rec, config, task, orphans, past>>

\* The widget's own transaction, in the thread.
Commit ==
  /\ up /\ confirmer # Nobody /\ adapter[confirmer] = "busy"
  /\ adapter' = [adapter EXCEPT ![confirmer] = "applied"]
  /\ applied' = [applied EXCEPT ![confirmer] = @ + 1]
  /\ UNCHANGED <<row, data, config, task, confirmer, orphans, sent>>

\* A thread whose caller is gone still commits, also while the server shuts
\* down (asyncio.run() waits for the threads).
LateCommit(r) ==
  /\ r \in orphans
  /\ orphans' = orphans \ {r}
  /\ applied' = IF kind[r] = "timer" /\ Applied(key[r]) THEN applied
                ELSE [applied EXCEPT ![r] = @ + 1]
  /\ UNCHANGED <<row, data, config, task, adapter, confirmer, sent>>

\* The second transaction of confirm(): x is the record state, l the receipt.
Settle(x, l) ==
  /\ rec' = [rec EXCEPT ![confirmer] = x]
  /\ confirming' = [confirming EXCEPT ![confirmer] = FALSE]
  /\ status' = [status EXCEPT ![confirmer] = StatusOf(x)]
  /\ ledger' = [ledger EXCEPT ![key[confirmer]] = l]
  /\ confirmer' = Nobody
  /\ adapter' = [adapter EXCEPT ![confirmer] = "none"]

\* Success is only said of an adapter's success; a refusal or an error leaves
\* the outcome uncertain.
ConfirmDone ==
  /\ up /\ confirmer # Nobody
  /\ \/ adapter[confirmer] = "applied" /\ Settle("executed", "complete")
     \/ \E x \in {"needs_clarification", "failed"} : Settle(x, "uncertain")
  /\ UNCHANGED <<row, config, task, orphans, past>>

\* confirm() is cancelled while it waits: the thread goes on.
ConfirmAborted ==
  /\ up /\ confirmer # Nobody
  /\ Settle("needs_clarification", "uncertain")
  /\ orphans' = IF adapter[confirmer] = "busy" THEN orphans \union {confirmer} ELSE orphans
  /\ UNCHANGED <<row, config, task, past>>

\* The second transaction fails, after the call or after its cancellation:
\* the reservation and protocol_confirming stay.
ConfirmBreaks ==
  /\ up /\ confirmer # Nobody
  /\ Leave(confirmer)
  /\ confirmer' = Nobody
  /\ adapter' = [adapter EXCEPT ![confirmer] = "none"]
  /\ \/ UNCHANGED orphans
     \/ adapter[confirmer] = "busy" /\ orphans' = orphans \union {confirmer}
  /\ UNCHANGED <<kind, path, key, data, config, task, past>>

-----------------------------------------------------------------------------
(* The life of the process.                                                *)

Interrupted == [r \in Requests |-> IF r \in Pending THEN "interrupted" ELSE status[r]]

\* Mutants of Start: interrupted requests are left alone, or queued again.
StartAsIs ==
  /\ ~up
  /\ up' = TRUE
  /\ worker' = "idle"
  /\ orphans' = {}
  /\ UNCHANGED <<row, data, enabled, listening, active, adapter, confirmer, past>>

StartResends ==
  /\ ~up
  /\ up' = TRUE
  /\ status' = [r \in Requests |-> IF r \in Pending THEN "queued" ELSE status[r]]
  /\ worker' = "idle"
  /\ orphans' = {}
  /\ UNCHANGED <<row, rec, confirming, ledger, enabled, listening, active, adapter,
                 confirmer, past>>

Start ==
  /\ ~up
  /\ up' = TRUE
  /\ status' = Interrupted
  /\ worker' = "idle"
  /\ orphans' = {}
  /\ UNCHANGED <<row, rec, confirming, ledger, enabled, listening, active, adapter,
                 confirmer, past>>

\* close(): the server has answered its requests, but the handler that the
\* speech worker runs may be cancelled, as is the worker.
Close ==
  /\ up /\ confirmer = Nobody
  /\ up' = FALSE
  /\ status' = Interrupted
  /\ worker' = "off" /\ active' = Nobody
  /\ adapter' = [r \in Requests |-> "none"]
  /\ orphans' = orphans \union {r \in Requests : kind[r] = "timer" /\ adapter[r] = "busy"}
  /\ lost' = {}
  /\ UNCHANGED <<kind, path, key, rec, confirming, ledger, enabled, listening, confirmer, past>>

\* A kill or a power loss.
Crash ==
  /\ up
  /\ up' = FALSE
  /\ worker' = "off" /\ active' = Nobody
  /\ adapter' = [r \in Requests |-> "none"]
  /\ confirmer' = Nobody
  /\ orphans' = {} /\ lost' = {}
  /\ UNCHANGED <<kind, path, key, data, enabled, listening, past>>

\* The speech worker takes a job or releases one.
SpeechTurn ==
  /\ up /\ listening' = ~listening
  /\ UNCHANGED <<row, data, enabled, up, task, calls, past>>

Next ==
  \/ \E r \in Requests :
       \/ Insert(r) \/ RunPrepared(r) \/ Cancel(r) \/ Delete(r)
       \/ TimerCommit(r) \/ FastDone(r) \/ FastBreaks(r)
       \/ ConfirmTask(r) \/ Reserve(r) \/ LateCommit(r)
  \/ WorkerStep \/ WorkerBreaks
  \/ Commit \/ ConfirmDone \/ ConfirmAborted \/ ConfirmBreaks
  \/ Configure \/ Start \/ Close \/ Crash \/ SpeechTurn

Spec == Init /\ [][Next]_vars

\* Model and adapter calls end: the first at its timeout, the second with a
\* local transaction.  The loop serves every ready task; clients owe nothing.
FairSpec ==
  /\ Spec
  /\ WF_vars(WorkerStep)
  /\ WF_vars(ConfirmDone \/ ConfirmAborted)
  /\ \A r \in Requests : WF_vars(FastDone(r))

-----------------------------------------------------------------------------
(* Properties.                                                             *)

\* Every variable keeps its range, and a busy worker knows its request.
TypeOK ==
  /\ status \in [Requests -> Status]
  /\ kind \in [Requests -> AllKinds]
  /\ path \in [Requests -> {"fast", "rule", "model"}]
  /\ key \in [Requests -> Requests]
  /\ rec \in [Requests -> RecState]
  /\ confirming \in [Requests -> BOOLEAN]
  /\ ledger \in [Requests -> Ledger]
  /\ enabled \in BOOLEAN /\ up \in BOOLEAN /\ listening \in BOOLEAN
  /\ worker \in Place
  /\ active \in Requests \union {Nobody}
  /\ worker \in {"announce", "call", "stage"} => active \in Requests
  /\ adapter \in [Requests -> {"none", "busy", "applied"}]
  /\ confirmer \in Requests \union {Nobody}
  /\ orphans \in SUBSET Requests /\ lost \in SUBSET Requests
  /\ sent \in [Requests -> Nat]
  /\ applied \in [Requests -> Nat]

\* However often a request is retried, confirmed twice, cut off by a crash or
\* finished by a stray thread: its family changes the room at most once.
OnceOnly ==
  /\ \A r \in Requests : applied[r] <= 1
  /\ \A r, q \in Requests :
       key[r] = key[q] /\ applied[r] > 0 /\ applied[q] > 0 => r = q

\* A record says "executed" (to the display and to the administrator) only of
\* a change that some request of the family really made.
SaidIsDone == \A r \in Requests : rec[r] = "executed" => Applied(key[r])

\* A request shown as cancelled has changed nothing, if the change was one to
\* be confirmed: cancel() refuses once the adapter has been entered.
CancelledDidNothing ==
  \A r \in Requests :
    status[r] = "cancelled" /\ kind[r] # "timer" => applied[r] = 0

\* No ghosts but those of a database error: in a running server, a row says
\* 'running' while the worker, a handler or a confirmation is at it, or since
\* one of them could not store or announce in this same process.
RunningIsHeld ==
  up => \A r \in Requests : status[r] = "running" =>
          \/ r \in lost
          \/ r = active /\ worker \in {"announce", "call", "stage"}
          \/ adapter[r] # "none"

\* What a person is told is true, on every path and after every failure.
Truthful == TypeOK /\ SaidIsDone /\ CancelledDidNothing

\* A request is posted to the model at most once in its life, also across
\* restarts: "never resend".
SentOnce == \A r \in Requests : sent[r] <= 1

\* Insertion and run_prepared() keep the queue within MAX_PENDING, and no
\* request for the model waits for a connection that was switched off, since
\* configure() and the two of them look at each other's state.
QueueBound ==
  /\ Cardinality({r \in Requests : status[r] = "queued"}) <= MaxPending
  /\ ~enabled => \A r \in Pending : kind[r] \notin {"legacy", "chat"}

\* Nothing is done or sent twice, whoever replaces a dead worker; a row is left
\* running only by a database error and until the next start; and the queue
\* keeps its limit.
WorkOnce == OnceOnly /\ SentOnce /\ RunningIsHeld /\ QueueBound

\* A finished request keeps its status until it is deleted, or is told that
\* its family's to-do change is in the ledger; cancelled is final as well,
\* except against the unguarded update of a handler in flight.
FinalStays ==
  [][\A r \in Requests :
       \/ status[r] \notin {"succeeded", "failed", "interrupted", "needs_clarification"}
                         \union (IF path[r] = "fast" THEN {} ELSE {"cancelled"})
       \/ status'[r] \in {status[r], "deleted"}
       \/ status'[r] = "succeeded" /\ ledger'[key[r]] # "none"]_vars

\* The change behind a confirmation keeps the abstract promise.
Promise == INSTANCE ConfirmedAction WITH
    Actions <- Requests,
    asked <- {k \in Requests : ledger[k] # "none"},
    done <- {k \in Requests : kind[k] # "timer" /\ Applied(k)},
    answer <- [k \in Requests |->
                 CASE ledger[k] \in {"none", "reserved"} -> "none"
                   [] ledger[k] = "complete" -> "done"
                   [] OTHER -> "unknown"]
PromiseKept == Promise!Spec

\* In a server that stays up, once no recording is transcribed and if a worker
\* that died is replaced, each queued or running request comes to an end, or
\* is one that a database error left behind.
Settled == <>[](up /\ ~listening) /\ []<>(worker # "dead")
EveryRequestEnds ==
  Settled => \A r \in Requests :
               status[r] \in ACTIVE ~> status[r] \notin ACTIVE \/ r \in lost

\* docs/LLM_WIDGET_BRIDGE.md: a cancellation during execution is not shown as
\* "the change was cancelled".  Here: of a request the model chose, whose
\* adapter call has ended and whose record has the outcome.
CancelNeverLies ==
  \A r \in Requests :
    status[r] = "cancelled" /\ path[r] = "model" /\ rec[r] = "executed"
      => applied[r] = 0
=============================================================================
