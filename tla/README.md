# Room Hub: a TLA+ verification project

Room Hub (`app/`) is the server of a room display: one Python process (FastAPI,
asyncio, SQLite) that keeps tasks, notes, alarms, timers and a widget layout,
transcribes recordings, and lets a small language model read and change that
data after a confirmation. Beside it run command-line tools on the same device:
an updater, the maintenance of the speech model, and a supervised local language
model (`deploy/termux/`). This directory holds the formal models of the stateful
core of both, the TLC runs that check them on small instances, and TLAPS proofs
that hold for every instance.

    tlc -workers 2 -config SpeechQueue.cfg MCSpeechQueue.tla
    tlapm SpeechQueue_proofs.tla

`PROJECT.json` lists the components, the runs, the source lines behind every
definition, the mutants of each property, the hazards and the theorems.

## 1. The system

### 1.1 Components, their state and operations

| Component | Source | State | Operations |
|---|---|---|---|
| Transcription queue | `app/speech.py`, voice handlers of `app/main.py` | `voice` and `speech_jobs` rows, `data/audio/*.bin`, `active_id`, `active_cancel`, worker task | upload, submit, enqueue, cancel, retry, review, delete, worker loop, start, close |
| Assistant request hub | `app/llm.py` | `llm_requests`, `llm_config`, worker task, `active_id` | submit, submit_transcription, retry, run_prepared, cancel, delete, configure, worker loop, fast path, start, close |
| Confirmed actions | `app/assistant.py`, `app/widget_bridge.py` | `assistant_runs` JSON records, `assistant_effects` ledger, `confirm_lock` | stage, stage_timer, confirm, cancel, replay |
| Widget registry and adapters | `app/widget_protocol/` | in-memory receipts, mutation lock, adapter threads | execute |
| Notes | `app/life.py` | `hub_notes`, `hub_life_receipts` | create, update, delete, snapshot, recheck |
| Tasks and series | `app/main.py`, `app/store.py`, `app/recurrence.py` | `tasks`, `series` | add (series), edit, complete, delete one/future/all |
| Timers | `app/timers.py`, layout handler of `app/main.py` | `hub_timers`, `hub_timer_requests`, revision | start, stop, tick, reconcile, snapshot |
| Alarms | `app/life.py` | `hub_alarms`, `hub_alarm_events`, receipts, revision | create, update, delete, tick, acknowledge, snooze |
| Dialog continuation | `app/dialog_service.py`, `app/dialog_state.py`, `app/slot_filling.py` | `dialog_state` inside assistant records | seed, reply, verify, stage |
| Language understanding | `app/memo_*.py`, `app/semantic_*.py`, `app/command_*.py`, `app/entity_*.py`, ... | none: functions of a text, a clock and the rows they read | parse, ground, route |
| Display projection | `app/llm_display.py` | none | project stored answers |
| Pairing, sessions, broadcast | `app/main.py`, `app/store.py` | `devices`, `pairs`, `sessions`, `connections`, `kv.revision` | pair, claim, revoke, websocket, changed |
| Weather | `app/main.py`, `app/weather.py` | `kv.weather`, `wx`, `wx_lock` | refresh, loop, settings change |
| Browser code | `web/`, `widgets/` | page state | load, retry, refresh, leave, render |
| Updates | `deploy/termux/update_from_git.py`, `remote_update.py`, `scripts/apply_*_update.py` | git clone, virtual environment, service, database copy; or a directory with its backups and receipts | deploy, roll back, verify; plan, back up, replace, undo, take back |
| Speech-model tools and laboratory | `deploy/termux/speech_model.py`, `cpu_lab*.py`, `stt_accuracy_cli.py` | `speech-config.json`, two snapshots of it, lock files | prepare, switch, restore, compare, threads, record, selftest |
| Local language model | `deploy/termux/qwen-runtime/` | binary, receipts, stop marker, supervisor, runner, engine | set up, download, smoke, serve, supervise |
| Benchmarks, scripts, Windows start files | `benchmarks/`, `scripts/`, `deploy/windows/` | run files | measure, package, check |

### 1.2 How they interact

* All handlers and both workers share **one event loop**; what lies between two
  `await`s is atomic with respect to other coroutines, not with respect to a
  kill of the process. Timers, alarms and adapters work in **threads**
  (`asyncio.to_thread`), one SQLite write transaction (`BEGIN IMMEDIATE`) at a
  time.
* The transcription worker hands a finished transcript to the request hub
  (`on_transcribed` = `LLMHub.submit_transcription`). The request hub waits
  with its own work while a transcription is active (`speech.active_id`).
* The request hub stages what a text asks for as a record; a confirmation
  carries it out through the widget registry and its adapters, whose
  transaction is not the ledger's. What lacks a value becomes a dialog, whose
  answers are requests of their own.
* Every change ends in `changed()`: a revision counter and a broadcast to the
  connected displays, which can fail after the change was committed.
* The layout decides which timers may be started by a display, to which cards
  old timers are bound, and which texts a display may show at all.
* Server and tools are separate processes. They meet in lock files (`flock`),
  in files replaced by rename, in the database, and in the runit service that
  the updater stops and starts.

### 1.3 What is hard, and what makes each component correct

| Component | Hard behaviour | What must hold |
|---|---|---|
| Transcription queue | cancel, retry, review and delete while the worker is inside an await; a kill between a file and its row; restart with jobs in progress | a job and its voice row agree; no second process for a recording; a cancellation reaches the process; bounded queue and attempts; no row without its recording; one hand-over per transcript; no starvation |
| Request hub, confirmed actions | double confirmation, retries sharing an `action_key`, cancellation during the adapter call, threads that outlive their caller, crash between adapter commit and receipt | a change happens at most once, is reported only if it happened, unknown outcomes stay unknown; no request is posted twice; every request ends, or was left by a database error |
| Widget registry, notes, tasks | one lock across execution, cancellation during execution, receipt capacity and restart, screens that edit the same rows | at most one change per key, no lost edit, every reply true, the lock always given back |
| Timers | concurrent starts on a card, layout saved and reconciled in two transactions, repeated requests, clock read before the transaction, clock set back | one run per card, a key has one effect, runs keep their deadline and end once, also as shown, pruning spares running timers and the last run of each card |
| Alarms | late ticks, snooze racing expiry, edits racing the tick, pruning | an occurrence rings at most once plus its snoozes, handled occurrences stay handled, nothing stays due, every visible change moves the revision |
| Dialog | two answers to the same question, expiry, deleted sources | one continuation per question, carried out only what was said in full, every answer ends |
| Spoken notes and tasks | rows renamed, hidden or deleted between catalogue, read, preview, confirmation and display; proposals not in the words | the answer is about what was asked, the change is of what was shown, nothing more is shown than the note widget shows |
| Pairing, broadcast, pages | links claimed twice, revocation racing sessions and handshakes, lost sends | a link pairs one display, a removed one is out and leaves, every page catches up |
| Weather | settings change during the fetch, or are saved half | stored weather belongs to the stored place, or is what the half-saved change left |
| Updates | failure at each step of stop, backup, merge, install, start, health check; files edited while a package is installed or taken back | source, packages and database belong together, nothing answered is lost, the service comes back; no text that nobody kept is overwritten, receipts are true but for a file caught by an interrupt |
| Speech-model tools | kills between two files, edits by hand, jobs queued meanwhile, engines that outlive their process | one living process at a time runs an engine, a way back, changes only when idle, no edit overwritten |
| Local language model | stop markers old and new, rebuild beside a test, a service stopped while it starts | only tested engines serve, an old request stops nothing, a stop ends the engine that has a runner |

The complete list, each hazard at its line and with the properties that cover
it (or why none does), is `hazards` in `PROJECT.json`.

## 2. Modules

| Module | Models | Checked by |
|---|---|---|
| `SpeechQueue` | transcription queue and voice inbox | `speech_queue` |
| `SpeechQueue_proofs` | theorems about `SpeechQueue` | TLAPS |
| `AssistantHub` | request hub with both engines | `assistant_hub`, `assistant_cancel_timer` |
| `ConfirmedAction` | abstract promise of a confirmed change | refined by `AssistantHub` |
| `WidgetRegistry` | registry, memo and task adapters, editing screens | `registry` |
| `SpokenNotes` | grounding of spoken requests, confirmation, projection | `spoken_notes` |
| `Dialog` | questions, answers and their proofs | `dialog` |
| `Timers` | timers and the layout handler | `timers` |
| `Alarms` | alarms, their occurrences and the scheduler | `alarms` |
| `Room` | pairing, sockets, broadcast, pages, weather | `room` |
| `GitUpdate` | updater of a clone, service, rollback | `updates` |
| `PatchUpdate` | offline updates of a directory and their way back | `updates` |
| `ModelTools` | maintenance commands beside the server | `model_tools` |
| `QwenRuntime` | set-up and supervision of the local model | `qwen_runtime` |
| `AssistantHub_proofs`, `Timers_proofs`, `WidgetRegistry_proofs`, `ModelTools_proofs` | theorems about the module of that name | TLAPS |
| `Room_proofs` | theorems about `Room` and `Alarms` | TLAPS |
| `Conversation_proofs` | theorems about `SpokenNotes` and `Dialog` | TLAPS |
| `Deployment_proofs` | theorems about `GitUpdate`, `PatchUpdate` and `QwenRuntime` | TLAPS |
| `MC...` | instances for TLC (symmetry, sets) | |

Modules that one proof module extends together keep their names apart: the
initial state, the steps and the specification of `Alarms` are `AlarmsInit`,
`AlarmsNext`, `AlarmsSpec`, those of `Dialog` `DialogInit`, ..., of `QwenRuntime`
`RuntimeInit`, ..., of `PatchUpdate` `PatchInit`, ...; the others are plain `Init`,
`Next`, `Spec`.

### 2.1 SpeechQueue

A recording `u` stands for one (owner, request id): its `voice` row, its
`speech_jobs` row and its file. `job`, `voice`, `text` and `attempts` are the
columns; `before` is the order of `created_at`; `files` the directory. `worker`
says at which `await` the worker task stands:

| `worker` | place in `SpeechHub._process` |
|---|---|
| `idle` | `_loop`, no job |
| `announce` | row is `running`, `await changed('speech.running')` |
| `run` | the child process |
| `told` | row is `succeeded`, `await changed('speech.succeeded')` |
| `sink` | `await on_transcribed(...)` |
| `failing` | `await changed('speech.failed')` |
| `off` | no task |

`gap` is the pair of a file operation and a row operation inside one handler:
no other coroutine runs there, but a kill can (`Crash`). `EngineChange` is an
edit of the configuration or a model file that comes or goes. The transcript,
formats, sizes and error texts are abstracted; `text` only remembers whether the
machine or a person wrote it last. `runs` and `handed` are history variables.

### 2.2 AssistantHub and ConfirmedAction

Requests are numbered in the order of creation. `kind` abstracts the routing of
a text: an exact read, a to-do change, a change through a widget adapter, a
direct timer control, plain text for the model without a record (`legacy`) or
with one and a check of the answer's quality (`chat`); `path` says whether the
handler (`fast`), a rule or the model produces the proposal. What a text means
is nondeterministic. `rec` is the state of the `assistant_runs` record, `ledger`
the row of `assistant_effects` under the family's `action_key`, `adapter` and
`orphans` the adapter calls in threads, with and without a living caller.

The database may fail wherever the code does not catch it: before the try of the
fast path or in its handler (`FastBreaks`), in the worker's query, in the
announcement that follows the commit of "running", or in the handler of another
failure (`WorkerBreaks`), and in the second transaction of a confirmation
(`ConfirmBreaks`). The worker ends with such an error, and a row it leaves as
"running" is remembered in `lost` until the next start interrupts it.

`ConfirmedAction` is what the docstrings promise: asked, made and answered at
most once, "done" only of a change that was made, "unknown" for ever.
`AssistantHub!PromiseKept` is the refinement: `asked` is the set of families
with a ledger row, `done` those with a change, `answer` the ledger's status.

### 2.3 WidgetRegistry

`execute()` from its checks to its reply: authorization by the digest of a
confirmed request, the mutation lock with its waiting calls in order, the
receipts, the adapter's work, the announcement. A memo is appended to in two
threads' transactions (`MemoRead`, `MemoWrite`), a note is created with a
receipt of its own in the database, a task handler commits before its first
await. `Cancel` is a caller that goes away; a thread that was writing goes on
as an `orphan` without the lock. Screens use the ordinary routes with the
version they loaded. The text of a row is the set of edits it holds, so that an
edit is lost exactly if the set is not complete. `added`, `created` count what
a key has inserted; `epoch` is the life of the process, whose receipts end with
it.

### 2.4 SpokenNotes

One request per sentence. `words` is what was said: kind, action, name,
identity, recency; `via` whether the server's own plan or the model proposes.
`Proposes` is what the grounding lets through of what a model may come up with
(`slots` stands for title, text, date and time: as said, omitted or invented).
`Matching`, `ByTitle`, `ByMention` and `ByReference` resolve a row; a named note
is read a second time (`ReadNamed`), a change waits (`awaiting`) until it is
confirmed, checked and written, each in its own transaction, while screens edit
(`Create`, `Edit`, `Delete`, `SetWall`, `Place`). `Shown` is what the reply
widget is given, `OnNoteWidget` what the note widget shows itself. A row's
version stands for its text.

### 2.5 Dialog

Rows are numbered as inserted. `state` holds the proof (root, answers with
their moments, time zone, missing values), owner, phase and child; `draft` the
question as a session loaded it, whose fingerprint goes back with the answer.
`reply()` has no await between check and insertion and is one action (`Reply`);
the lost response and the repeated answer are further `Reply`s from the same
draft. `Sourced` is `verify_sources()`.

### 2.6 Timers

Runs are numbered by `sequence`. Each handler is one transaction and reads the
clock inside it, so it is one action; `tick()` reads the clock first, so it is
two (`TickRead`, `TickCommit`), and other transactions fall in between. The
layout handler is two transactions (`SaveLayout`, `ReconcileLayout`), either of
which can be the last. The wall clock may be set back. A refused request rolls
back the expiry it had begun, hence changes nothing; so does a repeated key,
whose stored answer is returned before "current" is resolved. `Snapshot` is
what a page is told, which shows a due run as expired before its row is. Row
versions are left out: a running row always has version 1.

### 2.7 Alarms

A schedule is the set of moments it stands for: a single one, or one per `Week`
except the moments the local clock skips; `NextFire` is `next_fire()` over that
set. An occurrence is a pair of alarm and moment, as the unique key of
`hub_alarm_events` has it, and its row keeps state, `due_at`, `ring_until`,
version and snoozes. Three transactions decide on something older than
themselves, and each is split there: a scheduler round and an answer read the
clock first (`TickRead`/`TickCommit`, `AskBegin`/`Acknowledge`, `SnoozeIt`), an
edit computes its next moment first (`EditBegin`/`EditCommit`). `ask` also holds
what the screen showed. The four statements of a round are one action, applied
in their order by `Ticked` and `Retained`. `lifeRevision` is the parity of the
counter, which a transaction moves by one or not at all. Time is in small
units; what matters is the order of moments around `Ring`, `Grace` and
`Snooze`, exact equality included.

### 2.8 Room

A device is one link of the manager with its `pairs` and `sessions` rows. A
connection is `free`, `accepting` (inside `accept()`), `open` (in `connections`)
or `deaf` (taken out after a failed send, its coroutine still answering);
`late` marks one whose handshake overlapped the removal of its device.
`revoke()` is its transaction and then one connection at a time (`closing`). A
page has at most one load under way and at most one more wanted (`get`,
`again`). `refresh_weather()` is split at its await. The settings handler stores
the place and takes away the old report in two writes that commit one by one:
`SetPlace` is both, `SetPlaceFails` and `SetPlaceCrash` the first alone, and
`stale` remembers the report that was left.

### 2.9 GitUpdate, PatchUpdate, ModelTools, QwenRuntime

`GitUpdate`: `at` is the step before which the updater stands; each may fail,
be interrupted or be killed, and a failure leads into the rollback from where it
happened. `db` and `copy` keep the set of answered requests they hold, the
version that has opened them, and whether the copying was completed. `trouble`
collects what goes wrong in a rollback step itself and a kill, until the next
run that does something. A run that finds the target checked out ends as
`current` and is verified like one that has updated (`BeginVerify`); what
`OneVersion` says of its packages supposes that no earlier run was killed.

`PatchUpdate` covers `apply_life_update.py` (`script = "life"`) and the three
earlier scripts it grew out of (`"earlier"`), which note the baseline they
planned on instead of what they copied and refuse less. A file holds the
baseline (`Old`, which also stands for a file that is not there), the package's
text or one written by hand. Each file is compared (`Look`) and then replaced
(`Replace`), and an edit may fall in between; `late` remembers the files edited
after the script last looked at them, for which no script can answer. The file
is noted as written in a step of its own (`Note`), and an interrupt between the
two keeps it out of the undo (`skipped`). An update
whose rollback was killed between two files stays `applied`: a second rollback
refuses it, as in the code, and so does a new update while VERSION is still new.

`ModelTools`: each command takes its lock files in the order of `Needs` and
releases them when it ends or is killed; `cfg` is the live configuration,
`original` and `baseline` the two snapshots, each a file and its checksum,
which are two writes. The server is the launcher (lock, then port) and the
transcription queue as far as one job. The engine has a session of its own: a
process that is stopped ends it, one that is killed leaves it running (`orphans`)
while its locks are free.

`QwenRuntime`: `setup` is `inside-setup.sh` and a command typed beside it;
binaries are numbered. `outer` is `supervise.py`, `inner` `runtime.py serve`;
`asked` says whether the stop marker has changed since the inner process read
it, which is what the code compares. The engine is started (`Spawn`) before its
process record is written (`Record`), and that may fail outside the protected
loop; `stray` says that the engine has lost its runner in this way or by a kill
from outside, `ToldOnly` that the supervisor killed the runner while it waited
for the engine to end.

## 3. Runs

| Run | Instance | Shows |
|---|---|---|
| `speech_queue` | 2 recordings, 2 places, 2 attempts | the inductive invariant in all interleavings, finished jobs stay finished, a queued job leaves the queue once the service stays up |
| `assistant_hub` | 2 requests of every kind, 1 place | once-only, truthful records, cancellation, queue bound, refinement, database errors; every other request ends |
| `assistant_cancel_timer` | 2 timer requests | finding: a timer control that the model chose and a cancellation met in its adapter call was carried out |
| `registry` | 2 calls, 2 keys, 1 screen, 1 receipt, 1 restart | no lost edit, one change per key, true replies, no call stays in the lock |
| `spoken_notes` | 2 notes, 2 tasks, 2 titles, 2 requests of 8 sentences, 2 edits | what is answered, changed and shown |
| `dialog` | 1 root, 4 rows, 2 sessions, 2 turns, clock 0..2 in both directions | one continuation, said in full, every answer ends |
| `timers` | 2 cards, 3 keys, 3 runs, clock 0..2 in both directions | one run per card, one effect per key, faithful ends, pruning, screens; due timers expire |
| `alarms` | 1 alarm, 3 keys, 5 moments, 1 snooze, history of 1 | occurrences are neither lost, repeated nor revived; nothing stays due |
| `room` | 2 browsers, 1 device, 2 sockets, 2 places, 3 changes, 1 restart | one display per link, a removed one leaves, pages catch up, weather of the place, also when its change was stopped half way |
| `updates` | a clone with 2 runs, 2 requests, 3 starts; or a directory of 3 files with 2 updates, 2 edits by hand | versions together, nothing lost, the service comes back; verified also when there was nothing to do; only kept texts are overwritten, receipts are true |
| `model_tools` | 2 tools, 3 runs, 1 recording, 1 edit by hand | one living process runs an engine, a way back, changes only when idle and over what was read |
| `qwen_runtime` | 2 builds | only tested engines, stop requests old and new, an engine gone after a stop but for the disclosed exceptions |

**Why the bounds are enough.** Two recordings, two requests, two calls, two
tools are the pairs in which these systems interact: one that holds what the
other wants, or a retry beside its original. Two attempts are the smallest in
which a retry is allowed once and refused once. With two places for two
recordings the limit of the queue is never met in `speech_queue`; that a queue
keeps its limit, for any number of recordings and places, is the theorem
`Bounded` (and a conjunct of `IInv`, which is proved). In the hub, two requests
give the pairs of one family and of two, in either order. In `timers`, two
cards, one loose run and `MaxHistory = 1` make the last run of a card fall out
of the recent history; three request keys allow start, stop and repetition of
either. In `alarms`, `Ring` equals `Week`, so that an occurrence still rings
when the next one of the same alarm comes due, and the history of one has to
choose between them. In `registry`, one receipt makes the second key meet the
capacity, and one restart forgets the first; version 2 is the smallest that
makes an author of version 1 stale. In `dialog`, two turns for two missing
values let a dialog be completed, exhausted and cancelled; four rows allow two
answers to the same question. In `spoken_notes`, one title contains the other,
so an exact match, a partial one and an ambiguous one occur. In `room`, one
device and two browsers claim one link; two sockets let one connection of a
page end late while the next is open. In `updates`, three files are
VERSION, one already replaced and one not yet, and a second update finds what the
first left. In `model_tools`, a third run finds what two killed ones left. Every cap that is not a constant of the code (`N`,
`MaxRuns`, `MaxTime`, `MaxSaves`, `MaxEdits`, `MaxVersion`, `MaxRevision`, ...)
only ends behaviours early.

**Fairness.** `SpeechQueue`: `SF_vars(WorkerStep)`, since the event loop gives
every ready task its turn, the child process has a timeout, and the worker is
not ready only in the middle of a handler (`gap`), where no handler can yield;
`WF` on the second halves of handlers. `AssistantHub`: `WF` on the worker and on
the end of adapter calls (model calls time out, adapters are local
transactions); `EveryRequestEnds` supposes that recordings pause and that a dead
worker is replaced, which `configure()`, a later submission and a restart do and
`run_prepared()` does not, and says nothing of a row in `lost`. `Timers` and `Alarms`: `WF` on reading the clock and `SF` on the
tick's transaction: the database does not fail at every tick for ever.
`WidgetRegistry`, `Dialog`: `WF` on what the event loop and the thread pool do
by themselves. `Room`: the page polls every 30 seconds, the server answers what
reaches it, and of the requests that are repeated some get through (`SF`); dead
connections are noticed after 65 seconds. `GitUpdate`: the commands a step runs
end, and runit starts what is wanted up. `QwenRuntime`: processes that can run
do, and an engine told to end does, by SIGKILL at the latest, as long as its
runner waits for it; after the supervisor has killed the runner (three seconds,
where the runner would have waited eight) nobody is left to send it. Clients and
operators never owe a step. Liveness is stated for a server that stays up
(`Settled`, or no `Crash`), or holds through restarts.

**The clock** of `Alarms` only goes forward. After it is set back, an edit may
give an alarm a moment it has already rung at; `INSERT OR IGNORE` then counts
it as handled, by the unique key that `docs/NOTES_ALARMS.md` describes, and
`NextIsNew` does not hold. In a clock that goes forward it does, and the
`IGNORE` never takes effect.

**Deadlock** is checked in the runs of `SpeechQueue`, `AssistantHub`, `Timers`
and `Alarms`. The other models end where their caps do (calls are made once,
tools and updates are started a bounded number of times), and their
configurations say so.

## 4. Proofs

TLC checks small instances; the modules `*_proofs` prove the same properties for
every value of the constants that the named assumptions of the base module
allow. Each proof has the same plan: an inductive invariant (`IInv`; `AlarmsIInv`,
`DialogInv`, `UpdateInv`, `PatchInv`, `RuntimeInv` where several share a proof
module), a lemma that it holds initially, a lemma per action or group of actions
that it is kept, and a theorem that combines them. Each was checked by TLC
before it was proved.

| Module | For every | Theorem and property | What the invariant adds |
|---|---|---|---|
| `SpeechQueue_proofs` | finite set of recordings, positive limits | `Invariant`: `IInv` of the run; from it `TypeCorrect`, `Agreement`, `Bounded`, `HeldSafely`, `Counted`, `NoAudioLost`, `OneHandOver`; `Final`: `FinalStays` | `HeldJobKeepsPace`, `RowsAndFiles`, `AttemptLeft` |
| `AssistantHub_proofs` | number of requests, positive limits, kinds of request | `Honesty`: `Truthful`; `Once`: `WorkOnce`; `Final`: `FinalStays`; `Implements`: `PromiseKept` (the refinement of `ConfirmedAction`) | `Families`, `Ledgered`, `Adapting`, `Confirmed`, `Strays`, `Undone`, `Worked`, `Posted` |
| `Timers_proofs` | finite set of cards and keys, durations, movements of the clock, limits | `CardsAndEnds`: `TimersInv`; `OneEffect`: `EffectOnce`; `ThatRunsStay`: `RunsStay` | `Numbered`, `Tied` |
| `Room_proofs` | finite set of alarms, period, ring, grace and snooze times, limits, skipped moments | `AlarmsRight`: `AlarmsInv`; `AlarmsLast`: `AlarmsStand` | `Owned`, `Happened`, `OnSchedule`, `Validated`, `Seen`, `Counted` |
| | set of browsers, devices, sockets, places | `Paired`: `OneDisplayPerLink`; `Removed`: `RevokedIsOut`; `Weather`: `WeatherOfPlace` | `Spent`, `Offered` |
| `WidgetRegistry_proofs` | set of calls, keys, screens, items; positive limits | `Kept`: `NoLostEdit`; `Once`: `ChangedOnce`; `Truth`: `ReplyIsTrue` | `RowsOK`, `Shows`, `Told`, `Fit`, `Apart` |
| `Conversation_proofs` | set of notes, tasks, titles, sayings, requests; number of edits | `Hidden`: `NothingMoreShown`; `Meaning`: `AnswersWhatWasAsked`; `AsShown`: `ChangesWhatWasShown` | `Faithful`, `Meant`, `Known` |
| | number of rows and turns, set of sessions, owners, zones; movements of the clock | `Continued`: `OneContinuation`; `Said`: `OnlyWhatWasSaid` | `Formed`, `Linked`, `Apart` |
| `Deployment_proofs` | number of writes, starts, polls, runs | `Whole`: `OneVersion`; `Safe`: `NothingLost` | `CopyKept`, `Ahead`, `Back` |
| | set of files; number of updates, edits | `Patched`: `PatchesSafely` | `Honestly`, `Underway` |
| | number of builds | `Tested`: `OnlyTested`; `OwnStop`: `OldStopIgnored` | `OneTest`, `NoneMeanwhile`, `HeldOn`; `Unasked` for the second |
| `ModelTools_proofs` | set of tools, thread counts; number of runs, jobs, edits | `Exclusive`: `OneEngine`; `Reversible`: `WayBack`; `Careful`: `ChangedWithCare` | `Locked`, `Sound` |

Why the properties are not inductive alone:

* **SpeechQueue.** `HeldJobKeepsPace` says what the worker's place tells about
  the job it holds (without it `Launch` could start a process for a deleted
  row); `RowsAndFiles` that what a handler checked before its file operation
  still holds at its row operation (without it `SubmitRows` could exceed the
  queue); `AttemptLeft` that a waiting job has an unused attempt. The arithmetic
  on pending jobs is in `BoundKept` and `BoundGrows`, ranges of counters in
  `AttemptRange` and `Increment`.
* **AssistantHub.** That a change is made once needs to know who may still make
  it: the confirmation under way has the only reservation of its family
  (`Confirmed`), a thread without caller stands for a family whose outcome is
  unknown and is the only one (`Strays`), and the ledger says what the room says
  (`Ledgered`). `Families` keeps retries of different kinds apart, `Undone` that
  an open or cancelled request has changed nothing. `OneRequest` is the lemma
  for steps that touch a single request, `FirstChange` for those that change the
  room. In the refinement each commit maps to `Make`, the end of `confirm()` to
  `Say`, a to-do confirmation to `AtOnce`, everything else to a stutter.
* **Timers.** A start must not overwrite a run, so the runs are numbered as they
  start (`Numbered`); a key without answer has touched nothing (`Tied`). That a
  placed card keeps its last run when a start prunes needs the newest of a set
  of runs (`Newest`, by well-founded induction on its subsets); that a layout
  change binds one loose run per card needs that the rank of a run among others
  determines it (`Rank`).
* **WidgetRegistry.** A reply speaks of a change made earlier, so it must stay
  true: rows only grow (`Grow`, `ToldStable`). That a write has seen the last
  edit rests on what a screen shows and on what the thread read (`Shows`,
  `Fit`); one change per key on the mutation lock and the receipts (`Fit`), and
  on two calls with the same key never both being past them (`Apart`).
* **Room.** A token in a browser stems from a link that does not open again
  (`Spent`), an open link belongs to a device in use (`Offered`): otherwise a
  second claim, or a claim after removal, would be possible.
* **Alarms.** What a transaction decided before it began must still be right. An
  edit's moment lies after every occurrence because as long as the alarm has the
  version it was validated against no round has fired it (`Validated`), and what
  had happened by then is not in the future of the clock it read (`Happened`). An
  answer reaches the ring it was given for because every change of a row renews
  its version, and a row that left the history does not come back (`Seen`, with
  `NextIsNew`). A snoozed occurrence has a ring to come (`Counted`). That
  `next_fire()` finds a first moment rests on `Least` (well-founded induction on
  the natural numbers), that a weekly alarm always has one on `WeeklyGoesOn`: of
  two dates a week apart the local clock skips at most one.
* **SpokenNotes.** A request remembers a row as it was when it was read. Every
  write renews the version and no identity is used twice, so what is remembered
  is true of the row as long as the version is the same (`Faithful`). A target is
  one the words mean (`Meant`); `Known` says at which place of a request which of
  these facts holds. That the display shows nothing hidden follows from what a
  recheck compares.
* **Dialog.** A continued row has one child and the child names it (`Linked`), no
  two rows have the same parent (`Apart`), and every turn of a proof was said by
  the owner, in order and within the limit (`Formed`, `Linked`): so of two
  answers that load the same draft the second finds the question answered.
* **GitUpdate.** What a rollback may put together depends on how far the run had
  come: `Ahead` describes each step forward, `Back` each step back, `CopyKept`
  what the copy and the file hold.
* **PatchUpdate.** `Honestly` is what each backup says of what was found and
  copied; `Underway` what the script may rely on at each step about the files it
  has treated and those it has not, but for the ones edited since.
* **ModelTools.** `Locked` says which lock files a tool holds at each step, in
  the order it takes them; `Sound` what it knows there because nobody else can
  have changed it.
* **QwenRuntime.** One shell at a time tests (`OneTest`), it removes the
  certificate first (`NoneMeanwhile`), and who is about to certify or serve has
  a tested engine (`HeldOn`). The loop reads the marker anew before each engine,
  so that between the two only its own supervisor can have asked (`Unasked`).

**Assumptions.** The proofs use only the named assumptions of the base modules:
bounds are natural numbers, limits of the code positive, sets of recordings,
cards, keys and alarms finite, and a "none" is not a member of what it stands
beside (`NoneAssumption`, `NothingAssumption`, `AbsentAssumption`,
`ConstantsAssumption`). Four say something about data: in `SpokenNotes` the
titles, sayings and starting rows are of the kinds the code stores
(`SayingsAssumption`, `WithinAssumption`, `StartsAssumption`); in `Alarms` no two
skipped moments lie one `Week` apart (`AlarmAssumption`; `next_fire()` looks
fifteen days ahead and refuses a schedule without a date among them, and no time
zone leaves out one moment in two weeks running). TLC evaluates all of them.

**Only model-checked:** liveness (`QueueDrains`, `EveryRequestEnds`, `DueExpires`,
`NothingStaysDue`, `EveryCallEnds`, `EveryAnswerEnds`, `RevokedLeaves`,
`PagesCatchUp`, `ServiceComesBack`, `DownMeansGone`): fairness and `ENABLED` are
beyond the prover. Every other property of a passing run is a theorem.

## 5. What the runs found

* `app/widget_bridge.py:883` (`assistant_cancel_timer`): a timer control chosen
  by the model and cancelled during its adapter call is recorded as cancelled
  although the timer was started; `docs/LLM_WIDGET_BRIDGE.md` rules that out.

TLC's trace: the worker takes the request and posts it, the model's answer is
staged, `cancel()` finds neither `protocol_confirming` nor a ledger row and
writes "cancelled", the adapter's thread commits, and the status is kept while
the record says executed.

Met while modelling, and without a run of their own:

* `app/llm.py:533` and `:633`: the announcement of "running" comes after the
  commit and outside the try. If it fails (the revision is a database write) the
  worker ends and the row stays "running", counts towards `MAX_PENDING` and keeps
  `configure()` away until it is cancelled or the server starts again. The models
  have this (`lost`).
* `app/main.py:257`: place and weather are two commits. A failure or a kill
  between them leaves the report of the old place under the new one until the
  next successful fetch. `WeatherOfPlace` says so (`stale`).
* `deploy/termux/update_from_git.py:159`: after a run that was killed behind its
  merge, the next one reports ALREADY CURRENT and `remote_update.py` VERIFIED
  UPDATE COMPLETE, with the packages of the version before.
* `scripts/apply_life_update.py:158`: an interrupt between the replacement of a
  file and its entry in `written` leaves the new text, VERSION included, under a
  receipt that says `rolled_back`.
* `app/speech.py:101`: a tool or server that is killed leaves its engine running
  in a session of its own while the kernel frees its lock, so that another
  process may start a second engine.
* `deploy/termux/qwen-runtime/runtime.py:261`: the process record is written
  between the start of the engine and the `try` that ends it; if that fails, the
  engine goes on without a runner and `sv down` does not end it.
* `app/widget_protocol/adapters.py:99`: a read of the note edited last, when no
  note was ever saved, is answered `NOT_FOUND`; `docs/FAST_READS.md:59` promises
  the default card, labelled as such.

* `app/speech.py:438`: after a crash, a start without a usable engine returns
  before it fails interrupted jobs; `docs/SPEECH_API.md:21` says they are marked
  failed at restart. `SpeechQueue` has this start.
* `app/llm.py:411`: requests answered directly are inserted as running without
  meeting the limit of four; `docs/LLM_INTERFACE.md:105` states the limit for
  running and waiting requests together. `WorkOnce` bounds what the code bounds:
  the requests that wait for the model.
* `deploy/termux/update_from_git.py:231`: between the start of the new code and
  the health check requests are answered; a rollback after that restores the
  older copy and loses them. `NothingLost` speaks of those answered until the
  server was stopped.
* `widgets/llm-response/widget.js:16`: a page keeps an answer it has fetched
  under the request's own time stamp, so a note that turns private stays on that
  page until it reloads; `docs/FAST_READS.md:68` promises the check on each
  fetch.
* `deploy/termux/qwen-runtime/runtime.py:232`: a binary that is built beside a
  test can be certified by the test of its predecessor. `OnlyTested` says so
  (`replaced`).

## 6. Not modelled

* **Language.** The patterns over Korean text are a choice among what they may
  yield. `SpokenNotes` leaves out the cancellation of alarms by voice, date
  scopes of task lists, a `write` that renames, several note widgets (a target
  by widget id is the default), and truncated catalogues (the limits are
  enforced on insertion; a refusal is possible at every step anyway). Locks and
  receipts of the confirmation are in `AssistantHub` and `WidgetRegistry`.
* **Tasks.** Series are modelled as far as the last task takes the series row
  with it; the calendar arithmetic of recurrence is not.
* **Alarms.** Labels and the permission of a display: a manager may do the same.
* **Dialog.** A change of date is folded into the time limit.
* **Room.** Login and logout of managers, their sockets, remote commands and
  acknowledgements, the version check of the layout.
* **GitUpdate.** Beyond the rollback of one run: concurrent direct updaters; the
  migration of older installations and the start scripts.
* **ModelTools.** A server started around its launcher, the laboratory's
  profiles and reports, an engine that is not ready at start.
* **QwenRuntime.** `configure` (an HTTP conversation with the server), a
  SIGKILL of the supervisor, and what PRoot does to the processes inside when it
  is killed itself.
* HTTP validation, authentication headers, HTML, the drawing of widgets,
  benchmarks, packaging scripts and the Windows start files. `PROJECT.json`
  gives the reason for each component.

## 7. Plan

Modelled in this order: the queue and the request hub, timers and alarms; then
the registry with notes and tasks, displays and weather, the updater, the tools
around the models, dialogs and spoken requests; proofs beside the modules whose
invariants speak of unbounded repetition. Left, in order of value:

1. Managers: login, logout, remote commands and their acknowledgement in `Room`.
2. The calendar arithmetic of recurrence, as functions checked over bounded
   dates against a definition by enumeration.
3. `configure` of the local model and the laboratory's profiles.
4. A clock of `Alarms` that is set back, with the exception the documentation
   makes for it.
