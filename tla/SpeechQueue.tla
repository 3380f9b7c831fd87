----------------------------- MODULE SpeechQueue -----------------------------
(***************************************************************************)
(* The transcription queue of app/speech.py (class SpeechHub) together     *)
(* with the voice-inbox handlers of app/main.py that touch the same rows   *)
(* and files.                                                              *)
(*                                                                         *)
(* A recording u stands for one (owner, request_id) pair, i.e. for the row *)
(* of voice, the row of speech_jobs (UNIQUE voice_id, UNIQUE owner and     *)
(* request_id) and the file data/audio/<voice>.bin that belong to it.      *)
(*                                                                         *)
(* The program is one asyncio event loop: a handler runs alone until it    *)
(* awaits, so everything between two awaits is one action.  The exception  *)
(* is the pair "file, row": a kill of the process can fall between the two *)
(* (variable gap), although no other handler can.                          *)
(***************************************************************************)
EXTENDS Integers, FiniteSets

CONSTANTS
  Recordings,   \* the recordings clients may send
  MaxPending,   \* SpeechConfig.max_pending
  MaxAttempts,  \* the literal 3 of retry()
  Nobody        \* active_id = None, and gap = None

ASSUME SpeechAssumption ==
  /\ Nobody \notin Recordings
  /\ IsFiniteSet(Recordings)
  /\ MaxPending \in Nat \ {0}
  /\ MaxAttempts \in Nat \ {0}

VARIABLES
  job,       \* speech_jobs.status, "none" without a row
  voice,     \* voice.status, "none" without a row
  text,      \* voice.text: "", or who wrote it
  attempts,  \* speech_jobs.attempts
  before,    \* <<u, w>>: u's job has the smaller created_at
  files,     \* recordings whose file is on disk
  gap,       \* a file operation whose row operation is still to come, or reverse
  up,        \* the application is running
  ready,     \* SpeechConfig.readiness(): engine configured and installed
  worker,    \* where the worker task stands
  active,    \* active_id
  stop,      \* active_cancel.is_set()
  runs,      \* history: child processes started since the job was created
  handed     \* history: calls of on_transcribed since the job was created

rows   == <<job, voice, text, attempts, before>>
hidden == <<runs, handed>>
vars   == <<job, voice, text, attempts, before, files, gap, up, ready, worker,
            active, stop, runs, handed>>

ACTIVE      == {"queued", "running"}
JobStatus   == ACTIVE \union {"none", "succeeded", "failed", "cancelled"}
Transcribe  == {"transcription_queued", "transcribing", "transcription_failed",
                "transcription_cancelled"}
Reviewed    == {"pending_review", "reviewed", "dismissed"}
VoiceStatus == {"none", "awaiting_transcription"} \union Transcribe \union Reviewed
Place       == {"off", "idle", "announce", "run", "told", "sink", "failing"}
Gap         == {<<Nobody, "none">>} \union
               (Recordings \X {"submit", "upload", "delete"})

VOICE_STATUS ==
  [queued |-> "transcription_queued", running |-> "transcribing",
   succeeded |-> "pending_review", failed |-> "transcription_failed",
   cancelled |-> "transcription_cancelled"]

Whole == <<Nobody, "none">>

Active  == {u \in Recordings : job[u] \in ACTIVE}
Queued  == {u \in Recordings : job[u] = "queued"}
HasJob  == {u \in Recordings : job[u] # "none"}

Capacity == Cardinality(Active) < MaxPending

\* The worker exists, so status() reports ready only when it is alive.
RequireReady == ready /\ worker # "off"

\* No handler is in progress: requests are served between two awaits.
Serving == up /\ gap = Whole

\* Both statuses of a recording change in one transaction.
SetJob(u, status) ==
  /\ job' = [job EXCEPT ![u] = status]
  /\ voice' = [voice EXCEPT ![u] = VOICE_STATUS[status]]

\* A new job row: created last, first attempt.
NewJob(u) ==
  /\ SetJob(u, "queued")
  /\ attempts' = [attempts EXCEPT ![u] = 1]
  /\ before' = before \union (HasJob \X {u})
  /\ runs' = [runs EXCEPT ![u] = 0]
  /\ handed' = [handed EXCEPT ![u] = 0]

-----------------------------------------------------------------------------

Init ==
  /\ job = [u \in Recordings |-> "none"]
  /\ voice = [u \in Recordings |-> "none"]
  /\ text = [u \in Recordings |-> ""]
  /\ attempts = [u \in Recordings |-> 0]
  /\ before = {}
  /\ files = {}
  /\ gap = Whole
  /\ up = FALSE
  /\ ready \in BOOLEAN
  /\ worker = "off"
  /\ active = Nobody
  /\ stop = FALSE
  /\ runs = [u \in Recordings |-> 0]
  /\ handed = [u \in Recordings |-> 0]

-----------------------------------------------------------------------------
(* Requests.                                                               *)

\* Mutant of SubmitFile: the lookup of known requests is gone.
SubmitKnown(u) ==
  /\ Serving /\ job[u] = "none"
  /\ RequireReady /\ Capacity
  /\ files' = files \union {u}
  /\ gap' = <<u, "submit">>
  /\ UNCHANGED <<rows, up, ready, worker, active, stop, hidden>>

\* submit(): a known (owner, request_id) returns the existing job without
\* any change; a new one passes readiness and capacity, then the file is
\* written inside the transaction that inserts the rows.
SubmitFile(u) ==
  /\ Serving /\ voice[u] = "none"
  /\ RequireReady /\ Capacity
  /\ files' = files \union {u}
  /\ gap' = <<u, "submit">>
  /\ UNCHANGED <<rows, up, ready, worker, active, stop, hidden>>

SubmitRows(u) ==
  /\ up /\ gap = <<u, "submit">>
  /\ NewJob(u)
  /\ text' = [text EXCEPT ![u] = ""]
  /\ gap' = Whole
  /\ UNCHANGED <<files, up, ready, worker, active, stop>>

\* voice_upload(): the intake endpoint stores the file first, then the row;
\* no job until an administrator asks for one.
UploadFile(u) ==
  /\ Serving /\ voice[u] = "none"
  /\ files' = files \union {u}
  /\ gap' = <<u, "upload">>
  /\ UNCHANGED <<rows, up, ready, worker, active, stop, hidden>>

UploadRow(u) ==
  /\ up /\ gap = <<u, "upload">>
  /\ voice' = [voice EXCEPT ![u] = "awaiting_transcription"]
  /\ text' = [text EXCEPT ![u] = ""]
  /\ gap' = Whole
  /\ UNCHANGED <<job, attempts, before, files, up, ready, worker, active, stop, hidden>>

\* Both handlers unlink the new file when the transaction fails.
StoreFails(u) ==
  /\ up /\ gap \in {<<u, "submit">>, <<u, "upload">>}
  /\ files' = files \ {u}
  /\ gap' = Whole
  /\ UNCHANGED <<rows, up, ready, worker, active, stop, hidden>>

\* enqueue_existing() on a row without a job.
EnqueueExisting(u) ==
  /\ Serving /\ voice[u] # "none" /\ job[u] = "none"
  /\ RequireReady /\ u \in files /\ Capacity
  /\ NewJob(u)
  /\ UNCHANGED <<text, files, gap, up, ready, worker, active, stop>>

\* Mutant of Cancel: the row is updated, the child process is not told.
CancelRowOnly(u) ==
  /\ Serving /\ job[u] \in ACTIVE
  /\ SetJob(u, "cancelled")
  /\ UNCHANGED <<text, attempts, before, files, gap, up, ready, worker, active, stop, hidden>>

\* cancel(): the status changes at once, a live child process is only told.
Cancel(u) ==
  /\ Serving /\ job[u] \in ACTIVE
  /\ SetJob(u, "cancelled")
  /\ stop' = (stop \/ active = u)
  /\ UNCHANGED <<text, attempts, before, files, gap, up, ready, worker, active, hidden>>

\* The update of retry().
Requeue(u) ==
  /\ SetJob(u, "queued")
  /\ attempts' = [attempts EXCEPT ![u] = @ + 1]
  /\ UNCHANGED <<text, before, files, gap, up, ready, worker, active, stop, hidden>>

\* Mutants of Retry: without the cap on attempts; while the old process is
\* still winding down; of a job that already succeeded.
RetryUncapped(u) ==
  /\ Serving /\ job[u] \in {"failed", "cancelled"} /\ active # u
  /\ RequireReady /\ Capacity /\ Requeue(u)

RetryWhileStopping(u) ==
  /\ Serving /\ job[u] \in {"failed", "cancelled"}
  /\ RequireReady /\ attempts[u] < MaxAttempts /\ Capacity /\ Requeue(u)

RetryFinished(u) ==
  /\ Serving /\ job[u] \in {"failed", "cancelled", "succeeded"} /\ active # u
  /\ RequireReady /\ attempts[u] < MaxAttempts /\ Capacity /\ Requeue(u)

\* retry(), also reached from enqueue_existing() when a job exists.
Retry(u) ==
  /\ Serving /\ job[u] \in {"failed", "cancelled"}
  /\ active # u
  /\ RequireReady
  /\ attempts[u] < MaxAttempts
  /\ Capacity
  /\ Requeue(u)

\* Mutant of NotRunning: only the worker's own job is protected.
NotHeld(u) == active # u

\* ensure_not_running(): neither queued, running, nor still winding down.
NotRunning(u) == job[u] \notin ACTIVE /\ active # u

\* PATCH /api/voice/{id}: an administrator edits the text and sets the status.
Review(u) ==
  /\ Serving /\ voice[u] # "none" /\ NotRunning(u)
  /\ \E t \in {text[u], "human"}, s \in Reviewed :
       /\ s = "pending_review" => t # ""
       /\ text' = [text EXCEPT ![u] = t]
       /\ voice' = [voice EXCEPT ![u] = s]
  /\ UNCHANGED <<job, attempts, before, files, gap, up, ready, worker, active, stop, hidden>>

\* Mutant of DeleteRow: the file goes before the row.
DeleteFileFirst(u) ==
  /\ Serving /\ voice[u] # "none" /\ NotRunning(u)
  /\ files' = files \ {u}
  /\ UNCHANGED <<rows, gap, up, ready, worker, active, stop, hidden>>

\* DELETE /api/voice/{id}: the row goes (and the job with it), then the file.
\* ensure_voice_deletable() may refuse as well; it only removes behaviours.
DeleteRow(u) ==
  /\ Serving /\ voice[u] # "none" /\ NotRunning(u)
  /\ job' = [job EXCEPT ![u] = "none"]
  /\ voice' = [voice EXCEPT ![u] = "none"]
  /\ text' = [text EXCEPT ![u] = ""]
  /\ attempts' = [attempts EXCEPT ![u] = 0]
  /\ before' = {p \in before : u \notin {p[1], p[2]}}
  /\ runs' = [runs EXCEPT ![u] = 0]
  /\ handed' = [handed EXCEPT ![u] = 0]
  /\ gap' = <<u, "delete">>
  /\ UNCHANGED <<files, up, ready, worker, active, stop>>

DeleteFile(u) ==
  /\ up /\ gap = <<u, "delete">>
  /\ files' = files \ {u}
  /\ gap' = Whole
  /\ UNCHANGED <<rows, up, ready, worker, active, stop, hidden>>

-----------------------------------------------------------------------------
(* The worker: _loop() and _process().                                     *)

\* Mutant of Oldest: last in, first out.
Newest(u) == u \in Queued /\ \A w \in Queued \ {u} : <<w, u>> \in before

Oldest(u) == u \in Queued /\ \A w \in Queued \ {u} : <<u, w>> \in before

\* The select of _loop() and the guarded update that opens _process() have
\* no await between them; then changed('speech.running') is awaited.
Pick(u) ==
  /\ up /\ gap = Whole /\ worker = "idle" /\ ready
  /\ Oldest(u)
  /\ SetJob(u, "running")
  /\ active' = u /\ stop' = FALSE
  /\ worker' = "announce"
  /\ UNCHANGED <<text, attempts, before, files, gap, up, ready, hidden>>

\* The child processes are started unless the job was cancelled meanwhile
\* (_run_process() looks at the event first).
Launch ==
  /\ up /\ gap = Whole /\ worker = "announce" /\ ~stop
  /\ worker' = "run"
  /\ runs' = [runs EXCEPT ![active] = @ + 1]
  /\ UNCHANGED <<rows, files, gap, up, ready, active, stop, handed>>

\* Mutant of Succeed: a result that arrives after the cancellation is stored.
SucceedLate ==
  /\ up /\ gap = Whole /\ worker = "run"
  /\ SetJob(active, "succeeded")
  /\ text' = [text EXCEPT ![active] = "machine"]
  /\ worker' = "told"
  /\ UNCHANGED <<attempts, before, files, gap, up, ready, active, stop, hidden>>

\* The result is stored only while the row still says 'running'.
Succeed ==
  /\ up /\ gap = Whole /\ worker = "run" /\ ~stop
  /\ job[active] = "running"
  /\ SetJob(active, "succeeded")
  /\ text' = [text EXCEPT ![active] = "machine"]
  /\ worker' = "told"
  /\ UNCHANGED <<attempts, before, files, gap, up, ready, active, stop, hidden>>

\* on_transcribed is called after changed('speech.succeeded') returned.
HandOver ==
  /\ up /\ gap = Whole /\ worker = "told"
  /\ worker' = "sink"
  /\ handed' = [handed EXCEPT ![active] = @ + 1]
  /\ UNCHANGED <<rows, files, gap, up, ready, active, stop, runs>>

\* Marks a job failed if it is still running: every error path ends here.
FailRunning(u) ==
  IF job[u] = "running" THEN SetJob(u, "failed") ELSE UNCHANGED <<job, voice>>

Release == active' = Nobody /\ stop' = FALSE

\* An exception of changed(), of the runner or of the store (except Exception);
\* changed('speech.failed') is awaited before active_id is cleared.
Fail ==
  /\ up /\ gap = Whole /\ worker \in {"announce", "run", "told"}
  /\ FailRunning(active)
  /\ worker' = "failing"
  /\ UNCHANGED <<text, attempts, before, files, gap, up, ready, active, stop, hidden>>

\* The cancel event is seen before or during the run (except CancelledError).
Interrupt ==
  /\ up /\ gap = Whole /\ worker \in {"announce", "run"} /\ stop
  /\ FailRunning(active)
  /\ worker' = "idle"
  /\ Release
  /\ UNCHANGED <<text, attempts, before, files, gap, up, ready, hidden>>

\* finally: whether the sink worked or not, the job is released.
Finish ==
  /\ up /\ gap = Whole /\ worker \in {"sink", "failing"}
  /\ worker' = "idle"
  /\ Release
  /\ UNCHANGED <<rows, files, gap, up, ready, hidden>>

WorkerStep == \/ \E u \in Recordings : Pick(u)
              \/ Launch \/ Succeed \/ HandOver \/ Fail \/ Interrupt \/ Finish

-----------------------------------------------------------------------------
(* The life of the process and of its configuration.                       *)

\* Mutants of Start: interrupted jobs are left alone, or queued again.
StartWithoutRecovery ==
  /\ ~up
  /\ up' = TRUE
  /\ worker' = IF ready THEN "idle" ELSE worker
  /\ UNCHANGED <<rows, files, gap, ready, active, stop, hidden>>

StartRequeues ==
  /\ ~up
  /\ up' = TRUE
  /\ IF ready
       THEN /\ job' = [u \in Recordings |->
                         IF job[u] = "running" THEN "queued" ELSE job[u]]
            /\ voice' = [u \in Recordings |->
                         IF job[u] = "running" THEN "transcription_queued" ELSE voice[u]]
            /\ worker' = "idle"
       ELSE UNCHANGED <<job, voice, worker>>
  /\ UNCHANGED <<text, attempts, before, files, gap, ready, active, stop, hidden>>

\* start(): with a usable engine, interrupted jobs are failed and the worker
\* is created; otherwise it returns before either.
Start ==
  /\ ~up
  /\ up' = TRUE
  /\ IF ready
       THEN /\ job' = [u \in Recordings |->
                         IF job[u] = "running" THEN "failed" ELSE job[u]]
            /\ voice' = [u \in Recordings |->
                         IF job[u] = "running" THEN "transcription_failed" ELSE voice[u]]
            /\ worker' = "idle"
       ELSE UNCHANGED <<job, voice, worker>>
  /\ UNCHANGED <<text, attempts, before, files, gap, ready, active, stop, hidden>>

\* close(): the cancelled task runs its CancelledError handler to the end.
Close ==
  /\ Serving
  /\ up' = FALSE
  /\ IF worker \in {"announce", "run"}
       THEN FailRunning(active)
       ELSE UNCHANGED <<job, voice>>
  /\ worker' = "off"
  /\ Release
  /\ UNCHANGED <<text, attempts, before, files, gap, ready, hidden>>

\* A kill or a power loss: what is in memory is gone.
Crash ==
  /\ up
  /\ up' = FALSE
  /\ worker' = "off"
  /\ gap' = Whole
  /\ Release
  /\ UNCHANGED <<rows, files, ready, hidden>>

\* speech-config.json is edited, the model or the binary appears or vanishes.
EngineChange ==
  /\ gap = Whole
  /\ ready' = ~ready
  /\ UNCHANGED <<rows, files, gap, up, worker, active, stop, hidden>>

Request(u) == \/ SubmitFile(u) \/ SubmitRows(u) \/ UploadFile(u) \/ UploadRow(u)
              \/ StoreFails(u) \/ EnqueueExisting(u) \/ Cancel(u) \/ Retry(u)
              \/ Review(u) \/ DeleteRow(u) \/ DeleteFile(u)

Next == \/ \E u \in Recordings : Request(u)
        \/ WorkerStep
        \/ Start \/ Close \/ Crash \/ EngineChange

Spec == Init /\ [][Next]_vars

\* The event loop serves every ready task; a child process is killed at its
\* timeout, so each await of the worker ends.  Strong, because the worker is
\* not ready in the middle of a handler (gap) but its turn comes between two:
\* a handler cannot yield there.  Clients owe nothing.
FairSpec ==
  /\ Spec
  /\ SF_vars(WorkerStep)
  /\ \A u \in Recordings :
       WF_vars(SubmitRows(u) \/ UploadRow(u) \/ StoreFails(u) \/ DeleteFile(u))

-----------------------------------------------------------------------------
(* Properties.                                                             *)

\* Every variable of the queue keeps its range: no status outside the tables
\* of speech.py, no attempt beyond the cap of retry().
TypeOK ==
  /\ job \in [Recordings -> JobStatus]
  /\ voice \in [Recordings -> VoiceStatus]
  /\ text \in [Recordings -> {"", "machine", "human"}]
  /\ attempts \in [Recordings -> 0..MaxAttempts]
  /\ before \in SUBSET (Recordings \X Recordings)
  /\ files \in SUBSET Recordings
  /\ gap \in Gap
  /\ up \in BOOLEAN /\ ready \in BOOLEAN /\ stop \in BOOLEAN
  /\ worker \in Place
  /\ active \in Recordings \union {Nobody}
  /\ runs \in [Recordings -> Nat]
  /\ handed \in [Recordings -> Nat]

\* A job that is queued or running and its voice row tell the same story, in
\* every interleaving of worker, cancel, retry, review and restart.
JobVoiceAgree ==
  \A u \in Active : voice[u] = VOICE_STATUS[job[u]]

\* max_pending bounds queued plus running jobs: submit, enqueue_existing and
\* retry all count before they insert.
PendingBound == Cardinality(Active) <= MaxPending

\* With a live worker, a row says 'running' only for the job the worker holds:
\* a restart leaves no ghost behind that nobody will finish.
RunningIsHeld ==
  worker # "off" => \A u \in Recordings : job[u] = "running" => u = active

\* While the worker holds a job its row is neither gone nor queued again:
\* no second child process can be started for it, no review or deletion pulls
\* the file from under the first.
HeldIsNotRequeued ==
  active # Nobody => job[active] \notin {"none", "queued"}

\* A job cancelled while its process runs has told the process to stop.
CancelReachesProcess ==
  worker \in {"announce", "run"} /\ job[active] = "cancelled" => stop

\* Each attempt starts at most one run: a crash never makes the server process
\* the same audio again by itself.
RunsWithinAttempts == \A u \in HasJob : runs[u] <= attempts[u]

\* Every voice row has its audio file, also between the two halves of a
\* handler and after a crash there.
AudioKept == \A u \in Recordings : voice[u] # "none" => u \in files

\* A transcript reaches the assistant at most once, and only after success.
HandedOnce ==
  \A u \in Recordings : handed[u] <= 1 /\ (handed[u] = 1 => job[u] = "succeeded")

\* A cancelled or failed job comes back only through a counted retry, a
\* finished one never, and a text a person corrected after success stays.
FinalStep ==
  \A u \in Recordings :
    /\ job[u] \in {"failed", "cancelled"} /\ job'[u] # job[u] =>
         \/ job'[u] = "none"
         \/ job'[u] = "queued" /\ attempts'[u] = attempts[u] + 1
    /\ job[u] = "succeeded" /\ job'[u] # "none" =>
         job'[u] = "succeeded" /\ text'[u] \in {text[u], "human"}
FinalStays == [][FinalStep]_vars

\* What the properties above rest on.  The worker's place tells what it holds
\* and how far that job has come: no handler may change the held job but to
\* cancel it, no await may return to a job of another status.
HeldJobKeepsPace ==
  /\ ~up => worker = "off"
  /\ worker \in {"off", "idle"} <=> active = Nobody
  /\ worker \in {"announce", "run"} => job[active] \in {"running", "cancelled"}
  /\ worker \in {"told", "sink"} => job[active] = "succeeded"
  /\ worker = "told" => handed[active] = 0
  /\ worker = "failing" => job[active] # "running"

\* Only a handler between its file and its row sees them apart, and what it
\* checked at its start (a free place in the queue) still holds at its end.
RowsAndFiles ==
  /\ \A u \in Recordings :
       /\ job[u] # "none" => voice[u] # "none"
       /\ gap[1] = u => voice[u] = "none"
       /\ gap \in {<<u, "submit">>, <<u, "upload">>} => u \in files
  /\ gap[2] = "submit" => Capacity
  /\ ~up => gap = Whole

\* A job that waits, or is about to be launched, has an attempt left to use.
AttemptLeft ==
  /\ \A u \in Queued : runs[u] < attempts[u]
  /\ worker = "announce" => runs[active] < attempts[active]

\* The inductive invariant.
IInv == /\ TypeOK /\ JobVoiceAgree /\ PendingBound /\ RunningIsHeld
        /\ HeldIsNotRequeued /\ CancelReachesProcess /\ RunsWithinAttempts
        /\ AudioKept /\ HandedOnce
        /\ HeldJobKeepsPace /\ RowsAndFiles /\ AttemptLeft

\* No starvation: once the service stays up with its engine, a queued job
\* leaves the queue, whatever clients keep adding, retrying or deleting.
Settled == <>[](up /\ ready /\ worker # "off")
QueueDrains ==
  Settled => \A u \in Recordings : job[u] = "queued" ~> job[u] # "queued"
=============================================================================
