-------------------------- MODULE SpeechQueue_proofs --------------------------
(***************************************************************************)
(* Proofs about the transcription queue, for any finite set of recordings  *)
(* and any limits: its type, the inductive invariant IInv of SpeechQueue   *)
(* with the safety invariants that follow from it, and that a finished job *)
(* is final.  IInv adds to those invariants what the worker may assume of  *)
(* the job it holds at every stage (HeldJobKeepsPace, AttemptLeft) and how *)
(* rows and files relate between the two halves of a request               *)
(* (RowsAndFiles); without them a pick or a hand-over could not be shown   *)
(* to find the job as it left it.                                          *)
(***************************************************************************)
EXTENDS SpeechQueue, FiniteSetTheorems, TLAPS

-----------------------------------------------------------------------------
(* Numbers.                                                                *)

\* The limits of a range that starts at 0.
LEMMA RangeFacts ==
  ASSUME NEW m \in Nat \ {0}
  PROVE  /\ 0 \in 0..m /\ 1 \in 0..m
         /\ \A n \in 0..m : n \in Nat /\ (n < m => n + 1 \in 0..m)
  OBVIOUS

\* The attempt numbers of a job.
LEMMA AttemptRange ==
  /\ 0 \in 0..MaxAttempts /\ 1 \in 0..MaxAttempts
  /\ \A n \in 0..MaxAttempts : n \in Nat /\ (n < MaxAttempts => n + 1 \in 0..MaxAttempts)
<1>1. MaxAttempts \in Nat \ {0}
  BY SpeechAssumption
<1> QED
  BY <1>1, RangeFacts, Zenon

\* Counting up at one place keeps a table of counters.
LEMMA Increment ==
  ASSUME NEW S, NEW f \in [S -> Nat], NEW a
  PROVE  [f EXCEPT ![a] = @ + 1] \in [S -> Nat]
<1>1. CASE a \in S
  <2>1. f[a] + 1 \in Nat
    BY <1>1
  <2> QED
    BY <1>1, <2>1
<1>2. CASE a \notin S
  BY <1>2
<1> QED
  BY <1>1, <1>2

-----------------------------------------------------------------------------
(* Types.                                                                  *)

\* The first state has its type.
LEMMA TypeInit == Init => TypeOK
<1> SUFFICES ASSUME Init PROVE TypeOK
  OBVIOUS
<1> USE DEF Init
<1>1. job \in [Recordings -> JobStatus] /\ voice \in [Recordings -> VoiceStatus]
  BY DEF JobStatus, VoiceStatus
<1>2. text \in [Recordings -> {"", "machine", "human"}]
  OBVIOUS
<1>3. attempts \in [Recordings -> 0..MaxAttempts]
  BY AttemptRange
<1>4. before \in SUBSET (Recordings \X Recordings) /\ files \in SUBSET Recordings
  OBVIOUS
<1>5. gap \in Gap /\ worker \in Place
  BY DEF Gap, Whole, Place
<1>6. up \in BOOLEAN /\ ready \in BOOLEAN /\ stop \in BOOLEAN
  OBVIOUS
<1>7. active \in Recordings \union {Nobody}
  OBVIOUS
<1>8. runs \in [Recordings -> Nat] /\ handed \in [Recordings -> Nat]
  OBVIOUS
<1> QED
  BY <1>1, <1>2, <1>3, <1>4, <1>5, <1>6, <1>7, <1>8 DEF TypeOK

\* Both statuses of a recording keep their range.
LEMMA SetJobType ==
  ASSUME TypeOK, NEW u, NEW s \in JobStatus \ {"none"}, SetJob(u, s)
  PROVE  job' \in [Recordings -> JobStatus] /\ voice' \in [Recordings -> VoiceStatus]
<1>1. VOICE_STATUS[s] \in VoiceStatus
  BY DEF JobStatus, ACTIVE, VOICE_STATUS, VoiceStatus, Transcribe, Reviewed
<1> QED
  BY <1>1 DEF TypeOK, SetJob

\* Failing a running job keeps the ranges.
LEMMA FailRunningType ==
  ASSUME TypeOK, NEW u, FailRunning(u)
  PROVE  job' \in [Recordings -> JobStatus] /\ voice' \in [Recordings -> VoiceStatus]
<1>1. "failed" \in JobStatus \ {"none"}
  BY DEF JobStatus
<1>2. CASE job[u] = "running"
  BY <1>1, <1>2, SetJobType DEF FailRunning
<1>3. CASE job[u] # "running"
  BY <1>3 DEF FailRunning, TypeOK
<1> QED
  BY <1>2, <1>3

\* A new job row, and what goes with it, keeps the ranges.
LEMMA NewJobType ==
  ASSUME TypeOK, NEW u \in Recordings, NewJob(u)
  PROVE  /\ job' \in [Recordings -> JobStatus] /\ voice' \in [Recordings -> VoiceStatus]
         /\ attempts' \in [Recordings -> 0..MaxAttempts]
         /\ before' \in SUBSET (Recordings \X Recordings)
         /\ runs' \in [Recordings -> Nat] /\ handed' \in [Recordings -> Nat]
<1>1. "queued" \in JobStatus \ {"none"}
  BY DEF JobStatus, ACTIVE
<1>2. job' \in [Recordings -> JobStatus] /\ voice' \in [Recordings -> VoiceStatus]
  BY <1>1, SetJobType DEF NewJob
<1>3. attempts' \in [Recordings -> 0..MaxAttempts]
  BY AttemptRange DEF NewJob, TypeOK
<1>4. before' \in SUBSET (Recordings \X Recordings)
  BY DEF NewJob, TypeOK, HasJob
<1>5. runs' \in [Recordings -> Nat] /\ handed' \in [Recordings -> Nat]
  BY DEF NewJob, TypeOK
<1> QED
  BY <1>2, <1>3, <1>4, <1>5

\* The gaps between two transactions of one request.
LEMMA GapIntro ==
  /\ Whole \in Gap
  /\ \A u \in Recordings : /\ <<u, "submit">> \in Gap
                           /\ <<u, "upload">> \in Gap
                           /\ <<u, "delete">> \in Gap
  BY DEF Gap, Whole

\* No request leaves the ranges.
LEMMA TypeRequest ==
  ASSUME TypeOK, NEW u \in Recordings, Request(u)
  PROVE  TypeOK'
<1>1. CASE SubmitFile(u)
  BY <1>1, GapIntro DEF SubmitFile, TypeOK, rows, hidden
<1>2. CASE SubmitRows(u)
  BY <1>2, GapIntro, NewJobType DEF SubmitRows, TypeOK
<1>3. CASE UploadFile(u)
  BY <1>3, GapIntro DEF UploadFile, TypeOK, rows, hidden
<1>4. CASE UploadRow(u)
  BY <1>4, GapIntro DEF UploadRow, TypeOK, hidden, VoiceStatus
<1>5. CASE StoreFails(u)
  BY <1>5, GapIntro DEF StoreFails, TypeOK, rows, hidden
<1>6. CASE EnqueueExisting(u)
  BY <1>6, NewJobType DEF EnqueueExisting, TypeOK
<1>7. CASE Cancel(u)
  <2>1. "cancelled" \in JobStatus \ {"none"}
    BY DEF JobStatus
  <2>2. job' \in [Recordings -> JobStatus] /\ voice' \in [Recordings -> VoiceStatus]
    BY <1>7, <2>1, SetJobType DEF Cancel
  <2> QED
    BY <1>7, <2>2 DEF Cancel, TypeOK, hidden
<1>8. CASE Retry(u)
  <2>1. "queued" \in JobStatus \ {"none"}
    BY DEF JobStatus, ACTIVE
  <2>2. job' \in [Recordings -> JobStatus] /\ voice' \in [Recordings -> VoiceStatus]
    BY <1>8, <2>1, SetJobType DEF Retry, Requeue
  <2>3. attempts[u] \in 0..MaxAttempts /\ attempts[u] < MaxAttempts
    BY <1>8 DEF TypeOK, Retry
  <2>4. attempts[u] + 1 \in 0..MaxAttempts
    BY <2>3, AttemptRange, Zenon
  <2>5. attempts' \in [Recordings -> 0..MaxAttempts]
    BY <1>8, <2>4 DEF Retry, Requeue, TypeOK
  <2> QED
    BY <1>8, <2>2, <2>5 DEF Retry, Requeue, TypeOK, hidden
<1>9. CASE Review(u)
  BY <1>9 DEF Review, TypeOK, hidden, VoiceStatus, Reviewed
<1>10. CASE DeleteRow(u)
  <2>1. attempts' \in [Recordings -> 0..MaxAttempts]
    BY <1>10, AttemptRange DEF DeleteRow, TypeOK
  <2>2. job' \in [Recordings -> JobStatus] /\ voice' \in [Recordings -> VoiceStatus]
    BY <1>10 DEF DeleteRow, TypeOK, JobStatus, VoiceStatus
  <2>3. /\ text' \in [Recordings -> {"", "machine", "human"}]
        /\ before' \in SUBSET (Recordings \X Recordings)
        /\ runs' \in [Recordings -> Nat] /\ handed' \in [Recordings -> Nat]
    BY <1>10 DEF DeleteRow, TypeOK
  <2> QED
    BY <1>10, <2>1, <2>2, <2>3, GapIntro DEF DeleteRow, TypeOK
<1>11. CASE DeleteFile(u)
  BY <1>11, GapIntro DEF DeleteFile, TypeOK, rows, hidden
<1> QED
  BY <1>1, <1>2, <1>3, <1>4, <1>5, <1>6, <1>7, <1>8, <1>9, <1>10, <1>11 DEF Request

\* Nor does a step of the worker ...
LEMMA TypeWorker ==
  ASSUME TypeOK, WorkerStep
  PROVE  TypeOK'
<1>1. ASSUME NEW u \in Recordings, Pick(u) PROVE TypeOK'
  <2>1. "running" \in JobStatus \ {"none"}
    BY DEF JobStatus, ACTIVE
  <2>2. job' \in [Recordings -> JobStatus] /\ voice' \in [Recordings -> VoiceStatus]
    BY <1>1, <2>1, SetJobType DEF Pick
  <2> QED
    BY <1>1, <2>2 DEF Pick, TypeOK, Place, hidden
<1>2. CASE Launch
  <2>1. runs' \in [Recordings -> Nat]
    BY <1>2, Increment DEF Launch, TypeOK
  <2>2. worker' \in Place
    BY <1>2 DEF Launch, Place
  <2> QED
    BY <1>2, <2>1, <2>2 DEF Launch, TypeOK, rows
<1>3. CASE Succeed
  <2>1. "succeeded" \in JobStatus \ {"none"}
    BY DEF JobStatus
  <2>2. job' \in [Recordings -> JobStatus] /\ voice' \in [Recordings -> VoiceStatus]
    BY <1>3, <2>1, SetJobType DEF Succeed
  <2> QED
    BY <1>3, <2>2 DEF Succeed, TypeOK, Place, hidden
<1>4. CASE HandOver
  <2>1. handed' \in [Recordings -> Nat]
    BY <1>4, Increment DEF HandOver, TypeOK
  <2>2. worker' \in Place
    BY <1>4 DEF HandOver, Place
  <2> QED
    BY <1>4, <2>1, <2>2 DEF HandOver, TypeOK, rows
<1>5. CASE Fail
  BY <1>5, FailRunningType DEF Fail, TypeOK, Place, hidden
<1>6. CASE Interrupt
  BY <1>6, FailRunningType DEF Interrupt, Release, TypeOK, Place, hidden
<1>7. CASE Finish
  BY <1>7 DEF Finish, Release, TypeOK, Place, rows, hidden
<1> QED
  BY <1>1, <1>2, <1>3, <1>4, <1>5, <1>6, <1>7 DEF WorkerStep

\* ... or a change in the life of the process.
LEMMA TypeLife ==
  ASSUME TypeOK, Start \/ Close \/ Crash \/ EngineChange
  PROVE  TypeOK'
<1>1. CASE Start
  BY <1>1 DEF Start, TypeOK, Place, JobStatus, VoiceStatus, Transcribe, hidden
<1>2. CASE Close
  <2>1. job' \in [Recordings -> JobStatus] /\ voice' \in [Recordings -> VoiceStatus]
    BY <1>2, FailRunningType DEF Close, TypeOK
  <2> QED
    BY <1>2, <2>1 DEF Close, Release, TypeOK, Place, hidden
<1>3. CASE Crash
  BY <1>3, GapIntro DEF Crash, Release, TypeOK, Place, rows, hidden
<1>4. CASE EngineChange
  BY <1>4 DEF EngineChange, TypeOK, rows, hidden
<1> QED
  BY <1>1, <1>2, <1>3, <1>4

\* No step leaves the ranges.
LEMMA TypeStep == TypeOK /\ [Next]_vars => TypeOK'
<1> SUFFICES ASSUME TypeOK, [Next]_vars PROVE TypeOK'
  OBVIOUS
<1>1. CASE UNCHANGED vars
  BY <1>1 DEF vars, TypeOK
<1>2. CASE Next
  BY <1>2, TypeRequest, TypeWorker, TypeLife DEF Next
<1> QED
  BY <1>1, <1>2

\* The variables keep their ranges.
THEOREM TypeCorrect == Spec => []TypeOK
  BY TypeInit, TypeStep, PTL DEF Spec

-----------------------------------------------------------------------------
(* Counting the jobs that wait or run.                                     *)

\* The waiting and running jobs can be counted.
LEMMA ActiveFinite == IsFiniteSet(Active) /\ Cardinality(Active) \in Nat
<1>1. IsFiniteSet(Recordings)
  BY SpeechAssumption
<1>2. Active \in SUBSET Recordings
  BY DEF Active
<1> QED
  BY <1>1, <1>2, FS_Subset, FS_CardinalityType

\* The bound survives a step that adds no active job ...
LEMMA BoundKept ==
  ASSUME IInv, Active' \subseteq Active
  PROVE  PendingBound'
<1>1. Cardinality(Active') <= Cardinality(Active) /\ Cardinality(Active') \in Nat
  BY ActiveFinite, FS_Subset, FS_CardinalityType
<1>2. Cardinality(Active) <= MaxPending
  BY DEF IInv, PendingBound
<1>3. MaxPending \in Nat
  BY SpeechAssumption
<1> QED
  BY <1>1, <1>2, <1>3, ActiveFinite DEF PendingBound

\* ... and one that adds a job after the capacity was checked.
LEMMA BoundGrows ==
  ASSUME Capacity, NEW u, Active' \subseteq Active \union {u}
  PROVE  PendingBound'
<1>1. /\ IsFiniteSet(Active \union {u})
      /\ Cardinality(Active \union {u}) <= Cardinality(Active) + 1
      /\ Cardinality(Active \union {u}) \in Nat
  BY ActiveFinite, FS_AddElement, FS_CardinalityType
<1>2. Cardinality(Active') <= Cardinality(Active \union {u}) /\ Cardinality(Active') \in Nat
  BY <1>1, FS_Subset, FS_CardinalityType
<1>3. MaxPending \in Nat
  BY SpeechAssumption
<1>4. Cardinality(Active) < MaxPending
  BY DEF Capacity
<1> QED
  BY <1>1, <1>2, <1>3, <1>4, ActiveFinite DEF PendingBound

\* A new job starts its counters, whatever the worker holds.
LEMMA NewJobCounts ==
  ASSUME IInv, NEW u \in Recordings, job[u] = "none", NewJob(u), UNCHANGED <<worker, active>>
  PROVE  RunsWithinAttempts' /\ HandedOnce' /\ AttemptLeft'
<1>1. /\ job'[u] = "queued" /\ attempts'[u] = 1 /\ runs'[u] = 0 /\ handed'[u] = 0
      /\ \A w \in Recordings \ {u} :
           /\ job'[w] = job[w] /\ attempts'[w] = attempts[w]
           /\ runs'[w] = runs[w] /\ handed'[w] = handed[w]
  BY DEF IInv, TypeOK, NewJob, SetJob
<1>2. RunsWithinAttempts'
  BY <1>1 DEF IInv, RunsWithinAttempts, HasJob
<1>3. HandedOnce'
  BY <1>1 DEF IInv, HandedOnce
<1>4. worker = "announce" => active \in Recordings \ {u}
  BY DEF IInv, TypeOK, HeldJobKeepsPace
<1>5. AttemptLeft'
  BY <1>1, <1>4 DEF IInv, AttemptLeft, Queued
<1> QED
  BY <1>2, <1>3, <1>5

\* What FailRunning does, recording by recording.
LEMMA FailRunningAt ==
  ASSUME TypeOK, NEW u \in Recordings, FailRunning(u)
  PROVE  /\ job[u] = "running" => job'[u] = "failed" /\ voice'[u] = "transcription_failed"
         /\ job[u] # "running" => job'[u] = job[u] /\ voice'[u] = voice[u]
         /\ \A w \in Recordings \ {u} : job'[w] = job[w] /\ voice'[w] = voice[w]
  BY DEF TypeOK, FailRunning, SetJob, VOICE_STATUS

\* Between requests, the condition on rows and files is about rows alone.
LEMMA RowsSettled ==
  ASSUME gap' = Whole, \A w \in Recordings : job'[w] # "none" => voice'[w] # "none"
  PROVE  RowsAndFiles'
<1>1. Nobody \notin Recordings
  BY SpeechAssumption
<1> QED
  BY <1>1 DEF RowsAndFiles, Whole

-----------------------------------------------------------------------------
(* Each action keeps the inductive invariant.                              *)

\* A request stores a recording.
LEMMA KeepSubmitFile ==
  ASSUME IInv, NEW u \in Recordings, SubmitFile(u)
  PROVE  IInv'
<1>0. TypeOK' /\ Nobody \notin Recordings
  BY SpeechAssumption, TypeRequest DEF IInv, Request
<1>1. AudioKept'
  BY <1>0 DEF IInv, AudioKept, SubmitFile, rows, hidden, Serving, Whole
<1>2. RowsAndFiles'
  BY <1>0 DEF IInv, RowsAndFiles, Capacity, Active, SubmitFile, rows, hidden, Serving, Whole
<1>3. JobVoiceAgree' /\ PendingBound' /\ RunningIsHeld' /\ HeldIsNotRequeued' /\ CancelReachesProcess' /\ RunsWithinAttempts' /\ HandedOnce' /\ HeldJobKeepsPace' /\ AttemptLeft'
  BY <1>0 DEF IInv, JobVoiceAgree, Active, ACTIVE, VOICE_STATUS, PendingBound, RunningIsHeld,
     HeldIsNotRequeued, CancelReachesProcess, RunsWithinAttempts, HasJob, HandedOnce,
     HeldJobKeepsPace, AttemptLeft, Queued, SubmitFile, rows, hidden, Serving, Whole
<1> QED
  BY <1>0, <1>1, <1>2, <1>3 DEF IInv

\* It inserts both rows, with capacity left.
LEMMA KeepSubmitRows ==
  ASSUME IInv, NEW u \in Recordings, SubmitRows(u)
  PROVE  IInv'
<1>0. TypeOK' /\ Nobody \notin Recordings
  BY SpeechAssumption, TypeRequest DEF IInv, Request
<1>1. job[u] = "none"
  BY DEF IInv, SubmitRows, RowsAndFiles
<1>2. RunsWithinAttempts' /\ HandedOnce' /\ AttemptLeft'
  BY <1>1, NewJobCounts DEF SubmitRows
<1>3. JobVoiceAgree'
  BY <1>1 DEF IInv, TypeOK, SubmitRows, NewJob, SetJob, JobVoiceAgree, Active, ACTIVE
<1>4. PendingBound'
  <2>1. Active' \subseteq Active \union {u}
    BY DEF IInv, TypeOK, SubmitRows, NewJob, SetJob, Active
  <2>2. Capacity
    BY DEF IInv, SubmitRows, RowsAndFiles
  <2> QED
    BY <2>1, <2>2, BoundGrows
<1>5. RunningIsHeld'
  BY <1>0 DEF IInv, TypeOK, RunningIsHeld, SubmitRows, NewJob, SetJob
<1>6. HeldIsNotRequeued'
  BY <1>0 DEF IInv, TypeOK, HeldIsNotRequeued, RowsAndFiles, SubmitRows, NewJob, SetJob
<1>7. CancelReachesProcess'
  BY <1>0 DEF IInv, TypeOK, CancelReachesProcess, HeldJobKeepsPace, SubmitRows, NewJob, SetJob
<1>8. AudioKept'
  BY <1>0 DEF IInv, TypeOK, AudioKept, RowsAndFiles, SubmitRows, NewJob, SetJob
<1>9. HeldJobKeepsPace'
  BY <1>0 DEF IInv, TypeOK, HeldJobKeepsPace, RowsAndFiles, SubmitRows, NewJob, SetJob
<1>10. RowsAndFiles'
  <2>1. gap' = Whole
    BY DEF SubmitRows
  <2>2. \A w \in Recordings : job'[w] # "none" => voice'[w] # "none"
    BY DEF IInv, TypeOK, RowsAndFiles, SubmitRows, NewJob, SetJob, VOICE_STATUS
  <2> QED
    BY <2>1, <2>2, RowsSettled
<1> QED
  BY <1>0, <1>2, <1>3, <1>4, <1>5, <1>6, <1>7, <1>8, <1>9, <1>10 DEF IInv

\* An upload stores a recording.
LEMMA KeepUploadFile ==
  ASSUME IInv, NEW u \in Recordings, UploadFile(u)
  PROVE  IInv'
<1>0. TypeOK' /\ Nobody \notin Recordings
  BY SpeechAssumption, TypeRequest DEF IInv, Request
<1>1. AudioKept'
  BY <1>0 DEF IInv, AudioKept, UploadFile, rows, hidden, Serving, Whole
<1>2. RowsAndFiles'
  BY <1>0 DEF IInv, RowsAndFiles, Active, UploadFile, rows, hidden, Serving, Whole
<1>3. JobVoiceAgree' /\ PendingBound' /\ RunningIsHeld' /\ HeldIsNotRequeued' /\ CancelReachesProcess' /\ RunsWithinAttempts' /\ HandedOnce' /\ HeldJobKeepsPace' /\ AttemptLeft'
  BY <1>0 DEF IInv, JobVoiceAgree, Active, ACTIVE, VOICE_STATUS, PendingBound, RunningIsHeld,
     HeldIsNotRequeued, CancelReachesProcess, RunsWithinAttempts, HasJob, HandedOnce,
     HeldJobKeepsPace, AttemptLeft, Queued, UploadFile, rows, hidden, Serving, Whole
<1> QED
  BY <1>0, <1>1, <1>2, <1>3 DEF IInv

\* It inserts the voice row alone.
LEMMA KeepUploadRow ==
  ASSUME IInv, NEW u \in Recordings, UploadRow(u)
  PROVE  IInv'
<1>0. TypeOK' /\ Nobody \notin Recordings
  BY SpeechAssumption, TypeRequest DEF IInv, Request
<1>1. JobVoiceAgree'
  BY <1>0 DEF IInv, TypeOK, JobVoiceAgree, Active, ACTIVE, VOICE_STATUS, RowsAndFiles,
     UploadRow, hidden
<1>2. AudioKept'
  BY <1>0 DEF IInv, TypeOK, AudioKept, RowsAndFiles, UploadRow, hidden
<1>3. RowsAndFiles'
  <2>1. gap' = Whole
    BY DEF UploadRow
  <2>2. \A w \in Recordings : job'[w] # "none" => voice'[w] # "none"
    BY DEF IInv, TypeOK, RowsAndFiles, UploadRow
  <2> QED
    BY <2>1, <2>2, RowsSettled
<1>4. PendingBound' /\ RunningIsHeld' /\ HeldIsNotRequeued' /\ CancelReachesProcess' /\ RunsWithinAttempts' /\ HandedOnce' /\ HeldJobKeepsPace' /\ AttemptLeft'
  BY <1>0 DEF IInv, PendingBound, Active, ACTIVE, RunningIsHeld, HeldIsNotRequeued,
     CancelReachesProcess, RunsWithinAttempts, HasJob, HandedOnce, HeldJobKeepsPace,
     AttemptLeft, Queued, UploadRow, hidden
<1> QED
  BY <1>0, <1>1, <1>2, <1>3, <1>4 DEF IInv

\* The insertion fails and the file is removed.
LEMMA KeepStoreFails ==
  ASSUME IInv, NEW u \in Recordings, StoreFails(u)
  PROVE  IInv'
<1>0. TypeOK' /\ Nobody \notin Recordings
  BY SpeechAssumption, TypeRequest DEF IInv, Request
<1>1. AudioKept'
  <2>1. gap[1] = u
    BY DEF StoreFails
  <2> QED
    BY <2>1 DEF IInv, StoreFails, AudioKept, RowsAndFiles, rows
<1>2. RowsAndFiles'
  <2>1. gap' = Whole
    BY DEF StoreFails
  <2>2. \A w \in Recordings : job'[w] # "none" => voice'[w] # "none"
    BY DEF IInv, RowsAndFiles, StoreFails, rows
  <2> QED
    BY <2>1, <2>2, RowsSettled
<1>3. JobVoiceAgree' /\ PendingBound' /\ RunningIsHeld' /\ HeldIsNotRequeued' /\ CancelReachesProcess' /\ RunsWithinAttempts' /\ HandedOnce' /\ HeldJobKeepsPace' /\ AttemptLeft'
  BY <1>0 DEF IInv, JobVoiceAgree, Active, ACTIVE, VOICE_STATUS, PendingBound, RunningIsHeld,
     HeldIsNotRequeued, CancelReachesProcess, RunsWithinAttempts, HasJob, HandedOnce,
     HeldJobKeepsPace, AttemptLeft, Queued, StoreFails, rows, hidden
<1> QED
  BY <1>0, <1>1, <1>2, <1>3 DEF IInv

\* An untranscribed recording gets its job.
LEMMA KeepEnqueueExisting ==
  ASSUME IInv, NEW u \in Recordings, EnqueueExisting(u)
  PROVE  IInv'
<1>0. TypeOK' /\ Nobody \notin Recordings
  BY SpeechAssumption, TypeRequest DEF IInv, Request
<1>1. job[u] = "none"
  BY DEF IInv, EnqueueExisting
<1>2. RunsWithinAttempts' /\ HandedOnce' /\ AttemptLeft'
  BY <1>1, NewJobCounts DEF EnqueueExisting
<1>3. JobVoiceAgree'
  BY <1>0 DEF IInv, TypeOK, JobVoiceAgree, Active, ACTIVE, VOICE_STATUS, EnqueueExisting,
     NewJob, SetJob, Serving
<1>4. PendingBound'
  <2>1. Active' \subseteq Active \union {u}
    BY DEF IInv, TypeOK, EnqueueExisting, NewJob, SetJob, Active
  <2>2. Capacity
    BY DEF EnqueueExisting
  <2> QED
    BY <2>1, <2>2, BoundGrows
<1>5. RunningIsHeld'
  BY <1>0 DEF IInv, RunningIsHeld, EnqueueExisting, NewJob, SetJob, Serving
<1>6. HeldIsNotRequeued'
  BY <1>0 DEF IInv, HeldIsNotRequeued, EnqueueExisting, NewJob, SetJob, Serving
<1>7. CancelReachesProcess'
  BY <1>0 DEF IInv, CancelReachesProcess, EnqueueExisting, NewJob, SetJob, Serving
<1>8. AudioKept'
  BY <1>0 DEF IInv, AudioKept, EnqueueExisting, NewJob, SetJob, Serving
<1>9. HeldJobKeepsPace'
  BY <1>0 DEF IInv, HeldJobKeepsPace, EnqueueExisting, NewJob, SetJob, Serving
<1>10. RowsAndFiles'
  <2>1. gap' = Whole
    BY DEF EnqueueExisting, Serving
  <2>2. \A w \in Recordings : job'[w] # "none" => voice'[w] # "none"
    BY DEF IInv, TypeOK, RowsAndFiles, EnqueueExisting, NewJob, SetJob, VOICE_STATUS
  <2> QED
    BY <2>1, <2>2, RowsSettled
<1> QED
  BY <1>0, <1>2, <1>3, <1>4, <1>5, <1>6, <1>7, <1>8, <1>9, <1>10 DEF IInv

\* A manager cancels.
LEMMA KeepCancel ==
  ASSUME IInv, NEW u \in Recordings, Cancel(u)
  PROVE  IInv'
<1>0. TypeOK' /\ Nobody \notin Recordings
  BY SpeechAssumption, TypeRequest DEF IInv, Request
<1>1. JobVoiceAgree'
  BY <1>0 DEF IInv, TypeOK, JobVoiceAgree, Active, ACTIVE, VOICE_STATUS, Cancel, SetJob, hidden,
     Serving
<1>2. PendingBound'
  <2>1. Active' \subseteq Active
    BY DEF IInv, TypeOK, Cancel, SetJob, Active
  <2> QED
    BY <2>1, BoundKept
<1>3. RunningIsHeld'
  BY <1>0 DEF IInv, RunningIsHeld, Cancel, SetJob, VOICE_STATUS, hidden, ACTIVE, Serving
<1>4. HeldIsNotRequeued'
  BY <1>0 DEF IInv, HeldIsNotRequeued, Cancel, SetJob, VOICE_STATUS, hidden, ACTIVE, Serving
<1>5. CancelReachesProcess'
  BY <1>0 DEF IInv, TypeOK, CancelReachesProcess, HeldJobKeepsPace, Cancel, SetJob,
     VOICE_STATUS, hidden, ACTIVE, Serving
<1>6. RunsWithinAttempts'
  BY <1>0 DEF IInv, RunsWithinAttempts, HasJob, Cancel, SetJob, VOICE_STATUS, hidden, ACTIVE,
     Serving
<1>7. AudioKept'
  BY <1>0 DEF IInv, AudioKept, RowsAndFiles, Cancel, SetJob, VOICE_STATUS, hidden, ACTIVE, Serving
<1>8. HandedOnce'
  BY <1>0 DEF IInv, HandedOnce, Cancel, SetJob, VOICE_STATUS, hidden, ACTIVE, Serving
<1>9. HeldJobKeepsPace'
  BY <1>0 DEF IInv, HeldJobKeepsPace, Cancel, SetJob, VOICE_STATUS, hidden, ACTIVE, Serving
<1>10. RowsAndFiles'
  <2>1. gap' = Whole
    BY DEF Cancel, Serving
  <2>2. \A w \in Recordings : job'[w] # "none" => voice'[w] # "none"
    BY DEF IInv, TypeOK, RowsAndFiles, Cancel, SetJob, VOICE_STATUS
  <2> QED
    BY <2>1, <2>2, RowsSettled
<1>11. AttemptLeft'
  BY <1>0 DEF IInv, AttemptLeft, Queued, Cancel, SetJob, VOICE_STATUS, hidden, ACTIVE, Serving
<1> QED
  BY <1>0, <1>1, <1>2, <1>3, <1>4, <1>5, <1>6, <1>7, <1>8, <1>9, <1>10, <1>11 DEF IInv

\* A manager retries a finished job.
LEMMA KeepRetry ==
  ASSUME IInv, NEW u \in Recordings, Retry(u)
  PROVE  IInv'
<1>0. TypeOK' /\ Nobody \notin Recordings
  BY SpeechAssumption, TypeRequest DEF IInv, Request
<1>1. /\ job'[u] = "queued" /\ attempts'[u] = attempts[u] + 1 /\ runs'[u] = runs[u]
      /\ \A w \in Recordings \ {u} :
           /\ job'[w] = job[w] /\ attempts'[w] = attempts[w] /\ runs'[w] = runs[w]
  BY DEF IInv, TypeOK, Retry, Requeue, SetJob, hidden
<1>2. runs'[u] < attempts'[u] /\ runs'[u] <= attempts'[u]
  <2>1. runs[u] <= attempts[u] /\ runs[u] \in Nat
    BY DEF IInv, TypeOK, Retry, RunsWithinAttempts, HasJob
  <2>2. attempts[u] \in Nat
    BY AttemptRange DEF IInv, TypeOK
  <2> QED
    BY <1>1, <2>1, <2>2
<1>3. JobVoiceAgree'
  BY <1>0 DEF IInv, TypeOK, JobVoiceAgree, Active, ACTIVE, VOICE_STATUS, Retry, Requeue, SetJob,
     hidden, Serving
<1>4. PendingBound'
  <2>1. Active' \subseteq Active \union {u}
    BY DEF IInv, TypeOK, Retry, Requeue, SetJob, Active
  <2>2. Capacity
    BY DEF Retry
  <2> QED
    BY <2>1, <2>2, BoundGrows
<1>5. RunningIsHeld'
  BY <1>0 DEF IInv, RunningIsHeld, Retry, Requeue, SetJob, hidden, ACTIVE, Serving
<1>6. HeldIsNotRequeued'
  BY <1>0 DEF IInv, HeldIsNotRequeued, Retry, Requeue, SetJob, hidden, ACTIVE, Serving
<1>7. CancelReachesProcess'
  BY <1>0 DEF IInv, CancelReachesProcess, Retry, Requeue, SetJob, hidden, ACTIVE, Serving
<1>8. RunsWithinAttempts'
  BY <1>1, <1>2 DEF IInv, RunsWithinAttempts, HasJob
<1>9. AudioKept'
  BY <1>0 DEF IInv, AudioKept, RowsAndFiles, Retry, Requeue, SetJob, hidden, ACTIVE, Serving
<1>10. HandedOnce'
  BY <1>0 DEF IInv, HandedOnce, Retry, Requeue, SetJob, hidden, ACTIVE, Serving
<1>11. HeldJobKeepsPace'
  BY <1>0 DEF IInv, HeldJobKeepsPace, Retry, Requeue, SetJob, hidden, ACTIVE, Serving
<1>12. RowsAndFiles'
  <2>1. gap' = Whole
    BY DEF Retry, Requeue, Serving
  <2>2. \A w \in Recordings : job'[w] # "none" => voice'[w] # "none"
    BY DEF IInv, TypeOK, RowsAndFiles, Retry, Requeue, SetJob, VOICE_STATUS
  <2> QED
    BY <2>1, <2>2, RowsSettled
<1>13. AttemptLeft'
  <2>1. worker = "announce" => active \in Recordings \ {u}
    BY DEF IInv, TypeOK, HeldJobKeepsPace, Retry
  <2> QED
    BY <1>1, <1>2, <2>1 DEF IInv, AttemptLeft, Queued, Retry, Requeue
<1> QED
  BY <1>0, <1>3, <1>4, <1>5, <1>6, <1>7, <1>8, <1>9, <1>10, <1>11, <1>12, <1>13 DEF IInv

\* A manager corrects the text.
LEMMA KeepReview ==
  ASSUME IInv, NEW u \in Recordings, Review(u)
  PROVE  IInv'
<1>0. TypeOK' /\ Nobody \notin Recordings
  BY SpeechAssumption, TypeRequest DEF IInv, Request
<1>1. JobVoiceAgree'
  BY <1>0 DEF IInv, TypeOK, JobVoiceAgree, Active, ACTIVE, VOICE_STATUS, Review, NotRunning,
     hidden, Serving
<1>2. AudioKept'
  BY <1>0 DEF IInv, TypeOK, AudioKept, Review, NotRunning, hidden, ACTIVE, Serving
<1>3. RowsAndFiles'
  <2>1. gap' = Whole
    BY DEF Review, Serving
  <2>2. \A w \in Recordings : job'[w] # "none" => voice'[w] # "none"
    BY DEF IInv, TypeOK, RowsAndFiles, Review, Reviewed
  <2> QED
    BY <2>1, <2>2, RowsSettled
<1>4. PendingBound' /\ RunningIsHeld' /\ HeldIsNotRequeued' /\ CancelReachesProcess' /\ RunsWithinAttempts' /\ HandedOnce' /\ HeldJobKeepsPace' /\ AttemptLeft'
  BY <1>0 DEF IInv, PendingBound, Active, ACTIVE, RunningIsHeld, HeldIsNotRequeued,
     CancelReachesProcess, RunsWithinAttempts, HasJob, HandedOnce, HeldJobKeepsPace,
     AttemptLeft, Queued, Review, NotRunning, hidden, Serving
<1> QED
  BY <1>0, <1>1, <1>2, <1>3, <1>4 DEF IInv

\* Both rows are deleted ...
LEMMA KeepDeleteRow ==
  ASSUME IInv, NEW u \in Recordings, DeleteRow(u)
  PROVE  IInv'
<1>0. TypeOK' /\ Nobody \notin Recordings
  BY SpeechAssumption, TypeRequest DEF IInv, Request
<1>1. JobVoiceAgree'
  <2>1. /\ job'[u] = "none"
        /\ \A w \in Recordings \ {u} : job'[w] = job[w] /\ voice'[w] = voice[w]
    BY DEF IInv, TypeOK, DeleteRow
  <2> QED
    BY <2>1 DEF IInv, JobVoiceAgree, Active, ACTIVE
<1>2. PendingBound'
  <2>1. Active' \subseteq Active
    BY DEF IInv, TypeOK, DeleteRow, Active, ACTIVE
  <2> QED
    BY <2>1, BoundKept
<1>3. RunningIsHeld'
  BY <1>0 DEF IInv, TypeOK, RunningIsHeld, DeleteRow, NotRunning, ACTIVE, Serving
<1>4. HeldIsNotRequeued'
  BY <1>0 DEF IInv, TypeOK, HeldIsNotRequeued, DeleteRow, NotRunning, ACTIVE, Serving
<1>5. CancelReachesProcess'
  BY <1>0 DEF IInv, TypeOK, CancelReachesProcess, HeldJobKeepsPace, DeleteRow, NotRunning,
     ACTIVE, Serving
<1>6. RunsWithinAttempts'
  BY <1>0 DEF IInv, TypeOK, RunsWithinAttempts, HasJob, DeleteRow, NotRunning, ACTIVE, Serving
<1>7. AudioKept'
  BY <1>0 DEF IInv, TypeOK, AudioKept, DeleteRow, NotRunning, ACTIVE, Serving
<1>8. HandedOnce'
  <2>1. /\ handed'[u] = 0
        /\ \A w \in Recordings \ {u} : handed'[w] = handed[w] /\ job'[w] = job[w]
    BY DEF IInv, TypeOK, DeleteRow
  <2> QED
    BY <2>1 DEF IInv, HandedOnce
<1>9. HeldJobKeepsPace'
  BY <1>0 DEF IInv, TypeOK, HeldJobKeepsPace, DeleteRow, NotRunning, ACTIVE, Serving
<1>10. RowsAndFiles'
  BY <1>0 DEF IInv, TypeOK, RowsAndFiles, Active, DeleteRow, NotRunning, ACTIVE, Serving
<1>11. AttemptLeft'
  BY <1>0 DEF IInv, TypeOK, AttemptLeft, Queued, HeldJobKeepsPace, DeleteRow, NotRunning,
     ACTIVE, Serving
<1> QED
  BY <1>0, <1>1, <1>2, <1>3, <1>4, <1>5, <1>6, <1>7, <1>8, <1>9, <1>10, <1>11 DEF IInv

\* ... and then the file.
LEMMA KeepDeleteFile ==
  ASSUME IInv, NEW u \in Recordings, DeleteFile(u)
  PROVE  IInv'
<1>0. TypeOK' /\ Nobody \notin Recordings
  BY SpeechAssumption, TypeRequest DEF IInv, Request
<1>1. AudioKept'
  BY <1>0 DEF IInv, AudioKept, RowsAndFiles, DeleteFile, rows, hidden
<1>2. RowsAndFiles'
  <2>1. gap' = Whole
    BY DEF DeleteFile
  <2>2. \A w \in Recordings : job'[w] # "none" => voice'[w] # "none"
    BY DEF IInv, RowsAndFiles, DeleteFile, rows
  <2> QED
    BY <2>1, <2>2, RowsSettled
<1>3. JobVoiceAgree' /\ PendingBound' /\ RunningIsHeld' /\ HeldIsNotRequeued' /\ CancelReachesProcess' /\ RunsWithinAttempts' /\ HandedOnce' /\ HeldJobKeepsPace' /\ AttemptLeft'
  BY <1>0 DEF IInv, JobVoiceAgree, Active, ACTIVE, VOICE_STATUS, PendingBound, RunningIsHeld,
     HeldIsNotRequeued, CancelReachesProcess, RunsWithinAttempts, HasJob, HandedOnce,
     HeldJobKeepsPace, AttemptLeft, Queued, DeleteFile, rows, hidden
<1> QED
  BY <1>0, <1>1, <1>2, <1>3 DEF IInv

\* The worker picks the next job.
LEMMA KeepPick ==
  ASSUME IInv, NEW u \in Recordings, Pick(u)
  PROVE  IInv'
<1>0. TypeOK' /\ Nobody \notin Recordings
  BY SpeechAssumption, TypeWorker DEF IInv, WorkerStep
<1>1. JobVoiceAgree'
  BY <1>0 DEF IInv, TypeOK, JobVoiceAgree, Active, ACTIVE, VOICE_STATUS, Pick, Oldest, Queued,
     SetJob, hidden
<1>2. PendingBound'
  <2>1. Active' \subseteq Active
    BY DEF IInv, TypeOK, Pick, Oldest, Queued, SetJob, Active, ACTIVE
  <2> QED
    BY <2>1, BoundKept
<1>3. RunningIsHeld'
  BY <1>0 DEF IInv, RunningIsHeld, HeldJobKeepsPace, Pick, Oldest, Queued, SetJob, hidden
<1>4. HeldIsNotRequeued'
  BY <1>0 DEF IInv, TypeOK, HeldIsNotRequeued, Pick, Oldest, Queued, SetJob, hidden
<1>5. CancelReachesProcess'
  BY <1>0 DEF IInv, CancelReachesProcess, Pick, Oldest, Queued, SetJob, hidden
<1>6. RunsWithinAttempts'
  BY <1>0 DEF IInv, RunsWithinAttempts, HasJob, Pick, Oldest, Queued, SetJob, hidden
<1>7. AudioKept'
  BY <1>0 DEF IInv, AudioKept, RowsAndFiles, Pick, Oldest, Queued, SetJob, hidden
<1>8. HandedOnce'
  BY <1>0 DEF IInv, HandedOnce, Pick, Oldest, Queued, SetJob, hidden
<1>9. HeldJobKeepsPace'
  BY <1>0 DEF IInv, TypeOK, HeldJobKeepsPace, Pick, Oldest, Queued, SetJob, hidden
<1>10. RowsAndFiles'
  <2>1. gap' = Whole
    BY DEF Pick
  <2>2. \A w \in Recordings : job'[w] # "none" => voice'[w] # "none"
    BY DEF IInv, TypeOK, RowsAndFiles, Pick, SetJob, VOICE_STATUS
  <2> QED
    BY <2>1, <2>2, RowsSettled
<1>11. AttemptLeft'
  BY <1>0 DEF IInv, AttemptLeft, Queued, Pick, Oldest, SetJob, hidden
<1> QED
  BY <1>0, <1>1, <1>2, <1>3, <1>4, <1>5, <1>6, <1>7, <1>8, <1>9, <1>10, <1>11 DEF IInv

\* The job starts to run.
LEMMA KeepLaunch ==
  ASSUME IInv, Launch
  PROVE  IInv'
<1>0. TypeOK' /\ Nobody \notin Recordings
  BY SpeechAssumption, TypeWorker DEF IInv, WorkerStep
<1>1. active \in Recordings
  BY DEF IInv, TypeOK, Launch, HeldJobKeepsPace
<1>2. RunningIsHeld'
  BY <1>0, <1>1 DEF IInv, RunningIsHeld, Launch, rows
<1>3. CancelReachesProcess'
  BY <1>0, <1>1 DEF IInv, CancelReachesProcess, Launch, rows
<1>4. RunsWithinAttempts'
  <2>1. runs'[active] = runs[active] + 1 /\ \A w \in Recordings \ {active} : runs'[w] = runs[w]
    BY <1>1 DEF IInv, TypeOK, Launch
  <2>2. runs[active] < attempts[active] /\ runs[active] \in Nat
    BY <1>1 DEF IInv, TypeOK, Launch, AttemptLeft
  <2>3. attempts[active] \in Nat
    BY <1>1, AttemptRange DEF IInv, TypeOK
  <2>4. runs'[active] <= attempts[active]
    BY <2>1, <2>2, <2>3
  <2> QED
    BY <2>1, <2>4 DEF IInv, RunsWithinAttempts, HasJob, Launch, rows
<1>5. HeldJobKeepsPace'
  BY <1>0, <1>1 DEF IInv, HeldJobKeepsPace, Launch, rows
<1>6. AttemptLeft'
  BY <1>0, <1>1 DEF IInv, AttemptLeft, Queued, HeldIsNotRequeued, Launch, rows
<1>7. JobVoiceAgree' /\ PendingBound' /\ HeldIsNotRequeued' /\ AudioKept' /\ HandedOnce' /\ RowsAndFiles'
  BY <1>0, <1>1 DEF IInv, JobVoiceAgree, Active, VOICE_STATUS, PendingBound, HeldIsNotRequeued,
     AudioKept, HandedOnce, RowsAndFiles, Capacity, Launch, rows
<1> QED
  BY <1>0, <1>2, <1>3, <1>4, <1>5, <1>6, <1>7 DEF IInv

\* The transcript is saved.
LEMMA KeepSucceed ==
  ASSUME IInv, Succeed
  PROVE  IInv'
<1>0. TypeOK' /\ Nobody \notin Recordings
  BY SpeechAssumption, TypeWorker DEF IInv, WorkerStep
<1>1. active \in Recordings
  BY DEF IInv, TypeOK, Succeed, HeldJobKeepsPace
<1>2. JobVoiceAgree'
  BY <1>0, <1>1 DEF IInv, TypeOK, JobVoiceAgree, Active, ACTIVE, VOICE_STATUS, Succeed, SetJob,
     hidden
<1>3. PendingBound'
  <2>1. Active' \subseteq Active
    BY <1>1 DEF IInv, TypeOK, Succeed, SetJob, Active, ACTIVE
  <2> QED
    BY <2>1, BoundKept
<1>4. RunningIsHeld'
  BY <1>0, <1>1 DEF IInv, RunningIsHeld, Succeed, SetJob, hidden
<1>5. HeldIsNotRequeued'
  BY <1>0, <1>1 DEF IInv, HeldIsNotRequeued, Succeed, SetJob, hidden
<1>6. CancelReachesProcess'
  BY <1>0, <1>1 DEF IInv, CancelReachesProcess, Succeed, SetJob, hidden
<1>7. RunsWithinAttempts'
  BY <1>0, <1>1 DEF IInv, RunsWithinAttempts, HasJob, Succeed, SetJob, hidden
<1>8. AudioKept'
  BY <1>0, <1>1 DEF IInv, AudioKept, RowsAndFiles, Succeed, SetJob, hidden
<1>9. HandedOnce'
  BY <1>0, <1>1 DEF IInv, HandedOnce, Succeed, SetJob, hidden
<1>10. HeldJobKeepsPace'
  <2>1. handed[active] = 0
    <3>1. handed[active] \in Nat
      BY <1>1 DEF IInv, TypeOK
    <3>2. handed[active] <= 1 /\ handed[active] # 1
      BY <1>1 DEF IInv, Succeed, HandedOnce
    <3> QED
      BY <3>1, <3>2
  <2>2. job'[active] = "succeeded"
    BY <1>1 DEF IInv, TypeOK, Succeed, SetJob
  <2> QED
    BY <1>1, <2>1, <2>2 DEF IInv, Succeed, HeldJobKeepsPace, hidden
<1>11. RowsAndFiles'
  <2>1. gap' = Whole
    BY DEF Succeed
  <2>2. \A w \in Recordings : job'[w] # "none" => voice'[w] # "none"
    BY DEF IInv, TypeOK, RowsAndFiles, Succeed, SetJob, VOICE_STATUS
  <2> QED
    BY <2>1, <2>2, RowsSettled
<1>12. AttemptLeft'
  BY <1>0, <1>1 DEF IInv, AttemptLeft, Queued, Succeed, SetJob, hidden
<1> QED
  BY <1>0, <1>2, <1>3, <1>4, <1>5, <1>6, <1>7, <1>8, <1>9, <1>10, <1>11, <1>12 DEF IInv

\* The transcript goes to the assistant.
LEMMA KeepHandOver ==
  ASSUME IInv, HandOver
  PROVE  IInv'
<1>0. TypeOK' /\ Nobody \notin Recordings
  BY SpeechAssumption, TypeWorker DEF IInv, WorkerStep
<1>1. active \in Recordings
  BY DEF IInv, TypeOK, HandOver, HeldJobKeepsPace
<1>2. RunningIsHeld'
  BY <1>0, <1>1 DEF IInv, RunningIsHeld, HandOver, rows
<1>3. CancelReachesProcess'
  BY <1>0, <1>1 DEF IInv, CancelReachesProcess, HandOver, rows
<1>4. HandedOnce'
  <2>1. handed[active] = 0 /\ job[active] = "succeeded"
    BY DEF IInv, HandOver, HeldJobKeepsPace
  <2>2. handed'[active] = 1 /\ \A w \in Recordings \ {active} : handed'[w] = handed[w]
    <3>1. handed' = [handed EXCEPT ![active] = 1]
      BY <2>1 DEF HandOver
    <3> QED
      BY <1>1, <3>1 DEF IInv, TypeOK
  <2> QED
    BY <1>1, <2>1, <2>2 DEF IInv, HandOver, HandedOnce, rows
<1>5. HeldJobKeepsPace'
  BY <1>0, <1>1 DEF IInv, HeldJobKeepsPace, HandOver, rows
<1>6. AttemptLeft'
  BY <1>0, <1>1 DEF IInv, AttemptLeft, Queued, HandOver, rows
<1>7. JobVoiceAgree' /\ PendingBound' /\ HeldIsNotRequeued' /\ RunsWithinAttempts' /\ AudioKept' /\ RowsAndFiles'
  BY <1>0, <1>1 DEF IInv, JobVoiceAgree, Active, VOICE_STATUS, PendingBound, HeldIsNotRequeued,
     RunsWithinAttempts, HasJob, AudioKept, RowsAndFiles, Capacity, HandOver, rows
<1> QED
  BY <1>0, <1>2, <1>3, <1>4, <1>5, <1>6, <1>7 DEF IInv

\* The run fails.
LEMMA KeepFail ==
  ASSUME IInv, Fail
  PROVE  IInv'
<1>0. TypeOK' /\ Nobody \notin Recordings
  BY SpeechAssumption, TypeWorker DEF IInv, WorkerStep
<1>1. active \in Recordings
  BY DEF IInv, TypeOK, Fail, HeldJobKeepsPace
<1>2. JobVoiceAgree'
  BY <1>1, FailRunningAt DEF IInv, Fail, JobVoiceAgree, Active, ACTIVE
<1>3. PendingBound'
  <2>1. Active' \subseteq Active
    BY <1>1, FailRunningAt DEF IInv, Fail, Active, ACTIVE
  <2> QED
    BY <2>1, BoundKept
<1>4. RunningIsHeld'
  BY <1>0, <1>1, FailRunningAt DEF IInv, RunningIsHeld, Fail, hidden
<1>5. HeldIsNotRequeued'
  BY <1>0, <1>1, FailRunningAt DEF IInv, HeldIsNotRequeued, Fail, hidden
<1>6. CancelReachesProcess'
  BY <1>0, <1>1, FailRunningAt DEF IInv, CancelReachesProcess, Fail, hidden
<1>7. RunsWithinAttempts'
  BY <1>0, <1>1, FailRunningAt DEF IInv, RunsWithinAttempts, HasJob, Fail, hidden
<1>8. AudioKept'
  BY <1>0, <1>1, FailRunningAt DEF IInv, AudioKept, RowsAndFiles, Fail, hidden
<1>9. HandedOnce'
  <2>1. \A w \in Recordings : job[w] = "succeeded" => job'[w] = "succeeded"
    BY <1>1, FailRunningAt DEF IInv, Fail
  <2> QED
    BY <2>1 DEF IInv, HandedOnce, Fail, hidden
<1>10. HeldJobKeepsPace'
  BY <1>0, <1>1, FailRunningAt DEF IInv, HeldJobKeepsPace, Fail, hidden
<1>11. RowsAndFiles'
  <2>1. gap' = Whole
    BY DEF Fail
  <2>2. \A w \in Recordings : job'[w] # "none" => voice'[w] # "none"
    BY <1>1, FailRunningAt DEF IInv, RowsAndFiles, Fail
  <2> QED
    BY <2>1, <2>2, RowsSettled
<1>12. AttemptLeft'
  BY <1>0, <1>1, FailRunningAt DEF IInv, AttemptLeft, Queued, Fail, hidden
<1> QED
  BY <1>0, <1>2, <1>3, <1>4, <1>5, <1>6, <1>7, <1>8, <1>9, <1>10, <1>11, <1>12 DEF IInv

\* A cancel or a close ends the run.
LEMMA KeepInterrupt ==
  ASSUME IInv, Interrupt
  PROVE  IInv'
<1>0. TypeOK' /\ Nobody \notin Recordings
  BY SpeechAssumption, TypeWorker DEF IInv, WorkerStep
<1>1. active \in Recordings
  BY DEF IInv, TypeOK, Interrupt, HeldJobKeepsPace
<1>2. JobVoiceAgree'
  BY <1>1, FailRunningAt DEF IInv, Interrupt, JobVoiceAgree, Active, ACTIVE
<1>3. PendingBound'
  <2>1. Active' \subseteq Active
    BY <1>1, FailRunningAt DEF IInv, Interrupt, Active, ACTIVE
  <2> QED
    BY <2>1, BoundKept
<1>4. RunningIsHeld'
  BY <1>0, <1>1, FailRunningAt DEF IInv, RunningIsHeld, Interrupt, Release, hidden
<1>5. HeldIsNotRequeued'
  BY <1>0, <1>1, FailRunningAt DEF IInv, HeldIsNotRequeued, Interrupt, Release, hidden
<1>6. CancelReachesProcess'
  BY <1>0, <1>1, FailRunningAt DEF IInv, CancelReachesProcess, Interrupt, Release, hidden
<1>7. RunsWithinAttempts'
  BY <1>0, <1>1, FailRunningAt DEF IInv, RunsWithinAttempts, HasJob, Interrupt, Release, hidden
<1>8. AudioKept'
  BY <1>0, <1>1, FailRunningAt DEF IInv, AudioKept, RowsAndFiles, Interrupt, Release, hidden
<1>9. HandedOnce'
  <2>1. \A w \in Recordings : job[w] = "succeeded" => job'[w] = "succeeded"
    BY <1>1, FailRunningAt DEF IInv, Interrupt
  <2> QED
    BY <2>1 DEF IInv, HandedOnce, Interrupt, hidden
<1>10. HeldJobKeepsPace'
  BY <1>0, <1>1, FailRunningAt DEF IInv, HeldJobKeepsPace, Interrupt, Release, hidden
<1>11. RowsAndFiles'
  <2>1. gap' = Whole
    BY DEF Interrupt
  <2>2. \A w \in Recordings : job'[w] # "none" => voice'[w] # "none"
    BY <1>1, FailRunningAt DEF IInv, RowsAndFiles, Interrupt
  <2> QED
    BY <2>1, <2>2, RowsSettled
<1>12. AttemptLeft'
  BY <1>0, <1>1, FailRunningAt DEF IInv, AttemptLeft, Queued, Interrupt, Release, hidden
<1> QED
  BY <1>0, <1>2, <1>3, <1>4, <1>5, <1>6, <1>7, <1>8, <1>9, <1>10, <1>11, <1>12 DEF IInv

\* The worker lets go of the job.
LEMMA KeepFinish ==
  ASSUME IInv, Finish
  PROVE  IInv'
<1>0. TypeOK' /\ Nobody \notin Recordings
  BY SpeechAssumption, TypeWorker DEF IInv, WorkerStep
<1>1. RunningIsHeld'
  BY <1>0 DEF IInv, RunningIsHeld, HeldJobKeepsPace, Finish, Release, rows, hidden
<1>2. HeldIsNotRequeued'
  BY <1>0 DEF IInv, HeldIsNotRequeued, Finish, Release, rows, hidden
<1>3. CancelReachesProcess'
  BY <1>0 DEF IInv, CancelReachesProcess, Finish, Release, rows, hidden
<1>4. HeldJobKeepsPace'
  BY <1>0 DEF IInv, HeldJobKeepsPace, Finish, Release, rows, hidden
<1>5. AttemptLeft'
  BY <1>0 DEF IInv, AttemptLeft, Queued, Finish, Release, rows, hidden
<1>6. JobVoiceAgree' /\ PendingBound' /\ RunsWithinAttempts' /\ AudioKept' /\ HandedOnce' /\ RowsAndFiles'
  BY <1>0 DEF IInv, JobVoiceAgree, Active, PendingBound, RunsWithinAttempts, HasJob, AudioKept,
     HandedOnce, RowsAndFiles, Capacity, Finish, Release, rows, hidden
<1> QED
  BY <1>0, <1>1, <1>2, <1>3, <1>4, <1>5, <1>6 DEF IInv

\* The process dies.
LEMMA KeepCrash ==
  ASSUME IInv, Crash
  PROVE  IInv'
<1>0. TypeOK' /\ Nobody \notin Recordings
  BY SpeechAssumption, TypeLife DEF IInv
<1>1. RunningIsHeld'
  BY <1>0 DEF IInv, RunningIsHeld, Crash, Release, rows, hidden
<1>2. HeldIsNotRequeued'
  BY <1>0 DEF IInv, HeldIsNotRequeued, Crash, Release, rows, hidden
<1>3. CancelReachesProcess'
  BY <1>0 DEF IInv, CancelReachesProcess, Crash, Release, rows, hidden
<1>4. HeldJobKeepsPace'
  BY <1>0 DEF IInv, HeldJobKeepsPace, Crash, Release, rows, hidden
<1>5. RowsAndFiles'
  <2>1. gap' = Whole
    BY DEF Crash
  <2>2. \A w \in Recordings : job'[w] # "none" => voice'[w] # "none"
    BY DEF IInv, RowsAndFiles, Crash, rows
  <2> QED
    BY <2>1, <2>2, RowsSettled
<1>6. AttemptLeft'
  BY <1>0 DEF IInv, AttemptLeft, Queued, Crash, Release, rows, hidden
<1>7. JobVoiceAgree' /\ PendingBound' /\ RunsWithinAttempts' /\ AudioKept' /\ HandedOnce'
  BY <1>0 DEF IInv, JobVoiceAgree, Active, PendingBound, RunsWithinAttempts, HasJob, AudioKept,
     HandedOnce, Crash, Release, rows, hidden
<1> QED
  BY <1>0, <1>1, <1>2, <1>3, <1>4, <1>5, <1>6, <1>7 DEF IInv

\* The engine becomes ready or not.
LEMMA KeepEngineChange ==
  ASSUME IInv, EngineChange
  PROVE  IInv'
<1>0. TypeOK' /\ Nobody \notin Recordings
  BY SpeechAssumption, TypeLife DEF IInv
<1>1. JobVoiceAgree' /\ PendingBound' /\ RunningIsHeld' /\ HeldIsNotRequeued' /\ CancelReachesProcess' /\ RunsWithinAttempts' /\ AudioKept' /\ HandedOnce' /\ HeldJobKeepsPace' /\ RowsAndFiles' /\ AttemptLeft'
  BY <1>0 DEF IInv, JobVoiceAgree, Active, ACTIVE, VOICE_STATUS, PendingBound, RunningIsHeld,
     HeldIsNotRequeued, CancelReachesProcess, RunsWithinAttempts, HasJob, AudioKept, HandedOnce,
     HeldJobKeepsPace, RowsAndFiles, Capacity, AttemptLeft, Queued, EngineChange, rows, hidden
<1> QED
  BY <1>0, <1>1 DEF IInv

\* Start-up requeues or fails what was running.
LEMMA KeepStart ==
  ASSUME IInv, Start
  PROVE  IInv'
<1>0. TypeOK' /\ Nobody \notin Recordings
  BY SpeechAssumption, TypeLife DEF IInv
<1>1. worker = "off" /\ active = Nobody /\ gap = Whole
  BY DEF IInv, Start, HeldJobKeepsPace, RowsAndFiles
<1>2. CASE ~ready
  <2>1. UNCHANGED <<rows, files, gap, worker, active, stop, runs, handed>> /\ up'
    BY <1>2 DEF Start, rows, hidden
  <2>2. Active' = Active
    BY <2>1 DEF Active, rows
  <2>3. PendingBound'
    BY <2>2, BoundKept
  <2>4. RowsAndFiles'
    BY <1>1, <2>1, RowsSettled DEF IInv, RowsAndFiles, rows
  <2>5. JobVoiceAgree' /\ RunningIsHeld' /\ HeldIsNotRequeued' /\ CancelReachesProcess'
    BY <1>1, <2>1, <2>2 DEF IInv, rows, JobVoiceAgree, RunningIsHeld, HeldIsNotRequeued,
                           CancelReachesProcess
  <2>6. RunsWithinAttempts' /\ AudioKept' /\ HandedOnce' /\ AttemptLeft'
    BY <2>1 DEF IInv, rows, RunsWithinAttempts, HasJob, AudioKept, HandedOnce, AttemptLeft, Queued
  <2>7. HeldJobKeepsPace'
    BY <1>1, <2>1 DEF IInv, HeldJobKeepsPace
  <2> QED
    BY <1>0, <2>3, <2>4, <2>5, <2>6, <2>7 DEF IInv
<1>3. CASE ready
  <2>1. \A w \in Recordings :
          /\ job'[w] = IF job[w] = "running" THEN "failed" ELSE job[w]
          /\ voice'[w] = IF job[w] = "running" THEN "transcription_failed" ELSE voice[w]
    BY <1>3 DEF Start
  <2>2. UNCHANGED <<active, runs, attempts, handed, files, gap>> /\ worker' = "idle" /\ up'
    BY <1>3 DEF Start, hidden
  <2>3. Active' \subseteq Active
    BY <2>1 DEF Active, ACTIVE
  <2>4. PendingBound'
    BY <2>3, BoundKept
  <2>5. JobVoiceAgree' /\ RunningIsHeld'
    BY <2>1 DEF IInv, JobVoiceAgree, RunningIsHeld, Active, ACTIVE
  <2>6. RunsWithinAttempts' /\ AttemptLeft'
    BY <2>1, <2>2 DEF IInv, RunsWithinAttempts, AttemptLeft, HasJob, Queued
  <2>7. HandedOnce' /\ AudioKept'
    <3>1. \A w \in Recordings : job[w] = "succeeded" => job'[w] = "succeeded"
      BY <2>1
    <3>2. \A w \in Recordings : voice'[w] # "none" => voice[w] # "none"
      BY <1>0, <2>1 DEF IInv, JobVoiceAgree, Active, ACTIVE, VOICE_STATUS
    <3> QED
      BY <2>2, <3>1, <3>2 DEF IInv, HandedOnce, AudioKept
  <2>8. RowsAndFiles'
    BY <1>1, <2>1, <2>2, RowsSettled DEF IInv, RowsAndFiles
  <2>9. HeldIsNotRequeued' /\ CancelReachesProcess' /\ HeldJobKeepsPace'
    BY <1>1, <2>2 DEF HeldIsNotRequeued, CancelReachesProcess, HeldJobKeepsPace
  <2> QED
    BY <1>0, <2>4, <2>5, <2>6, <2>7, <2>8, <2>9 DEF IInv
<1> QED
  BY <1>2, <1>3

\* close() leaves the rows as the worker's handler of CancelledError does.
LEMMA KeepClose ==
  ASSUME IInv, Close
  PROVE  IInv'
<1>0. TypeOK' /\ Nobody \notin Recordings
  BY SpeechAssumption, TypeLife DEF IInv
<1>1. \A w \in Recordings :
        \/ job'[w] = job[w] /\ voice'[w] = voice[w]
        \/ job[w] = "running" /\ job'[w] = "failed" /\ voice'[w] = "transcription_failed"
  <2>1. CASE worker \in {"announce", "run"}
    <3>1. active \in Recordings /\ FailRunning(active)
      BY <2>1 DEF IInv, TypeOK, HeldJobKeepsPace, Close
    <3> QED
      BY <3>1, FailRunningAt DEF IInv, TypeOK
  <2>2. CASE worker \notin {"announce", "run"}
    BY <2>2 DEF Close
  <2> QED
    BY <2>1, <2>2
<1>2. /\ UNCHANGED <<runs, attempts, handed, files>> /\ gap' = Whole
      /\ worker' = "off" /\ active' = Nobody /\ ~up'
  BY DEF Close, Serving, Release, hidden
<1>3. Active' \subseteq Active
  BY <1>1 DEF Active, ACTIVE
<1>4. PendingBound'
  BY <1>3, BoundKept
<1>5. JobVoiceAgree' /\ RunningIsHeld'
  BY <1>1, <1>2 DEF IInv, JobVoiceAgree, RunningIsHeld, Active, ACTIVE
<1>6. RunsWithinAttempts' /\ AttemptLeft'
  BY <1>1, <1>2 DEF IInv, RunsWithinAttempts, AttemptLeft, HasJob, Queued
<1>7. HandedOnce' /\ AudioKept'
  <2>1. \A w \in Recordings : job[w] = "succeeded" => job'[w] = "succeeded"
    BY <1>1
  <2>2. \A w \in Recordings : voice'[w] # "none" => voice[w] # "none"
    BY <1>1 DEF IInv, JobVoiceAgree, Active, ACTIVE, VOICE_STATUS
  <2> QED
    BY <1>2, <2>1, <2>2 DEF IInv, HandedOnce, AudioKept
<1>8. RowsAndFiles'
  BY <1>1, <1>2, RowsSettled DEF IInv, RowsAndFiles
<1>9. HeldIsNotRequeued' /\ CancelReachesProcess' /\ HeldJobKeepsPace'
  BY <1>2 DEF HeldIsNotRequeued, CancelReachesProcess, HeldJobKeepsPace
<1> QED
  BY <1>0, <1>4, <1>5, <1>6, <1>7, <1>8, <1>9 DEF IInv

\* A step that changes nothing.
LEMMA KeepStutter ==
  ASSUME IInv, UNCHANGED vars
  PROVE  IInv'
<1>1. TypeOK'
  BY DEF IInv, vars, TypeOK
<1>2. Active' = Active
  BY DEF vars, Active
<1>3. PendingBound'
  BY <1>2, BoundKept
<1>4. JobVoiceAgree' /\ RunningIsHeld' /\ HeldIsNotRequeued' /\ CancelReachesProcess'
  BY <1>2 DEF IInv, vars, JobVoiceAgree, RunningIsHeld, HeldIsNotRequeued, CancelReachesProcess
<1>5. RunsWithinAttempts' /\ AudioKept' /\ HandedOnce' /\ AttemptLeft'
  BY DEF IInv, vars, RunsWithinAttempts, HasJob, AudioKept, HandedOnce, AttemptLeft, Queued
<1>6. HeldJobKeepsPace' /\ RowsAndFiles'
  BY <1>2 DEF IInv, vars, HeldJobKeepsPace, RowsAndFiles, Capacity
<1> QED
  BY <1>1, <1>3, <1>4, <1>5, <1>6 DEF IInv

-----------------------------------------------------------------------------
(* The invariant, and what follows from it.                                *)

\* The invariant holds at first.
LEMMA InvInit == Init => IInv
<1> SUFFICES ASSUME Init PROVE IInv
  OBVIOUS
<1>1. TypeOK
  BY TypeInit
<1>2. Active = {}
  BY DEF Init, Active, ACTIVE
<1>3. Cardinality(Active) = 0
  BY <1>2, FS_EmptySet
<1>4. PendingBound
  <2>1. MaxPending \in Nat
    BY SpeechAssumption
  <2> QED
    BY <1>3, <2>1 DEF PendingBound
<1>5. JobVoiceAgree /\ RunningIsHeld /\ HeldIsNotRequeued /\ CancelReachesProcess
  BY <1>2 DEF Init, JobVoiceAgree, RunningIsHeld, HeldIsNotRequeued, CancelReachesProcess
<1>6. RunsWithinAttempts /\ AudioKept /\ AttemptLeft
  BY DEF Init, RunsWithinAttempts, HasJob, AudioKept, AttemptLeft, Queued
<1>7. HandedOnce
  <2>1. \A u \in Recordings : handed[u] = 0
    BY DEF Init
  <2> QED
    BY <2>1 DEF HandedOnce
<1>8. HeldJobKeepsPace
  BY DEF Init, HeldJobKeepsPace
<1>9. RowsAndFiles
  BY SpeechAssumption DEF Init, RowsAndFiles, Whole
<1> QED
  BY <1>1, <1>4, <1>5, <1>6, <1>7, <1>8, <1>9 DEF IInv

\* The invariant is inductive: every action of Next keeps it.
LEMMA InvStep == IInv /\ [Next]_vars => IInv'
<1> SUFFICES ASSUME IInv, [Next]_vars PROVE IInv'
  OBVIOUS
<1>1. ASSUME NEW u \in Recordings, Request(u) PROVE IInv'
  BY <1>1, KeepSubmitFile, KeepSubmitRows, KeepUploadFile, KeepUploadRow, KeepStoreFails,
     KeepEnqueueExisting, KeepCancel, KeepRetry, KeepReview, KeepDeleteRow, KeepDeleteFile
     DEF Request
<1>2. CASE WorkerStep
  BY <1>2, KeepPick, KeepLaunch, KeepSucceed, KeepHandOver, KeepFail, KeepInterrupt, KeepFinish
     DEF WorkerStep
<1>3. CASE Start \/ Close \/ Crash \/ EngineChange
  BY <1>3, KeepStart, KeepClose, KeepCrash, KeepEngineChange
<1>4. CASE UNCHANGED vars
  BY <1>4, KeepStutter
<1> QED
  BY <1>1, <1>2, <1>3, <1>4 DEF Next

\* Every reachable state satisfies the inductive invariant.
THEOREM Invariant == Spec => []IInv
  BY InvInit, InvStep, PTL DEF Spec

\* A queued or running job and its voice row tell the same story.
THEOREM Agreement == Spec => []JobVoiceAgree
<1>1. IInv => JobVoiceAgree
  BY DEF IInv
<1> QED
  BY <1>1, Invariant, PTL

\* Never more than max_pending jobs wait or run.
THEOREM Bounded == Spec => []PendingBound
<1>1. IInv => PendingBound
  BY DEF IInv
<1> QED
  BY <1>1, Invariant, PTL

\* A live worker leaves no ghost, and nobody takes away the job it holds.
THEOREM HeldSafely == Spec => [](RunningIsHeld /\ HeldIsNotRequeued /\ CancelReachesProcess)
<1>1. IInv => RunningIsHeld /\ HeldIsNotRequeued /\ CancelReachesProcess
  BY DEF IInv
<1> QED
  BY <1>1, Invariant, PTL

\* No run without an attempt of its own, whatever crashes.
THEOREM Counted == Spec => []RunsWithinAttempts
<1>1. IInv => RunsWithinAttempts
  BY DEF IInv
<1> QED
  BY <1>1, Invariant, PTL

\* Every voice row has its recording on disk.
THEOREM NoAudioLost == Spec => []AudioKept
<1>1. IInv => AudioKept
  BY DEF IInv
<1> QED
  BY <1>1, Invariant, PTL

\* A transcript is handed to the assistant at most once, after success only.
THEOREM OneHandOver == Spec => []HandedOnce
<1>1. IInv => HandedOnce
  BY DEF IInv
<1> QED
  BY <1>1, Invariant, PTL

-----------------------------------------------------------------------------
(* Finished jobs.                                                          *)

\* The steps that touch no finished job.
LEMMA FinalFrame ==
  ASSUME \A w \in Recordings : job[w] \in {"failed", "cancelled", "succeeded"} =>
                                 job'[w] = job[w] /\ text'[w] = text[w]
  PROVE  FinalStep
  BY DEF FinalStep

\* Failing running jobs touches no finished one.
LEMMA FinalFailRunning ==
  ASSUME IInv, NEW u \in Recordings, FailRunning(u), text' = text
  PROVE  FinalStep
  BY FailRunningAt, FinalFrame DEF IInv

\* Of the requests only a retry reopens a finished job, as a new attempt.
LEMMA FinalRequest ==
  ASSUME IInv, NEW u \in Recordings, Request(u)
  PROVE  FinalStep
<1>1. CASE SubmitFile(u) \/ UploadFile(u) \/ UploadRow(u) \/ StoreFails(u) \/ DeleteFile(u)
  <2>1. UNCHANGED job
    BY <1>1 DEF SubmitFile, UploadFile, UploadRow, StoreFails, DeleteFile, rows
  <2>2. CASE ~UploadRow(u)
    BY <1>1, <2>1, <2>2, FinalFrame DEF SubmitFile, UploadFile, StoreFails, DeleteFile, rows
  <2>3. CASE UploadRow(u)
    <3>1. job[u] = "none"
      BY <2>3 DEF IInv, UploadRow, RowsAndFiles
    <3> QED
      BY <2>1, <2>3, <3>1, FinalFrame DEF IInv, TypeOK, UploadRow
  <2> QED
    BY <2>2, <2>3
<1>2. CASE SubmitRows(u)
  <2>1. job[u] = "none"
    BY <1>2 DEF IInv, SubmitRows, RowsAndFiles
  <2> QED
    BY <1>2, <2>1, FinalFrame DEF IInv, TypeOK, SubmitRows, NewJob, SetJob
<1>3. CASE EnqueueExisting(u)
  BY <1>3, FinalFrame DEF IInv, TypeOK, EnqueueExisting, NewJob, SetJob
<1>4. CASE Cancel(u)
  BY <1>4, FinalFrame DEF IInv, TypeOK, Cancel, SetJob, ACTIVE
<1>5. CASE Retry(u)
  BY <1>5 DEF IInv, TypeOK, Retry, Requeue, SetJob, FinalStep
<1>6. CASE Review(u)
  BY <1>6 DEF IInv, TypeOK, Review, FinalStep
<1>7. CASE DeleteRow(u)
  BY <1>7 DEF IInv, TypeOK, DeleteRow, FinalStep
<1> QED
  BY <1>1, <1>2, <1>3, <1>4, <1>5, <1>6, <1>7 DEF Request

\* The worker touches only the job it holds, which is not finished.
LEMMA FinalWorker ==
  ASSUME IInv, WorkerStep
  PROVE  FinalStep
<1>1. ASSUME NEW u \in Recordings, Pick(u) PROVE FinalStep
  BY <1>1, FinalFrame DEF IInv, TypeOK, Pick, Oldest, Queued, SetJob
<1>2. CASE Launch \/ HandOver \/ Finish
  BY <1>2, FinalFrame DEF Launch, HandOver, Finish, rows
<1>3. CASE Succeed
  BY <1>3, FinalFrame DEF IInv, TypeOK, Succeed, SetJob
<1>4. CASE Fail \/ Interrupt
  <2>1. active \in Recordings
    BY <1>4 DEF IInv, TypeOK, HeldJobKeepsPace, Fail, Interrupt
  <2> QED
    BY <1>4, <2>1, FinalFailRunning DEF Fail, Interrupt
<1> QED
  BY <1>1, <1>2, <1>3, <1>4 DEF WorkerStep

\* Start, close, crash and engine change touch no finished job.
LEMMA FinalLife ==
  ASSUME IInv, Start \/ Close \/ Crash \/ EngineChange
  PROVE  FinalStep
<1>1. CASE Start
  BY <1>1, FinalFrame DEF Start
<1>2. CASE Close
  <2>1. CASE worker \in {"announce", "run"}
    <3>1. active \in Recordings
      BY <2>1 DEF IInv, TypeOK, HeldJobKeepsPace
    <3> QED
      BY <1>2, <2>1, <3>1, FinalFailRunning DEF Close
  <2>2. CASE worker \notin {"announce", "run"}
    BY <1>2, <2>2, FinalFrame DEF Close
  <2> QED
    BY <2>1, <2>2
<1>3. CASE Crash \/ EngineChange
  BY <1>3, FinalFrame DEF Crash, EngineChange, rows
<1> QED
  BY <1>1, <1>2, <1>3

\* A failed or cancelled job comes back only through a counted retry, a
\* finished one not at all, and a corrected text is not overwritten.
THEOREM Final == Spec => FinalStays
<1>1. IInv /\ [Next]_vars => [FinalStep]_vars
  <2> SUFFICES ASSUME IInv, Next PROVE FinalStep
    OBVIOUS
  <2> QED
    BY FinalRequest, FinalWorker, FinalLife DEF Next
<1> QED
  BY <1>1, Invariant, PTL DEF Spec, FinalStays
============================================================
