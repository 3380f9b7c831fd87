----------------------------- MODULE ModelTools -----------------------------
(***************************************************************************)
(* The command-line tools that look after the speech model of a V35:       *)
(* speech_model.py (prepare, switch, restore, compare), cpu_lab (threads,  *)
(* record) and stt_accuracy_cli (selftest, compare), beside the            *)
(* server launcher and the transcription queue of the server.  They are    *)
(* separate processes that meet in lock files, one configuration file, two *)
(* snapshots of it and the speech_jobs table.  flock releases the locks of *)
(* a process that dies; the speech engine it started may go on.            *)
(***************************************************************************)
EXTENDS Integers, Sequences, FiniteSets

CONSTANTS Tools,       \* processes an operator may have running
          Threads,     \* thread counts in use
          MaxRuns,     \* bound: tools started
          MaxJobs,     \* bound: recordings submitted
          MaxEdits,    \* bound: edits of the configuration by hand
          None

Server  == "server process"
Models  == {"base", "small"}
Configs == [model : Models, threads : Threads, edit : 0 .. MaxEdits]

ASSUME ToolsAssumption ==
    /\ {None, Server} \cap Tools = {} /\ None # Server /\ None \notin Configs
    /\ Threads \subseteq 1 .. 8
    /\ MaxRuns \in Nat /\ MaxJobs \in Nat /\ MaxEdits \in Nat

VARIABLES
    run,       \* [Tools -> [cmd, at, raw, new, what]]: its command, the step it is
               \* before, the configuration it read, the one it will write, and
               \* the model it downloads or the recording it has sent again
    lock,      \* who holds each lock file
    dblock,    \* who has the write transaction of the database
    cfg,       \* speech-config.json
    original,  \* config-backups/original.json and its .sha256
    baseline,  \* small-upgrade/base-before-small.json and its .sha256
    present,   \* the verified models on disk
    server,    \* "off", "boot" (lock held, port closed) or "up" (port open)
    orphans,   \* the processes whose engine outlived them: it has a session of its
               \* own (_run_process()), so that killing the process does not end it
    job,       \* the speech_jobs row, if any: "queued" or "running"
    late,      \* history: the tools between their last comparison and the write
               \* when somebody edited the file by hand
    runs, jobs, edits

vars == <<run, lock, dblock, cfg, original, baseline, present, server, orphans, job,
          late, runs, jobs, edits>>
counts  == <<runs, jobs, edits>>
backups == <<original, baseline>>

Locks    == {"server", "experiment", "capture", "prepare"}
Commands == {"prepare", "switch small", "switch base", "restore", "compare",
             "threads", "record", "selftest", "stt compare"}
Maintenance == {"switch small", "switch base", "restore", "compare"}
Accuracy    == {"selftest", "stt compare"}

\* Mutant of Needs: a stopped port is enough to keep the server away.
NeedsNoServerLock(cmd) == CASE cmd \in Maintenance -> <<"experiment">>
                            [] cmd \in {"threads", "record"} -> <<"capture", "experiment">>
                            [] cmd \in Accuracy -> <<"server">>
                            [] cmd = "prepare" -> <<"prepare">>

\* The lock files each command takes, in this order.
Needs(cmd) == CASE cmd \in Maintenance -> <<"server", "experiment">>
                [] cmd \in {"threads", "record"} -> <<"capture", "experiment">>
                [] cmd \in Accuracy -> <<"server">>
                [] cmd = "prepare" -> <<"prepare">>

Idle == [cmd |-> None, at |-> "idle", raw |-> None, new |-> None, what |-> None]
NoBackup == [file |-> None, proof |-> None]
Complete(b) == b.file # None /\ b.proof = b.file

Init ==
    /\ run = [t \in Tools |-> Idle]
    /\ lock = [l \in Locks |-> None] /\ dblock = None
    /\ \E n \in Threads : cfg = [model |-> "base", threads |-> n, edit |-> 0]
    /\ original = NoBackup /\ baseline = NoBackup
    /\ present = {"base"}
    /\ server = "off" /\ orphans = {} /\ job = None
    /\ late = {} /\ runs = 0 /\ jobs = 0 /\ edits = 0

-----------------------------------------------------------------------------
(* The server: launcher, queue and configuration as the jobs use it.       *)

Launch ==
    /\ server = "off" /\ lock["server"] = None
    /\ server' = "boot" /\ lock' = [lock EXCEPT !["server"] = Server]
    /\ UNCHANGED <<run, dblock, cfg, backups, present, orphans, job, late, counts>>

\* Startup marks as failed what the last process left running.
Listen ==
    /\ server = "boot" /\ dblock = None
    /\ server' = "up"
    /\ job' = IF job = "running" THEN None ELSE job
    /\ UNCHANGED <<run, lock, dblock, cfg, backups, present, orphans, late, counts>>

\* Every change of the job table waits for the write transaction of another.
JobStep(from, to) ==
    /\ server = "up" /\ dblock = None /\ job = from /\ job' = to
    /\ UNCHANGED <<lock, dblock, cfg, backups, present, server, orphans, late,
                   runs, edits>>

Accept    == jobs < MaxJobs /\ jobs' = jobs + 1 /\ JobStep(None, "queued")
Submit    == Accept /\ UNCHANGED run
StartJob  == JobStep("queued", "running") /\ UNCHANGED <<run, jobs>>
FinishJob == JobStep("running", None) /\ UNCHANGED <<run, jobs>>
CancelJob == JobStep("queued", None) /\ UNCHANGED <<run, jobs>>

\* A server that is stopped ends the engine of its job first, a server that is
\* killed leaves it running; the row stays as it is.
ServerEnds ==
    /\ server # "off"
    /\ server' = "off" /\ lock' = [lock EXCEPT !["server"] = None]
    /\ \/ server = "up" /\ job = "running" /\ orphans' = orphans \cup {Server}
       \/ UNCHANGED orphans
    /\ UNCHANGED <<run, dblock, cfg, backups, present, job, late, counts>>

\* Nobody waits for an engine without its process; it ends with its input.
OrphanEnds ==
    /\ \E p \in orphans : orphans' = orphans \ {p}
    /\ UNCHANGED <<run, lock, dblock, cfg, backups, present, server, job, late, counts>>

\* An editor changes a setting that no tool touches.
HandEdit ==
    /\ edits < MaxEdits
    /\ edits' = edits + 1
    /\ cfg' = [cfg EXCEPT !.edit = edits + 1]
    /\ late' = late \cup {t \in Tools : run[t].at = "commit"}
    /\ UNCHANGED <<run, lock, dblock, backups, present, server, orphans, job, runs, jobs>>

-----------------------------------------------------------------------------
(* A tool: begins, takes its locks, works, ends or is stopped.             *)

At(t, cmds, step) == run[t].cmd \in cmds /\ run[t].at = step
GoTo(t, step)     == run' = [run EXCEPT ![t].at = step]
PortOpen          == server = "up"

\* ensure_idle(): a job is queued or running in the database.
Busy == job # None

\* verify_model(): the file of the catalogue's size, magic and hash.
Verified(m) == m \in present

\* What the accuracy tests are about: the base model on six threads.
AsExpected == cfg.model = "base" /\ cfg.threads = 6

\* The end of a tool, however it comes; the kernel drops its locks and SQLite
\* its transaction.
Ends(t) ==
    /\ run' = [run EXCEPT ![t] = Idle]
    /\ lock' = [l \in Locks |-> IF lock[l] = t THEN None ELSE lock[l]]
    /\ dblock' = IF dblock = t THEN None ELSE dblock
    /\ late' = late \ {t}

\* Goes on with `step`, or stops with a message when the condition fails.
OnlyIf(t, condition, step) ==
    IF condition THEN GoTo(t, step) /\ UNCHANGED <<lock, dblock, late>> ELSE Ends(t)

Rest(t) == UNCHANGED <<cfg, backups, present, server, orphans, job, counts>>

\* The maintenance commands and the accuracy tests look at the port first; the
\* accuracy tests read the configuration before they have a lock.
Begin(t, cmd) ==
    /\ run[t] = Idle /\ runs < MaxRuns
    /\ cmd \in Maintenance \cup Accuracy => ~PortOpen
    /\ cmd \in Accuracy => AsExpected
    /\ run' = [run EXCEPT ![t] = [Idle EXCEPT
                 !.cmd = cmd, !.at = "locks",
                 !.raw = IF cmd \in Accuracy THEN cfg ELSE None]]
    /\ runs' = runs + 1
    /\ UNCHANGED <<lock, dblock, cfg, backups, present, server, orphans, job, late,
                   jobs, edits>>

Acquire(t) ==
    LET needs == Needs(run[t].cmd)
        held  == Cardinality({l \in Locks : lock[l] = t})
    IN /\ run[t].at = "locks"
       /\ IF held = Len(needs) THEN GoTo(t, "check") /\ UNCHANGED <<lock, dblock, late>>
          ELSE IF lock[needs[held + 1]] = None
               THEN /\ lock' = [lock EXCEPT ![needs[held + 1]] = t]
                    /\ UNCHANGED <<run, dblock, late>>
               ELSE Ends(t)
       /\ Rest(t)

\* Stopped by Ctrl-C a tool ends its engine first, killed it leaves it running.
Killed(t) ==
    /\ run[t] # Idle
    /\ Ends(t)
    /\ \/ run[t].at = "test" /\ orphans' = orphans \cup {t}
       \/ UNCHANGED orphans
    /\ UNCHANGED <<cfg, backups, present, server, job, counts>>

-----------------------------------------------------------------------------
(* speech_model.py                                                         *)

Prepare(t) ==
    /\ At(t, {"prepare"}, "check")
    /\ \E m \in Models :
         IF Verified(m) THEN Ends(t)
         ELSE /\ run' = [run EXCEPT ![t].at = "download", ![t].what = m]
              /\ UNCHANGED <<lock, dblock, late>>
    /\ Rest(t)

\* A download is verified as a partial file; it becomes the model in one step
\* and never takes the place of a file that is there.
Install(t) ==
    /\ At(t, {"prepare"}, "download")
    /\ \/ run[t].what \notin present /\ present' = present \cup {run[t].what}
       \/ UNCHANGED present
    /\ Ends(t)
    /\ UNCHANGED <<cfg, backups, server, orphans, job, counts>>

\* The candidate of a command, from the configuration it read.
Candidate(cmd) ==
    CASE cmd = "switch small" -> [cfg EXCEPT !.model = "small"]
      [] cmd = "switch base"  -> [cfg EXCEPT !.model = "base"]
      [] cmd = "restore"      -> baseline.file
      [] OTHER                -> None

\* maintenance(): the port again and no pending job; then what the command
\* itself asks for.
CheckMaintenance(t) ==
    LET cmd == run[t].cmd
        ready == CASE cmd = "switch small" -> cfg.model = "base"
                   [] cmd = "restore" -> /\ Complete(baseline)
                                         /\ baseline.file.model = "base"
                                         /\ baseline.file.threads = 8
                   [] cmd = "compare" -> present = Models
                   [] OTHER -> TRUE
    IN /\ At(t, Maintenance, "check")
       /\ IF PortOpen \/ Busy \/ ~ready THEN Ends(t)
          ELSE /\ run' = [run EXCEPT ![t].raw = cfg, ![t].new = Candidate(cmd),
                            ![t].at = IF cmd = "switch small" THEN "snapshot" ELSE "test"]
               /\ UNCHANGED <<lock, dblock, late>>
       /\ Rest(t)

\* Mutant of SnapshotStep: a snapshot that is there is taken for whole.
SnapshotTrusted(t) ==
    IF baseline.file = None
    THEN /\ baseline' = [baseline EXCEPT !.file = run[t].raw]
         /\ GoTo(t, "proof") /\ UNCHANGED <<lock, dblock, late>>
    ELSE UNCHANGED baseline /\ OnlyIf(t, TRUE, "test")

\* The first switch to small keeps the base configuration and its checksum: two
\* files, written one after the other.  A snapshot that is there must be whole.
SnapshotStep(t) ==
    IF baseline.file = None
    THEN /\ baseline' = [baseline EXCEPT !.file = run[t].raw]
         /\ GoTo(t, "proof") /\ UNCHANGED <<lock, dblock, late>>
    ELSE UNCHANGED baseline /\ OnlyIf(t, Complete(baseline), "test")

Snapshot(t) ==
    /\ At(t, {"switch small"}, "snapshot")
    /\ SnapshotStep(t)
    /\ UNCHANGED <<cfg, original, present, server, orphans, job, counts>>

Proof(t) ==
    /\ At(t, {"switch small"}, "proof")
    /\ baseline' = [baseline EXCEPT !.proof = run[t].raw]
    /\ GoTo(t, "test")
    /\ UNCHANGED <<lock, dblock, late, cfg, original, present, server, orphans, job, counts>>

\* The engine really runs on the candidate; it may fail or say something else.
Test(t) ==
    /\ At(t, Maintenance, "test")
    /\ \E passed \in BOOLEAN :
         OnlyIf(t, passed /\ (run[t].new # None => Verified(run[t].new.model)),
                IF run[t].cmd = "compare" THEN "final" ELSE "save")
    /\ Rest(t)

\* save_config(): nobody may have changed the file, and the first change keeps
\* the original and its checksum.
Save(t) ==
    /\ At(t, Maintenance, "save")
    /\ IF cfg = run[t].raw /\ original = NoBackup
       THEN /\ original' = [original EXCEPT !.file = run[t].raw]
            /\ GoTo(t, "origproof") /\ UNCHANGED <<lock, dblock, late>>
       ELSE /\ UNCHANGED original
            /\ OnlyIf(t, cfg = run[t].raw /\ Complete(original), "recheck")
    /\ UNCHANGED <<cfg, baseline, present, server, orphans, job, counts>>

OrigProof(t) ==
    /\ At(t, Maintenance, "origproof")
    /\ original' = [original EXCEPT !.proof = run[t].raw]
    /\ GoTo(t, "recheck")
    /\ UNCHANGED <<lock, dblock, late, cfg, baseline, present, server, orphans, job, counts>>

\* Mutant of Recheck: the comparison before the test was enough.
RecheckNothing(t) ==
    /\ At(t, Maintenance, "recheck")
    /\ OnlyIf(t, TRUE, "commit")
    /\ Rest(t)

\* After the run's own backup and its record: the same comparison once more.
Recheck(t) ==
    /\ At(t, Maintenance, "recheck")
    /\ OnlyIf(t, cfg = run[t].raw, "commit")
    /\ Rest(t)

\* atomic_write(): a whole file takes the name in one step, so that a tool that
\* is killed leaves the old configuration or the new one.
Written(t) == cfg' = run[t].new

Commit(t) ==
    /\ run[t].at = "commit"
    /\ Written(t)
    /\ Ends(t)
    /\ UNCHANGED <<backups, present, server, orphans, job, counts>>

\* compare(): the report is kept only if the file is what it was; either way
\* the command is over.
EndCompare(t) == At(t, {"compare"}, "final") /\ Ends(t) /\ Rest(t)

-----------------------------------------------------------------------------
(* cpu_lab: the thread count changes and recordings are made while the     *)
(* server may be running.                                                  *)

CheckThreads(t) ==
    /\ At(t, {"threads"}, "check")
    /\ \E n \in Threads :
         IF cfg.model # "base" \/ Busy \/ cfg.threads = n THEN Ends(t)
         ELSE /\ run' = [run EXCEPT ![t].at = "begin", ![t].raw = cfg,
                                    ![t].new = [cfg EXCEPT !.threads = n]]
              /\ UNCHANGED <<lock, dblock, late>>
    /\ Rest(t)

\* Mutant of BeginImmediate: checked again, but without a transaction.
BeginNothing(t) ==
    /\ At(t, {"threads"}, "begin")
    /\ IF Busy \/ cfg # run[t].raw THEN Ends(t)
       ELSE GoTo(t, "commit") /\ UNCHANGED <<lock, dblock, late>>
    /\ Rest(t)

\* BEGIN IMMEDIATE, then both checks again; no job can be inserted until the
\* file is written.
BeginImmediate(t) ==
    /\ At(t, {"threads"}, "begin") /\ dblock = None
    /\ IF Busy \/ cfg # run[t].raw THEN Ends(t)
       ELSE dblock' = t /\ GoTo(t, "commit") /\ UNCHANGED <<lock, late>>
    /\ Rest(t)

CheckRecord(t) ==
    /\ At(t, {"record"}, "check")
    /\ IF cfg.model # "base" \/ Busy \/ ~PortOpen THEN Ends(t)
       ELSE /\ run' = [run EXCEPT ![t].raw = cfg, ![t].at = "sample"]
            /\ UNCHANGED <<lock, dblock, late>>
    /\ Rest(t)

\* The optional replay submits the old recording once more, and only once; when
\* it fails the recording ends.
Replay(t) ==
    /\ At(t, {"record"}, "sample") /\ run[t].what = None
    /\ \/ /\ Accept
          /\ run' = [run EXCEPT ![t].what = "sent"]
       \/ /\ Ends(t) /\ Rest(t)

EndRecord(t) == At(t, {"record"}, "sample") /\ Ends(t) /\ Rest(t)

-----------------------------------------------------------------------------
(* stt_accuracy_cli.py                                                     *)

\* compare() wants no pending job; selftest() does not look.
CheckAccuracy(t) ==
    /\ At(t, Accuracy, "check")
    /\ OnlyIf(t, run[t].cmd = "stt compare" => ~Busy, "test")
    /\ Rest(t)

\* One transcription of a public sample, whether it says what it should or not.
EndSelftest(t) == At(t, {"selftest"}, "test") /\ Ends(t) /\ Rest(t)

\* Every profile on the same recording; a changed configuration discards them.
EndAccuracy(t) == At(t, {"stt compare"}, "test") /\ Ends(t) /\ Rest(t)

-----------------------------------------------------------------------------

ServerNext == \/ Launch \/ Listen \/ ServerEnds \/ OrphanEnds
              \/ Submit \/ StartJob \/ FinishJob \/ CancelJob

ToolNext(t) ==
    \/ \E cmd \in Commands : Begin(t, cmd)
    \/ Acquire(t) \/ Killed(t)
    \/ Prepare(t) \/ Install(t)
    \/ CheckMaintenance(t) \/ Snapshot(t) \/ Proof(t) \/ Test(t)
    \/ Save(t) \/ OrigProof(t) \/ Recheck(t) \/ Commit(t) \/ EndCompare(t)
    \/ CheckThreads(t) \/ BeginImmediate(t)
    \/ CheckRecord(t) \/ Replay(t) \/ EndRecord(t)
    \/ CheckAccuracy(t) \/ EndSelftest(t) \/ EndAccuracy(t)

Next == ServerNext \/ HandEdit \/ \E t \in Tools : ToolNext(t)

Spec == Init /\ [][Next]_vars

-----------------------------------------------------------------------------
(* Properties.                                                             *)

Steps   == {"idle", "locks", "check", "download", "snapshot", "proof", "test", "save",
            "origproof", "recheck", "begin", "commit", "sample", "final"}
Runs    == [cmd : Commands \cup {None}, at : Steps, raw : Configs \cup {None},
            new : Configs \cup {None}, what : Models \cup {"sent", None}]

ToolsOK ==
    /\ run \in [Tools -> Runs]
    /\ lock \in [Locks -> Tools \cup {Server, None}] /\ dblock \in Tools \cup {None}
    /\ cfg \in Configs /\ present \subseteq Models
    /\ original \in [file : Configs \cup {None}, proof : Configs \cup {None}]
    /\ baseline \in [file : Configs \cup {None}, proof : Configs \cup {None}]
    /\ server \in {"off", "boot", "up"} /\ job \in {"queued", "running", None}
    /\ late \subseteq Tools /\ edits \in 0 .. MaxEdits
TypeOK == ToolsOK /\ orphans \subseteq Tools \cup {Server}

\* At most one living process runs the speech engine: the server on a job, or one
\* tool on a test.  Nothing is said of an engine whose process was killed: the
\* locks went with the process, and another engine may start beside it.
Testing   == {t \in Tools : run[t].at = "test"}
OneEngine ==
    /\ TypeOK
    /\ Cardinality(Testing) + (IF server = "up" /\ job = "running" THEN 1 ELSE 0) <= 1

\* While small is the active model there is a way back: a whole snapshot of a
\* base configuration and a whole copy of the original one, wherever the tool
\* that switched was killed before.
WayBack ==
    cfg.model = "small" =>
        Complete(original) /\ Complete(baseline) /\ baseline.file.model = "base"

\* A tool changes the configuration only while no recording waits or is being
\* transcribed, nor is measured by a recorder, and changes the model only under
\* a stopped server.
WhenIdle(t) ==
    /\ job = None /\ ~(\E u \in Tools : run[u].at = "sample")
    /\ run[t].cmd # "threads" => server = "off"

\* No tool writes over a configuration it has not read; only an edit made after
\* its last comparison can be lost.
AsItRead(t) == cfg = run[t].raw \/ t \in late

\* So with every change a tool makes.
ChangedWithCare == [][\A t \in Tools : Commit(t) => WhenIdle(t) /\ AsItRead(t)]_vars
=============================================================================
