-------------------------- MODULE ModelTools_proofs --------------------------
(***************************************************************************)
(* Proofs about the tools that look after the speech model, for any number *)
(* of tools, thread counts, runs and edits.  Every property rests on the   *)
(* lock files: Locked says what a tool holds at each step, and Sound what  *)
(* it knows there because nobody else can have changed it.                 *)
(***************************************************************************)
EXTENDS ModelTools, FiniteSetTheorems, TLAPS

Held(t) == {l \in Locks : lock[l] = t}
First(cmd, k) == {Needs(cmd)[i] : i \in 1 .. k}
All(cmd) == First(cmd, Len(Needs(cmd)))
Early == {"idle", "locks"}

\* A tool past "locks" has all it needs, before that a first part of it; the
\* server holds its own lock as long as it lives.
Locked ==
    /\ server # "off" => lock["server"] = Server
    /\ \A t \in Tools :
         /\ run[t].at = "idle" => run[t] = Idle /\ Held(t) = {}
         /\ run[t].at = "locks" =>
              \E k \in 0 .. Len(Needs(run[t].cmd)) : Held(t) = First(run[t].cmd, k)
         /\ run[t].at \notin Early => Held(t) = All(run[t].cmd)

Switches == {"switch small", "switch base", "restore"}
Writers  == Switches \cup {"threads"}
Changing == {"snapshot", "proof", "test", "save", "origproof", "recheck", "commit", "final"}

\* The steps of each command.
Path(r) ==
    /\ r.at # "idle" => r.cmd \in Commands
    /\ r.at = "download" => r.what \in Models
    /\ r.at \in {"snapshot", "proof"} => r.cmd = "switch small"
    /\ r.at = "test" => r.cmd \in Maintenance \cup Accuracy
    /\ r.at \in {"save", "origproof", "recheck"} => r.cmd \in Switches
    /\ r.at = "begin" => r.cmd = "threads"
    /\ r.at = "commit" => r.cmd \in Writers
    /\ r.at = "sample" => r.cmd = "record"
    /\ r.at = "final" => r.cmd = "compare"

\* Nothing is queued or running while a tool prepares its change.
Guarded(t, r) ==
    /\ r.cmd \in Maintenance /\ r.at \in Changing => job = None
    /\ r.cmd = "threads" /\ r.at = "commit" => dblock = t /\ job = None

\* What is going to be written, and over what.
Going(t, r) ==
    /\ r.at = "commit" => cfg = r.raw \/ t \in late
    /\ r.cmd \in Writers /\ r.at \in Changing \cup {"begin"} =>
         /\ r.raw # None /\ r.new # None
         /\ r.new.model = "small" => r.cmd = "switch small"
         /\ r.cmd = "switch small" => r.raw.model = "base"

\* The way back, as far as the switch has come.
Kept(r) ==
    /\ r.at = "proof" => baseline.file = r.raw
    /\ r.cmd = "switch small" /\ r.at \in {"test", "save", "origproof", "recheck", "commit"}
         => Complete(baseline)
    /\ r.at = "origproof" => original.file = r.raw
    /\ r.cmd \in Maintenance /\ r.at \in {"recheck", "commit"} => Complete(original)

Sound(t, r) == Path(r) /\ Guarded(t, r) /\ Going(t, r) /\ Kept(r)

IInv ==
    /\ ToolsOK /\ Locked /\ WayBack
    /\ baseline.file # None => baseline.file.model = "base"
    /\ \A t \in Tools : Sound(t, run[t])

-----------------------------------------------------------------------------
(* The locks.                                                              *)

\* What each command takes, as a set.
LEMMA LockSets ==
    /\ \A cmd \in Maintenance : All(cmd) = {"server", "experiment"}
    /\ \A cmd \in {"threads", "record"} : All(cmd) = {"capture", "experiment"}
    /\ \A cmd \in Accuracy : All(cmd) = {"server"}
<1>1. ASSUME NEW cmd \in Maintenance PROVE All(cmd) = {"server", "experiment"}
  <2>1. Needs(cmd) = <<"server", "experiment">>
    BY DEF Needs, Maintenance, Accuracy
  <2> QED
    BY <2>1 DEF All, First
<1>2. ASSUME NEW cmd \in {"threads", "record"} PROVE All(cmd) = {"capture", "experiment"}
  <2>1. Needs(cmd) = <<"capture", "experiment">>
    BY DEF Needs, Maintenance, Accuracy
  <2> QED
    BY <2>1 DEF All, First
<1>3. ASSUME NEW cmd \in Accuracy PROVE All(cmd) = {"server"}
  <2>1. Needs(cmd) = <<"server">>
    BY DEF Needs, Maintenance, Accuracy
  <2> QED
    BY <2>1 DEF All, First
<1> QED
  BY <1>1, <1>2, <1>3

\* Two tools that work on the engine or on the configuration exclude each other,
\* and the former exclude the server.
LEMMA Holds ==
    ASSUME ToolsOK, Locked, NEW t \in Tools, run[t].at \notin Early
    PROVE  /\ run[t].cmd \in Maintenance \cup Accuracy => lock["server"] = t /\ server = "off"
           /\ run[t].cmd \in Maintenance \cup {"threads", "record"} => lock["experiment"] = t
<1>1. Held(t) = All(run[t].cmd)
  BY DEF Locked
<1>2. \A l \in All(run[t].cmd) : lock[l] = t
  BY <1>1 DEF Held
<1>3. t # Server
  BY ToolsAssumption
<1> QED
  BY <1>2, <1>3, LockSets DEF Locked

\* One of at most two locks after the other: how many a tool has says which.
LEMMA NextLock ==
    ASSUME NEW cmd \in Commands, NEW k \in 0 .. Len(Needs(cmd))
    PROVE  /\ Cardinality(First(cmd, k)) = k
           /\ First(cmd, k) \subseteq Locks
           /\ k < Len(Needs(cmd)) => /\ Needs(cmd)[k + 1] \in Locks
                                     /\ First(cmd, k + 1) = First(cmd, k) \cup {Needs(cmd)[k + 1]}
<1>1. \/ \E a \in Locks : Needs(cmd) = <<a>>
      \/ \E a, b \in Locks : Needs(cmd) = <<a, b>> /\ a # b
  BY DEF Needs, Locks, Commands, Maintenance, Accuracy
<1>2. CASE \E a \in Locks : Needs(cmd) = <<a>>
  <2>1. PICK a \in Locks : Needs(cmd) = <<a>>
    BY <1>2
  <2>2. /\ Len(Needs(cmd)) = 1 /\ Needs(cmd)[1] = a /\ k \in {0, 1}
        /\ First(cmd, 0) = {} /\ First(cmd, 1) = {a}
    BY <2>1 DEF First
  <2>3. Cardinality({}) = 0 /\ Cardinality({a}) = 1
    BY FS_EmptySet, FS_Singleton
  <2>4. CASE k = 0
    BY <2>1, <2>2, <2>3, <2>4
  <2>5. CASE k = 1
    BY <2>1, <2>2, <2>3, <2>5
  <2> QED
    BY <2>2, <2>4, <2>5
<1>3. CASE \E a, b \in Locks : Needs(cmd) = <<a, b>> /\ a # b
  <2>1. PICK a, b \in Locks : Needs(cmd) = <<a, b>> /\ a # b
    BY <1>3
  <2>2. /\ Len(Needs(cmd)) = 2 /\ Needs(cmd)[1] = a /\ Needs(cmd)[2] = b
        /\ k \in {0, 1, 2}
        /\ First(cmd, 0) = {} /\ First(cmd, 1) = {a} /\ First(cmd, 2) = {a, b}
    <3>1. Len(Needs(cmd)) = 2 /\ Needs(cmd)[1] = a /\ Needs(cmd)[2] = b
      BY <2>1
    <3>2. First(cmd, 0) = {} /\ First(cmd, 1) = {a}
      BY <3>1 DEF First
    <3>3. First(cmd, 2) = {a, b}
      BY <3>1 DEF First
    <3> QED
      BY <3>1, <3>2, <3>3
  <2>3. IsFiniteSet({a}) /\ Cardinality({a}) = 1 /\ {a, b} = {a} \cup {b} /\ b \notin {a}
    BY <2>1, FS_Singleton
  <2>4. Cardinality({a} \cup {b}) = Cardinality({a}) + 1
    BY <2>3, FS_AddElement, Zenon
  <2>5. Cardinality({}) = 0 /\ Cardinality({a, b}) = 2
    BY <2>3, <2>4, FS_EmptySet
  <2>6. CASE k = 0
    BY <2>1, <2>2, <2>5, <2>6
  <2>7. CASE k = 1
    BY <2>1, <2>2, <2>3, <2>7
  <2>8. CASE k = 2
    BY <2>1, <2>2, <2>5, <2>8
  <2> QED
    BY <2>2, <2>6, <2>7, <2>8
<1> QED
  BY <1>1, <1>2, <1>3

-----------------------------------------------------------------------------
(* What every step of a tool has in common.                                *)

LEMMA InitIInv == Init => IInv
<1> SUFFICES ASSUME Init PROVE IInv
  OBVIOUS
<1>1. \A t \in Tools : run[t] = Idle
  BY DEF Init
<1>2. Idle \in Runs /\ Idle.at = "idle" /\ NoBackup.file = None
  BY DEF Idle, Runs, Steps, NoBackup
<1>3. ToolsOK
  BY <1>2, ToolsAssumption DEF Init, ToolsOK, Configs, Models, NoBackup
<1>4. Locked
  BY <1>1, <1>2, ToolsAssumption DEF Init, Locked, Held, Early
<1>5. \A t \in Tools : Sound(t, run[t])
  BY <1>1, <1>2 DEF Sound, Path, Guarded, Going, Kept, Changing
<1>6. WayBack /\ baseline.file = None
  BY <1>2 DEF Init, WayBack
<1> QED
  BY <1>3, <1>4, <1>5, <1>6 DEF IInv

\* A tool that ends leaves its locks, and the others where they are.
LEMMA EndWrites ==
    ASSUME IInv, NEW t \in Tools, Ends(t),
           UNCHANGED <<backups, server, job, edits>>, present' \subseteq Models,
           cfg' \in Configs, WayBack',
           cfg' = cfg \/ \A u \in Tools \ {t} : run[u].at # "commit"
    PROVE  IInv'
<1> USE ToolsAssumption DEF IInv, Ends, backups
<1>1. Idle \in Runs /\ Idle.at = "idle"
  BY DEF Idle, Runs, Steps
<1>2. run'[t] = Idle /\ \A u \in Tools \ {t} : run'[u] = run[u]
  BY DEF ToolsOK
<1>3. ToolsOK'
  BY <1>1 DEF ToolsOK
<1>4. Held(t)' = {} /\ \A u \in Tools \ {t} : Held(u)' = Held(u)
  BY DEF Held
<1>5. server' # "off" => lock'["server"] = Server
  BY DEF Locked, Locks
<1>6. Locked'
  <2> SUFFICES ASSUME NEW u \in Tools
      PROVE  /\ run'[u].at = "idle" => run'[u] = Idle /\ Held(u)' = {}
             /\ run'[u].at = "locks" =>
                  \E k \in 0 .. Len(Needs(run'[u].cmd)) : Held(u)' = First(run'[u].cmd, k)
             /\ run'[u].at \notin Early => Held(u)' = All(run'[u].cmd)
    BY <1>5 DEF Locked
  <2>1. CASE u = t
    BY <2>1, <1>1, <1>2, <1>4 DEF Early
  <2>2. CASE u # t
    BY <2>2, <1>2, <1>4 DEF Locked
  <2> QED
    BY <2>1, <2>2
<1>7. ASSUME NEW u \in Tools PROVE Sound(u, run[u])'
  <2>1. CASE u = t
    BY <2>1, <1>1, <1>2 DEF Sound, Path, Guarded, Going, Kept, Changing
  <2>2. CASE u # t
    <3>1. Sound(u, run[u]) /\ run'[u] = run[u]
      BY <2>2, <1>2
    <3>2. /\ (dblock = u => dblock' = u) /\ (u \in late => u \in late')
          /\ cfg' = cfg \/ run[u].at # "commit"
          /\ job' = job /\ original' = original /\ baseline' = baseline
      BY <2>2
    <3>3. Path(run[u])' /\ Guarded(u, run[u])'
      BY <3>1, <3>2 DEF Sound, Path, Guarded
    <3>4. Going(u, run[u])'
      BY <3>1, <3>2 DEF Sound, Going
    <3>5. Kept(run[u])'
      BY <3>1, <3>2 DEF Sound, Kept
    <3> QED
      BY <3>3, <3>4, <3>5 DEF Sound
  <2> QED
    BY <2>1, <2>2
<1> QED
  BY <1>3, <1>6, <1>7

LEMMA EndKeeps ==
    ASSUME IInv, NEW t \in Tools, Ends(t),
           UNCHANGED <<cfg, backups, server, job, edits>>, present' \subseteq Models
    PROVE  IInv'
<1>1. cfg' \in Configs /\ original' = original /\ baseline' = baseline
  BY DEF IInv, ToolsOK, backups
<1>2. WayBack'
  BY <1>1 DEF IInv, WayBack
<1> QED
  BY <1>1, <1>2, EndWrites

\* A tool that goes on keeps its locks; what it relies on has to be shown for it
\* and, where it writes, for the others.
LEMMA MoveKeeps ==
    ASSUME IInv, NEW t \in Tools, NEW r \in Runs,
           run' = [run EXCEPT ![t] = r], r.cmd = run[t].cmd,
           run[t].at \notin Early, r.at \notin Early,
           UNCHANGED <<lock, cfg, present, server, job, late, edits>>,
           original' \in [file : Configs \cup {None}, proof : Configs \cup {None}],
           baseline' \in [file : Configs \cup {None}, proof : Configs \cup {None}],
           dblock' = dblock \/ (dblock = None /\ dblock' = t),
           baseline'.file # None => baseline'.file.model = "base",
           Complete(baseline) => Complete(baseline'),
           Complete(original) => Complete(original'),
           cfg.model = "small" => baseline'.file.model = "base",
           Sound(t, r)',
           \A u \in Tools \ {t} : run[u].at \notin {"proof", "origproof"} \/ UNCHANGED backups
    PROVE  IInv'
<1> USE ToolsAssumption DEF IInv, backups
<1>2. run'[t] = r /\ \A u \in Tools \ {t} : run'[u] = run[u]
  BY DEF ToolsOK
<1>3. ToolsOK'
  BY DEF ToolsOK
<1>4. \A u \in Tools : Held(u)' = Held(u)
  BY DEF Held
<1>6. Locked'
  BY <1>2, <1>4 DEF Locked, Early
<1>7. ASSUME NEW u \in Tools \ {t} PROVE Sound(u, run[u])'
  <2>1. Sound(u, run[u]) /\ run'[u] = run[u]
    BY <1>2
  <2>2. (dblock = u => dblock' = u) /\ job' = job /\ cfg' = cfg /\ late' = late
    BY DEF ToolsOK
  <2>3. Path(run[u])' /\ Guarded(u, run[u])'
    BY <2>1, <2>2 DEF Sound, Path, Guarded
  <2>4. Going(u, run[u])'
    BY <2>1, <2>2 DEF Sound, Going
  <2>5. /\ run[u].at \in {"proof", "origproof"} => original' = original /\ baseline' = baseline
        /\ Complete(baseline) => Complete(baseline)'
        /\ Complete(original) => Complete(original)'
    BY DEF Complete
  <2>6. Kept(run[u])'
    BY <2>1, <2>5 DEF Sound, Kept
  <2> QED
    BY <2>3, <2>4, <2>6 DEF Sound
<1>8. WayBack'
  BY DEF WayBack
<1> QED
  BY <1>2, <1>3, <1>6, <1>7, <1>8

-----------------------------------------------------------------------------
(* The server and the editor.                                              *)

\* The job table changes only under a running server and without a transaction,
\* so not under a tool that relies on it.
LEMMA ServerFrame ==
    ASSUME IInv, UNCHANGED <<run, dblock, backups, present>>,
           server' \in {"off", "boot", "up"}, job' \in {"queued", "running", None},
           cfg' \in Configs, edits' \in 0 .. MaxEdits, cfg'.model = cfg.model,
           \/ cfg' = cfg /\ late' = late
           \/ late' = late \cup {t \in Tools : run[t].at = "commit"},
           job' = job \/ (server # "off" /\ dblock = None),
           lock' \in [Locks -> Tools \cup {Server, None}],
           \A l \in Locks, t \in Tools : lock'[l] = t <=> lock[l] = t,
           server' # "off" => lock'["server"] = Server
    PROVE  IInv'
<1> USE ToolsAssumption DEF IInv, backups
<1>1. ToolsOK'
  BY DEF ToolsOK
<1>2. \A t \in Tools : Held(t)' = Held(t)
  BY DEF Held
<1>3. Locked'
  BY <1>2 DEF Locked
<1>4. ASSUME NEW t \in Tools PROVE Sound(t, run[t])'
  <2>1. Sound(t, run[t]) /\ run'[t] = run[t] /\ original' = original /\ baseline' = baseline
    OBVIOUS
  <2>2. Path(run[t])' /\ Kept(run[t])'
    BY <2>1 DEF Sound, Path, Kept
  <2>3. run[t].cmd \in Maintenance /\ run[t].at \in Changing => server = "off"
    BY Holds DEF Changing, Early
  <2>4. Guarded(t, run[t])'
    BY <2>1, <2>3 DEF Sound, Guarded
  <2>5. run[t].at = "commit" => cfg' = run[t].raw \/ t \in late'
    BY <2>1 DEF Sound, Going
  <2>6. Going(t, run[t])'
    BY <2>1, <2>5 DEF Sound, Going
  <2> QED
    BY <2>2, <2>4, <2>6 DEF Sound
<1>5. WayBack'
  BY DEF WayBack
<1> QED
  BY <1>1, <1>3, <1>4, <1>5

LEMMA ServerKeeps ==
    ASSUME IInv, ServerNext \/ HandEdit
    PROVE  IInv'
<1> USE ToolsAssumption DEF backups, counts
<1>0. /\ ToolsOK /\ server \in {"off", "boot", "up"} /\ job \in {"queued", "running", None}
      /\ lock \in [Locks -> Tools \cup {Server, None}] /\ cfg \in Configs
      /\ edits \in 0 .. MaxEdits
      /\ server # "off" => lock["server"] = Server
  BY DEF IInv, ToolsOK, Locked
<1>1. CASE Launch
  <2>1. /\ lock' \in [Locks -> Tools \cup {Server, None}] /\ lock'["server"] = Server
        /\ \A l \in Locks, t \in Tools : lock'[l] = t <=> lock[l] = t
    BY <1>0, <1>1 DEF Launch, Locks
  <2> QED
    BY <1>0, <1>1, <2>1, ServerFrame DEF Launch
<1>2. CASE Listen
  BY <1>0, <1>2, ServerFrame DEF Listen
<1>3. CASE Submit \/ StartJob \/ FinishJob \/ CancelJob
  BY <1>0, <1>3, ServerFrame DEF Submit, Accept, StartJob, FinishJob, CancelJob, JobStep
<1>4. CASE ServerEnds
  <2>1. /\ lock' \in [Locks -> Tools \cup {Server, None}] /\ server' = "off"
        /\ \A l \in Locks, t \in Tools : lock'[l] = t <=> lock[l] = t
    BY <1>0, <1>4 DEF ServerEnds, Locks
  <2> QED
    BY <1>0, <1>4, <2>1, ServerFrame DEF ServerEnds
<1>5. CASE HandEdit
  <2>1. cfg' \in Configs /\ cfg'.model = cfg.model /\ edits' \in 0 .. MaxEdits
    BY <1>0, <1>5 DEF HandEdit, Configs
  <2> QED
    BY <1>0, <1>5, <2>1, ServerFrame DEF HandEdit
<1>6. CASE OrphanEnds
  BY <1>0, <1>6, ServerFrame DEF OrphanEnds
<1> QED
  BY <1>1, <1>2, <1>3, <1>4, <1>5, <1>6 DEF ServerNext

-----------------------------------------------------------------------------
(* The tools.                                                              *)

\* Going on changes the step and nothing else of an invocation.
LEMMA Stepped ==
    ASSUME ToolsOK, NEW t \in Tools, NEW step \in Steps, GoTo(t, step)
    PROVE  \E r \in Runs : /\ run' = [run EXCEPT ![t] = r] /\ r.at = step
                           /\ r.cmd = run[t].cmd /\ r.raw = run[t].raw /\ r.new = run[t].new
<1>1. [run[t] EXCEPT !.at = step] \in Runs
  BY DEF ToolsOK, Runs
<1>2. run' = [run EXCEPT ![t] = [run[t] EXCEPT !.at = step]]
  BY DEF GoTo
<1>3. LET r == [run[t] EXCEPT !.at = step] IN
        r.at = step /\ r.cmd = run[t].cmd /\ r.raw = run[t].raw /\ r.new = run[t].new
  BY DEF ToolsOK, Runs
<1> QED
  BY <1>1, <1>2, <1>3

\* A tool that has begun, and one that has taken its next lock or its last.
LEMMA EarlyKeeps ==
    ASSUME IInv, NEW t \in Tools, NEW r \in Runs,
           run' = [run EXCEPT ![t] = r], r.cmd \in Commands, r.at \in {"locks", "check"},
           UNCHANGED <<dblock, cfg, backups, present, server, job, late, edits>>,
           lock' \in [Locks -> Tools \cup {Server, None}],
           lock["server"] = Server => lock'["server"] = Server,
           \A u \in Tools \ {t} : Held(u)' = Held(u),
           r.at = "locks" => \E k \in 0 .. Len(Needs(r.cmd)) : Held(t)' = First(r.cmd, k),
           r.at = "check" => Held(t)' = All(r.cmd)
    PROVE  IInv'
<1> USE DEF IInv, backups
<1>1. run'[t] = r /\ \A u \in Tools \ {t} : run'[u] = run[u]
  BY DEF ToolsOK
<1>2. ToolsOK'
  BY DEF ToolsOK
<1>3. Locked'
  BY <1>1 DEF Locked, Early
<1>4. Sound(t, run[t])'
  BY <1>1 DEF Sound, Path, Guarded, Going, Kept, Changing
<1>5. ASSUME NEW u \in Tools \ {t} PROVE Sound(u, run[u])'
  BY <1>1 DEF Sound, Path, Guarded, Going, Kept
<1>6. WayBack'
  BY DEF WayBack
<1> QED
  BY <1>2, <1>3, <1>4, <1>5, <1>6

LEMMA BeginKeeps ==
    ASSUME IInv, NEW t \in Tools, NEW cmd \in Commands, Begin(t, cmd)
    PROVE  IInv'
<1> USE ToolsAssumption DEF IInv, backups
<1> DEFINE r == [Idle EXCEPT !.cmd = cmd, !.at = "locks",
                             !.raw = IF cmd \in Accuracy THEN cfg ELSE None]
<1>1. r \in Runs /\ r.cmd = cmd /\ r.at = "locks"
  BY DEF Idle, Runs, Steps, ToolsOK
<1>2. run' = [run EXCEPT ![t] = r] /\ UNCHANGED <<lock, dblock, cfg, backups, present, server,
                                                  job, late, edits>>
  BY DEF Begin
<1>3. run[t].at = "idle"
  BY DEF Begin, Idle
<1>4. \A u \in Tools : Held(u)' = Held(u)
  BY <1>2 DEF Held
<1>5. Held(t)' = {} /\ First(cmd, 0) = {} /\ 0 \in 0 .. Len(Needs(cmd))
  <2>1. Held(t)' = {} /\ First(cmd, 0) = {}
    BY <1>3, <1>4 DEF Locked, First
  <2>2. Len(Needs(cmd)) \in Nat
    BY DEF Needs, Commands, Maintenance, Accuracy
  <2> QED
    BY <2>1, <2>2
<1> HIDE DEF r, IInv
<1>6. lock' \in [Locks -> Tools \cup {Server, None}]
  BY <1>2 DEF ToolsOK, IInv
<1>7. \E k \in 0 .. Len(Needs(r.cmd)) : Held(t)' = First(r.cmd, k)
  BY <1>1, <1>5
<1> QED
  BY <1>1, <1>2, <1>4, <1>6, <1>7, EarlyKeeps

LEMMA AcquireKeeps ==
    ASSUME IInv, NEW t \in Tools, Acquire(t)
    PROVE  IInv'
<1> USE ToolsAssumption DEF backups, counts
<1> DEFINE cmd == run[t].cmd
           held == Cardinality(Held(t))
<1>1. /\ ToolsOK /\ Locked /\ cmd \in Commands
      /\ run[t].at = "locks" /\ t # Server /\ t # None /\ run[t] \in Runs
  BY DEF IInv, Sound, Path, Acquire, ToolsOK
<1>2. PICK k \in 0 .. Len(Needs(cmd)) : Held(t) = First(cmd, k)
  BY <1>1 DEF Locked
<1>3. held = k /\ Held(t) \subseteq Locks
  BY <1>1, <1>2, NextLock
<1>4. /\ Rest(t)
      /\ IF held = Len(Needs(cmd)) THEN GoTo(t, "check") /\ UNCHANGED <<lock, dblock, late>>
         ELSE IF lock[Needs(cmd)[held + 1]] = None
              THEN /\ lock' = [lock EXCEPT ![Needs(cmd)[held + 1]] = t]
                   /\ UNCHANGED <<run, dblock, late>>
              ELSE Ends(t)
  BY DEF Acquire, Held
<1>5. CASE held = Len(Needs(cmd))
  <2>1. GoTo(t, "check") /\ UNCHANGED <<lock, dblock, late>>
    BY <1>4, <1>5
  <2>2. PICK r \in Runs : /\ run' = [run EXCEPT ![t] = r] /\ r.at = "check" /\ r.cmd = cmd
    BY <1>1, <2>1, Stepped DEF Steps
  <2>3. \A u \in Tools : Held(u)' = Held(u)
    BY <2>1 DEF Held
  <2>4. Held(t)' = All(cmd)
    BY <1>2, <1>3, <1>5, <2>3 DEF All
  <2>5. lock' \in [Locks -> Tools \cup {Server, None}]
    BY <1>1, <2>1 DEF ToolsOK
  <2> QED
    BY <1>1, <1>4, <2>1, <2>2, <2>3, <2>4, <2>5, EarlyKeeps DEF Rest
<1>6. CASE held # Len(Needs(cmd)) /\ lock[Needs(cmd)[held + 1]] = None
  <2> DEFINE l == Needs(cmd)[k + 1]
  <2>1. lock' = [lock EXCEPT ![l] = t] /\ UNCHANGED <<run, dblock, late>>
    BY <1>3, <1>4, <1>6
  <2>2. l \in Locks /\ First(cmd, k + 1) = First(cmd, k) \cup {l} /\ k + 1 \in 0 .. Len(Needs(cmd))
    <3>1. k < Len(Needs(cmd)) /\ k \in Nat
      BY <1>3, <1>6
    <3> QED
      BY <1>1, <3>1, NextLock
  <2>3. lock[l] = None
    BY <1>3, <1>6
  <2> HIDE DEF l
  <2>4. Held(t)' = Held(t) \cup {l} /\ \A u \in Tools \ {t} : Held(u)' = Held(u)
    BY <1>1, <2>1, <2>2, <2>3 DEF Held, ToolsOK
  <2>5. lock' \in [Locks -> Tools \cup {Server, None}] /\ (lock["server"] = Server => lock'["server"] = Server)
    BY <1>1, <2>1, <2>2, <2>3 DEF ToolsOK, Locks
  <2>6. run' = [run EXCEPT ![t] = run[t]]
    BY <1>1, <2>1 DEF ToolsOK
  <2>7. \E n \in 0 .. Len(Needs(cmd)) : Held(t)' = First(cmd, n)
    BY <1>2, <2>2, <2>4
  <2> QED
    BY <1>1, <1>4, <2>1, <2>4, <2>5, <2>6, <2>7, EarlyKeeps DEF Rest
<1>7. CASE held # Len(Needs(cmd)) /\ lock[Needs(cmd)[held + 1]] # None
  BY <1>1, <1>4, <1>7, EndKeeps DEF Rest, ToolsOK
<1> QED
  BY <1>5, <1>6, <1>7

\* A tool that goes on without writing anything, with what it has found out.
LEMMA StepKeeps ==
    ASSUME IInv, NEW t \in Tools, NEW r \in Runs,
           run' = [run EXCEPT ![t] = r], r.cmd = run[t].cmd,
           run[t].at \notin Early, r.at \notin Early,
           UNCHANGED <<lock, late>>, Rest(t),
           dblock' = dblock \/ (dblock = None /\ dblock' = t),
           Path(r), Guarded(t, r)', Going(t, r), Kept(r)
    PROVE  IInv'
<1>1. UNCHANGED <<cfg, original, baseline, present, server, job, edits>>
  BY DEF Rest, backups, counts
<1>2. Going(t, r)' /\ Kept(r)' /\ Path(r)'
  BY <1>1 DEF Going, Kept, Path
<1>3. Sound(t, r)'
  BY <1>2 DEF Sound
<1>4. /\ original' \in [file : Configs \cup {None}, proof : Configs \cup {None}]
      /\ baseline' \in [file : Configs \cup {None}, proof : Configs \cup {None}]
      /\ baseline'.file # None => baseline'.file.model = "base"
      /\ cfg.model = "small" => baseline'.file.model = "base"
  BY <1>1 DEF IInv, ToolsOK, WayBack
<1> QED
  BY <1>1, <1>3, <1>4, MoveKeeps DEF backups

LEMMA OnlyIfKeeps ==
    ASSUME IInv, NEW t \in Tools, NEW condition, NEW step \in Steps \ Early,
           OnlyIf(t, condition, step), Rest(t), run[t].at \notin Early,
           condition => \A r \in Runs :
              /\ r.at = step
              /\ r.cmd = run[t].cmd /\ r.raw = run[t].raw /\ r.new = run[t].new
              => Path(r) /\ Guarded(t, r) /\ Going(t, r) /\ Kept(r)
    PROVE  IInv'
<1>1. CASE condition
  <2>1. GoTo(t, step) /\ UNCHANGED <<lock, dblock, late>>
    BY <1>1 DEF OnlyIf
  <2>2. PICK r \in Runs :
          /\ run' = [run EXCEPT ![t] = r] /\ r.at = step
          /\ r.cmd = run[t].cmd /\ r.raw = run[t].raw /\ r.new = run[t].new
    BY <2>1, Stepped DEF IInv
  <2>3. Path(r) /\ Guarded(t, r) /\ Going(t, r) /\ Kept(r)
    BY <1>1, <2>2
  <2>4. Guarded(t, r)'
    BY <2>1, <2>3 DEF Guarded, Rest
  <2> QED
    BY <2>1, <2>2, <2>3, <2>4, StepKeeps
<1>2. CASE ~condition
  <2>1. Ends(t) /\ UNCHANGED <<cfg, backups, server, job, edits>> /\ present' \subseteq Models
    BY <1>2 DEF OnlyIf, Rest, counts, IInv, ToolsOK
  <2> QED
    BY <2>1, EndKeeps
<1> QED
  BY <1>1, <1>2

\* Of the tools that work on the configuration, or record, one is past its locks.
LEMMA Alone ==
    ASSUME IInv, NEW t \in Tools, NEW u \in Tools \ {t},
           run[t].at \notin Early, run[t].cmd \in Maintenance \cup {"threads", "record"},
           run[u].at \notin Early
    PROVE  run[u].cmd \notin Maintenance \cup {"threads", "record"}
  BY Holds DEF IInv

\* The steps of maintenance() and its commands up to the write.
LEMMA MaintenanceKeeps ==
    ASSUME IInv, NEW t \in Tools,
           \/ CheckMaintenance(t) \/ Snapshot(t) \/ Proof(t) \/ Test(t)
           \/ Save(t) \/ OrigProof(t) \/ Recheck(t)
    PROVE  IInv'
<1> USE ToolsAssumption
<1>0. /\ ToolsOK /\ Locked /\ Sound(t, run[t]) /\ run[t] \in Runs /\ WayBack
      /\ baseline.file # None => baseline.file.model = "base"
      /\ None \notin Configs /\ cfg \in Configs
  BY DEF IInv, ToolsOK
<1>1. CASE CheckMaintenance(t)
  <2> DEFINE small == [run[t] EXCEPT !.raw = cfg, !.new = Candidate(run[t].cmd),
                            !.at = IF run[t].cmd = "switch small" THEN "snapshot" ELSE "test"]
  <2>1. At(t, Maintenance, "check") /\ Rest(t)
    BY <1>1 DEF CheckMaintenance
  <2>2. CASE Ends(t)
    BY <1>0, <2>1, <2>2, EndKeeps DEF Rest, counts, ToolsOK
  <2>3. CASE ~Ends(t)
    <3>1. /\ run' = [run EXCEPT ![t] = small] /\ UNCHANGED <<lock, dblock, late>>
          /\ ~PortOpen /\ ~Busy
          /\ run[t].cmd = "switch small" => cfg.model = "base"
          /\ run[t].cmd = "restore" => baseline.file # None
      BY <1>1, <2>3 DEF CheckMaintenance, Complete
    <3>2. /\ small.cmd = run[t].cmd /\ small.raw = cfg /\ small.new = Candidate(run[t].cmd)
          /\ small.at = IF run[t].cmd = "switch small" THEN "snapshot" ELSE "test"
      BY <1>0 DEF Runs
    <3>3. /\ Candidate(run[t].cmd) \in Configs \cup {None}
          /\ run[t].cmd \in Switches => /\ Candidate(run[t].cmd) \in Configs
                                        /\ Candidate(run[t].cmd).model = "small"
                                             => run[t].cmd = "switch small"
      BY <1>0, <3>1 DEF Candidate, Configs, Models, ToolsOK, Switches
    <3>4. small \in Runs
      BY <1>0, <3>3 DEF Runs, Steps
    <3> HIDE DEF small
    <3> PICK r \in Runs : r = small
      BY <3>4
    <3>5. Path(r) /\ Kept(r)
      BY <2>1, <3>2 DEF Path, Kept, At, Maintenance, Commands
    <3>6. Guarded(t, r)'
      BY <2>1, <3>1, <3>2 DEF Guarded, Busy, At, Maintenance, Rest
    <3>7. Going(t, r)
      BY <1>0, <2>1, <3>1, <3>2, <3>3 DEF Going, At, Maintenance, Writers, Switches
    <3>8. r.cmd = run[t].cmd /\ run[t].at \notin Early /\ r.at \notin Early
      BY <2>1, <3>2 DEF At, Early
    <3> QED
      BY <2>1, <3>1, <3>5, <3>6, <3>7, <3>8, StepKeeps
  <2> QED
    BY <2>2, <2>3
<1>2. CASE Snapshot(t)
  <2>1. /\ run[t].cmd = "switch small" /\ run[t].at = "snapshot" /\ run[t].cmd \in Maintenance
        /\ UNCHANGED <<cfg, original, present, server, job, edits>>
    BY <1>2 DEF Snapshot, At, counts, Maintenance
  <2>2. /\ run[t].raw \in Configs /\ run[t].raw.model = "base" /\ job = None
        /\ run[t].new # None
        /\ run[t].new.model = "small" => run[t].cmd = "switch small"
    BY <1>0, <2>1 DEF Sound, Going, Guarded, Changing, Writers, Switches, Runs
  <2>3. CASE baseline.file = None
    <3>1. /\ baseline' = [baseline EXCEPT !.file = run[t].raw]
          /\ GoTo(t, "proof") /\ UNCHANGED <<lock, dblock, late>>
      BY <1>2, <2>3 DEF Snapshot, SnapshotStep
    <3>2. PICK r \in Runs :
            /\ run' = [run EXCEPT ![t] = r] /\ r.at = "proof"
            /\ r.cmd = run[t].cmd /\ r.raw = run[t].raw /\ r.new = run[t].new
      BY <1>0, <3>1, Stepped DEF Steps
    <3>3. /\ baseline' \in [file : Configs \cup {None}, proof : Configs \cup {None}]
          /\ baseline'.file = run[t].raw /\ ~Complete(baseline) /\ cfg.model # "small"
      BY <1>0, <2>2, <2>3, <3>1 DEF ToolsOK, Complete, WayBack
    <3>4. Sound(t, r)'
      BY <1>0, <2>1, <2>2, <3>1, <3>2, <3>3
         DEF Sound, Path, Guarded, Going, Kept, Changing, Commands
    <3>5. \A u \in Tools \ {t} : run[u].at \notin {"proof", "origproof"}
      <4> SUFFICES ASSUME NEW u \in Tools \ {t}, run[u].at \in {"proof", "origproof"} PROVE FALSE
        OBVIOUS
      <4>1. run[u].cmd \in Maintenance
        BY DEF IInv, Sound, Path, Switches, Maintenance
      <4> QED
        BY <2>1, <4>1, Alone DEF Early
    <3> QED
      BY <1>0, <2>1, <2>2, <3>1, <3>2, <3>3, <3>4, <3>5, MoveKeeps DEF Early, ToolsOK
  <2>4. CASE baseline.file # None
    <3>1. OnlyIf(t, Complete(baseline), "test") /\ Rest(t)
      BY <1>2, <2>4 DEF Snapshot, SnapshotStep, Rest, backups
    <3>2. ASSUME Complete(baseline), NEW r \in Runs, r.at = "test",
                 r.cmd = run[t].cmd /\ r.raw = run[t].raw /\ r.new = run[t].new
          PROVE  Path(r) /\ Guarded(t, r) /\ Going(t, r) /\ Kept(r)
      BY <1>0, <2>1, <2>2, <3>2 DEF Path, Guarded, Going, Kept, Commands
    <3>3. run[t].at \notin Early /\ "test" \in Steps \ Early
      BY <2>1 DEF Steps, Early
    <3> QED
      BY <3>1, <3>2, <3>3, OnlyIfKeeps
  <2> QED
    BY <2>3, <2>4
<1>3. CASE Proof(t)
  <2>1. /\ run[t].cmd = "switch small" /\ run[t].at = "proof" /\ run[t].cmd \in Maintenance
        /\ baseline' = [baseline EXCEPT !.proof = run[t].raw] /\ GoTo(t, "test")
        /\ UNCHANGED <<lock, dblock, late, cfg, original, present, server, job, edits>>
    BY <1>3 DEF Proof, At, counts, Maintenance
  <2>2. PICK r \in Runs :
          /\ run' = [run EXCEPT ![t] = r] /\ r.at = "test"
          /\ r.cmd = run[t].cmd /\ r.raw = run[t].raw /\ r.new = run[t].new
    BY <1>0, <2>1, Stepped DEF Steps
  <2>3. /\ run[t].raw \in Configs /\ baseline.file = run[t].raw /\ job = None
        /\ run[t].raw.model = "base" /\ run[t].new # None
    BY <1>0, <2>1 DEF Sound, Going, Guarded, Kept, Changing, Writers, Switches, Runs
  <2>4. /\ baseline' \in [file : Configs \cup {None}, proof : Configs \cup {None}]
        /\ baseline'.file = run[t].raw /\ baseline'.proof = run[t].raw
    BY <1>0, <2>1, <2>3 DEF ToolsOK
  <2>5. Complete(baseline')
    BY <1>0, <2>3, <2>4 DEF Complete
  <2>6. Sound(t, r)'
    BY <1>0, <2>1, <2>2, <2>3, <2>5 DEF Sound, Path, Guarded, Going, Kept, Commands
  <2>7. \A u \in Tools \ {t} : run[u].at \notin {"proof", "origproof"}
    <3> SUFFICES ASSUME NEW u \in Tools \ {t}, run[u].at \in {"proof", "origproof"} PROVE FALSE
      OBVIOUS
    <3>1. run[u].cmd \in Maintenance
      BY DEF IInv, Sound, Path, Switches, Maintenance
    <3> QED
      BY <2>1, <3>1, Alone DEF Early
  <2> QED
    BY <1>0, <2>1, <2>2, <2>3, <2>4, <2>5, <2>6, <2>7, MoveKeeps DEF Early, ToolsOK
<1>4. CASE Test(t)
  <2>1. run[t].cmd \in Maintenance /\ run[t].at = "test" /\ Rest(t)
    BY <1>4 DEF Test, At
  <2> DEFINE step == IF run[t].cmd = "compare" THEN "final" ELSE "save"
  <2>2. PICK condition : OnlyIf(t, condition, step)
    BY <1>4 DEF Test
  <2>3. ASSUME NEW r \in Runs, r.at = step,
               r.cmd = run[t].cmd /\ r.raw = run[t].raw /\ r.new = run[t].new
        PROVE  Path(r) /\ Guarded(t, r) /\ Going(t, r) /\ Kept(r)
    BY <1>0, <2>1, <2>3 DEF Sound, Path, Guarded, Going, Kept, Commands, Maintenance, Switches,
       Writers, Changing
  <2>4. step \in Steps \ Early
    BY DEF Steps, Early
  <2> HIDE DEF step
  <2> QED
    BY <2>1, <2>2, <2>3, <2>4, OnlyIfKeeps DEF Early
<1>5. CASE Save(t)
  <2>1. /\ run[t].cmd \in Maintenance /\ run[t].at = "save" /\ run[t].cmd \in Switches
        /\ UNCHANGED <<cfg, baseline, present, server, job, edits>>
    BY <1>0, <1>5 DEF Save, At, counts, Sound, Path
  <2>2. /\ run[t].raw \in Configs /\ job = None /\ run[t].new # None
        /\ run[t].cmd = "switch small" => Complete(baseline) /\ run[t].raw.model = "base"
        /\ run[t].new.model = "small" => run[t].cmd = "switch small"
    BY <1>0, <2>1 DEF Sound, Going, Guarded, Kept, Changing, Writers, Runs
  <2>3. CASE cfg = run[t].raw /\ original = NoBackup
    <3>1. /\ original' = [original EXCEPT !.file = run[t].raw]
          /\ GoTo(t, "origproof") /\ UNCHANGED <<lock, dblock, late>>
      BY <1>5, <2>3 DEF Save
    <3>2. PICK r \in Runs :
            /\ run' = [run EXCEPT ![t] = r] /\ r.at = "origproof"
            /\ r.cmd = run[t].cmd /\ r.raw = run[t].raw /\ r.new = run[t].new
      BY <1>0, <3>1, Stepped DEF Steps
    <3>3. /\ original' \in [file : Configs \cup {None}, proof : Configs \cup {None}]
          /\ original'.file = run[t].raw /\ ~Complete(original) /\ cfg.model # "small"
      BY <1>0, <2>2, <2>3, <3>1 DEF ToolsOK, Complete, WayBack, NoBackup
    <3>4. Sound(t, r)'
      BY <1>0, <2>1, <2>2, <3>1, <3>2, <3>3
         DEF Sound, Path, Guarded, Going, Kept, Changing, Commands, Switches, Maintenance
    <3>5. \A u \in Tools \ {t} : run[u].at \notin {"proof", "origproof"}
      <4> SUFFICES ASSUME NEW u \in Tools \ {t}, run[u].at \in {"proof", "origproof"} PROVE FALSE
        OBVIOUS
      <4>1. run[u].cmd \in Maintenance
        BY DEF IInv, Sound, Path, Switches, Maintenance
      <4> QED
        BY <2>1, <4>1, Alone DEF Early
    <3> QED
      BY <1>0, <2>1, <2>2, <3>1, <3>2, <3>3, <3>4, <3>5, MoveKeeps DEF Early, ToolsOK
  <2>4. CASE ~(cfg = run[t].raw /\ original = NoBackup)
    <3>1. OnlyIf(t, cfg = run[t].raw /\ Complete(original), "recheck") /\ Rest(t)
      BY <1>5, <2>4 DEF Save, Rest, backups
    <3>2. ASSUME Complete(original), NEW r \in Runs, r.at = "recheck",
                 r.cmd = run[t].cmd /\ r.raw = run[t].raw /\ r.new = run[t].new
          PROVE  Path(r) /\ Guarded(t, r) /\ Going(t, r) /\ Kept(r)
      BY <1>0, <2>1, <2>2, <3>2 DEF Path, Guarded, Going, Kept, Commands, Switches
    <3> QED
      BY <2>1, <3>1, <3>2, OnlyIfKeeps DEF Steps, Early
  <2> QED
    BY <2>3, <2>4
<1>6. CASE OrigProof(t)
  <2>1. /\ run[t].at = "origproof" /\ run[t].cmd \in Maintenance /\ run[t].cmd \in Switches
        /\ original' = [original EXCEPT !.proof = run[t].raw] /\ GoTo(t, "recheck")
        /\ UNCHANGED <<lock, dblock, late, cfg, baseline, present, server, job, edits>>
    BY <1>0, <1>6 DEF OrigProof, At, counts, Sound, Path
  <2>2. PICK r \in Runs :
          /\ run' = [run EXCEPT ![t] = r] /\ r.at = "recheck"
          /\ r.cmd = run[t].cmd /\ r.raw = run[t].raw /\ r.new = run[t].new
    BY <1>0, <2>1, Stepped DEF Steps
  <2>3. /\ run[t].raw \in Configs /\ original.file = run[t].raw /\ job = None /\ run[t].new # None
        /\ run[t].cmd = "switch small" => Complete(baseline) /\ run[t].raw.model = "base"
    BY <1>0, <2>1 DEF Sound, Going, Guarded, Kept, Changing, Writers, Runs
  <2>4. /\ original' \in [file : Configs \cup {None}, proof : Configs \cup {None}]
        /\ original'.file = run[t].raw /\ original'.proof = run[t].raw
    BY <1>0, <2>1, <2>3 DEF ToolsOK
  <2>5. Complete(original')
    BY <1>0, <2>3, <2>4 DEF Complete
  <2>6. Sound(t, r)'
    BY <1>0, <2>1, <2>2, <2>3, <2>5
       DEF Sound, Path, Guarded, Going, Kept, Changing, Commands, Switches, Writers
  <2>7. \A u \in Tools \ {t} : run[u].at \notin {"proof", "origproof"}
    <3> SUFFICES ASSUME NEW u \in Tools \ {t}, run[u].at \in {"proof", "origproof"} PROVE FALSE
      OBVIOUS
    <3>1. run[u].cmd \in Maintenance
      BY DEF IInv, Sound, Path, Switches, Maintenance
    <3> QED
      BY <2>1, <3>1, Alone DEF Early
  <2> QED
    BY <1>0, <2>1, <2>2, <2>3, <2>4, <2>5, <2>6, <2>7, MoveKeeps DEF Early, ToolsOK, WayBack
<1>7. CASE Recheck(t)
  <2>1. run[t].cmd \in Switches /\ run[t].at = "recheck" /\ Rest(t)
    BY <1>0, <1>7 DEF Recheck, At, Sound, Path
  <2>2. OnlyIf(t, cfg = run[t].raw, "commit")
    BY <1>7 DEF Recheck
  <2>3. ASSUME cfg = run[t].raw, NEW r \in Runs, r.at = "commit",
               r.cmd = run[t].cmd /\ r.raw = run[t].raw /\ r.new = run[t].new
        PROVE  Path(r) /\ Guarded(t, r) /\ Going(t, r) /\ Kept(r)
    BY <1>0, <2>1, <2>3 DEF Sound, Path, Guarded, Going, Kept, Commands, Maintenance, Switches,
       Writers, Changing
  <2> QED
    BY <2>1, <2>2, <2>3, OnlyIfKeeps DEF Steps, Early
<1> QED
  BY <1>1, <1>2, <1>3, <1>4, <1>5, <1>6, <1>7

\* The laboratory's tools, the accuracy tests, the downloads, and every end.
LEMMA OthersKeep ==
    ASSUME IInv, NEW t \in Tools,
           \/ Killed(t) \/ Prepare(t) \/ Install(t) \/ Commit(t) \/ EndCompare(t)
           \/ CheckThreads(t) \/ BeginImmediate(t)
           \/ CheckRecord(t) \/ Replay(t) \/ EndRecord(t)
           \/ CheckAccuracy(t) \/ EndSelftest(t) \/ EndAccuracy(t)
    PROVE  IInv'
<1> USE ToolsAssumption
<1>0. /\ ToolsOK /\ Locked /\ Sound(t, run[t]) /\ run[t] \in Runs /\ WayBack
      /\ None \notin Configs /\ cfg \in Configs
  BY DEF IInv, ToolsOK
<1>1. CASE Ends(t) /\ Rest(t)
  BY <1>0, <1>1, EndKeeps DEF Rest, counts, ToolsOK
<1>2. CASE Install(t)
  <2>1. Ends(t) /\ UNCHANGED <<cfg, backups, server, job, edits>>
    BY <1>2 DEF Install, counts
  <2>2. present' \subseteq Models
    <3>1. run[t].what \in Models /\ present \subseteq Models
      BY <1>0, <1>2 DEF Install, ToolsOK, Sound, Path, At
    <3> QED
      BY <1>2, <3>1 DEF Install
  <2> QED
    BY <2>1, <2>2, EndKeeps
<1>3. CASE Prepare(t)
  <2>1. CASE Ends(t)
    BY <1>1, <1>3, <2>1 DEF Prepare
  <2>2. CASE ~Ends(t)
    <3>1. PICK m \in Models : /\ run' = [run EXCEPT ![t].at = "download", ![t].what = m]
                              /\ UNCHANGED <<lock, dblock, late>>
      BY <1>3, <2>2 DEF Prepare
    <3> DEFINE fetch == [run[t] EXCEPT !.at = "download", !.what = m]
    <3>2. fetch \in Runs /\ fetch.at = "download" /\ fetch.cmd = run[t].cmd /\ fetch.what = m
      BY <1>0 DEF Runs, Steps
    <3>3. run' = [run EXCEPT ![t] = fetch]
      BY <1>0, <3>1 DEF ToolsOK
    <3> HIDE DEF fetch
    <3> PICK r \in Runs : r = fetch
      BY <3>2
    <3>4. run[t].cmd = "prepare" /\ run[t].at = "check" /\ Rest(t)
      BY <1>3 DEF Prepare, At
    <3>5. Path(r) /\ Guarded(t, r)' /\ Going(t, r) /\ Kept(r)
      BY <3>2, <3>4 DEF Path, Guarded, Going, Kept, Changing, Commands, Maintenance
    <3> QED
      BY <3>1, <3>2, <3>3, <3>4, <3>5, StepKeeps DEF Early
  <2> QED
    BY <2>1, <2>2
<1>4. CASE EndCompare(t) \/ EndRecord(t) \/ EndSelftest(t) \/ EndAccuracy(t)
  BY <1>1, <1>4 DEF EndCompare, EndRecord, EndSelftest, EndAccuracy
<1>11. CASE Killed(t)
  BY <1>0, <1>11, EndKeeps DEF Killed, counts, ToolsOK
<1>5. CASE CheckThreads(t)
  <2>1. CASE Ends(t)
    BY <1>1, <1>5, <2>1 DEF CheckThreads
  <2>2. CASE ~Ends(t)
    <3>1. PICK n \in Threads :
            /\ run' = [run EXCEPT ![t].at = "begin", ![t].raw = cfg,
                                  ![t].new = [cfg EXCEPT !.threads = n]]
            /\ UNCHANGED <<lock, dblock, late>> /\ cfg.model = "base"
      BY <1>5, <2>2 DEF CheckThreads
    <3>2. [cfg EXCEPT !.threads = n] \in Configs /\ [cfg EXCEPT !.threads = n].model = "base"
      BY <1>0, <3>1 DEF Configs
    <3> DEFINE next == [run[t] EXCEPT !.at = "begin", !.raw = cfg,
                                      !.new = [cfg EXCEPT !.threads = n]]
    <3>3. /\ next \in Runs /\ next.at = "begin" /\ next.cmd = run[t].cmd /\ next.raw = cfg
          /\ next.new \in Configs /\ next.new.model = "base"
      BY <1>0, <3>2 DEF Runs, Steps
    <3>4. run' = [run EXCEPT ![t] = next]
      BY <1>0, <3>1 DEF ToolsOK
    <3> HIDE DEF next
    <3> PICK r \in Runs : r = next
      BY <3>3
    <3>5. run[t].cmd = "threads" /\ run[t].at = "check" /\ Rest(t)
      BY <1>5 DEF CheckThreads, At
    <3>6. Path(r) /\ Guarded(t, r)' /\ Going(t, r) /\ Kept(r)
      BY <1>0, <3>3, <3>5 DEF Path, Guarded, Going, Kept, Changing, Commands, Maintenance
    <3> QED
      BY <3>1, <3>3, <3>4, <3>5, <3>6, StepKeeps DEF Early
  <2> QED
    BY <2>1, <2>2
<1>6. CASE BeginImmediate(t)
  <2>1. CASE Ends(t)
    BY <1>1, <1>6, <2>1 DEF BeginImmediate
  <2>2. CASE ~Ends(t)
    <3>1. /\ run[t].cmd = "threads" /\ run[t].at = "begin" /\ Rest(t)
          /\ dblock = None /\ dblock' = t /\ job = None /\ cfg = run[t].raw
          /\ GoTo(t, "commit") /\ UNCHANGED <<lock, late>>
      BY <1>6, <2>2 DEF BeginImmediate, At, Busy
    <3>2. PICK r \in Runs :
            /\ run' = [run EXCEPT ![t] = r] /\ r.at = "commit"
            /\ r.cmd = run[t].cmd /\ r.raw = run[t].raw /\ r.new = run[t].new
      BY <1>0, <3>1, Stepped DEF Steps
    <3>3. job' = None
      BY <3>1 DEF Rest
    <3>4. Path(r) /\ Guarded(t, r)' /\ Going(t, r) /\ Kept(r)
      BY <1>0, <3>1, <3>2, <3>3
         DEF Sound, Path, Guarded, Going, Kept, Commands, Maintenance, Writers
    <3> QED
      BY <3>1, <3>2, <3>4, StepKeeps DEF Early
  <2> QED
    BY <2>1, <2>2
<1>7. CASE CheckRecord(t)
  <2>1. CASE Ends(t)
    BY <1>1, <1>7, <2>1 DEF CheckRecord
  <2>2. CASE ~Ends(t)
    <3>1. /\ run[t].cmd = "record" /\ run[t].at = "check" /\ Rest(t)
          /\ run' = [run EXCEPT ![t].raw = cfg, ![t].at = "sample"]
          /\ UNCHANGED <<lock, dblock, late>>
      BY <1>7, <2>2 DEF CheckRecord, At
    <3> DEFINE next == [run[t] EXCEPT !.raw = cfg, !.at = "sample"]
    <3>2. next \in Runs /\ next.at = "sample" /\ next.cmd = run[t].cmd
      BY <1>0 DEF Runs, Steps
    <3>3. run' = [run EXCEPT ![t] = next]
      BY <1>0, <3>1 DEF ToolsOK
    <3> HIDE DEF next
    <3> PICK r \in Runs : r = next
      BY <3>2
    <3>4. Path(r) /\ Guarded(t, r)' /\ Going(t, r) /\ Kept(r)
      BY <3>1, <3>2 DEF Path, Guarded, Going, Kept, Changing, Commands, Maintenance
    <3> QED
      BY <3>1, <3>2, <3>3, <3>4, StepKeeps DEF Early
  <2> QED
    BY <2>1, <2>2
<1>8. CASE CheckAccuracy(t)
  <2>1. /\ run[t].cmd \in Accuracy /\ run[t].at = "check" /\ Rest(t)
        /\ OnlyIf(t, run[t].cmd = "stt compare" => ~Busy, "test")
    BY <1>8 DEF CheckAccuracy, At
  <2>2. ASSUME NEW r \in Runs, r.at = "test",
               r.cmd = run[t].cmd /\ r.raw = run[t].raw /\ r.new = run[t].new
        PROVE  Path(r) /\ Guarded(t, r) /\ Going(t, r) /\ Kept(r)
    BY <2>1, <2>2 DEF Path, Guarded, Going, Kept, Commands, Accuracy, Maintenance, Writers,
       Switches
  <2> QED
    BY <2>1, <2>2, OnlyIfKeeps DEF Steps, Early
<1>9. CASE Replay(t)
  <2>1. CASE Ends(t) /\ Rest(t)
    BY <1>1, <2>1
  <2>2. CASE Accept /\ run' = [run EXCEPT ![t].what = "sent"]
    <3>1. /\ run[t].at = "sample" /\ server = "up" /\ dblock = None /\ job' = "queued"
          /\ UNCHANGED <<lock, dblock, cfg, backups, present, server, late, edits>>
      BY <1>9, <2>2 DEF Replay, Accept, JobStep, At
    <3> DEFINE sent == [run[t] EXCEPT !.what = "sent"]
    <3>2. /\ sent \in Runs /\ sent.at = "sample" /\ sent.cmd = run[t].cmd
          /\ run' = [run EXCEPT ![t] = sent]
      BY <1>0, <2>2, <3>1 DEF Runs, ToolsOK
    <3> HIDE DEF sent
    <3>3. run'[t] = sent /\ \A u \in Tools \ {t} : run'[u] = run[u]
      BY <1>0, <3>2 DEF ToolsOK
    <3>4. ToolsOK'
      BY <1>0, <3>1, <3>2 DEF ToolsOK, backups
    <3>5. \A u \in Tools : Held(u)' = Held(u)
      BY <3>1 DEF Held
    <3>6. Locked'
      BY <1>0, <3>1, <3>2, <3>3, <3>5 DEF Locked, Early
    <3>7. Sound(t, run[t])'
      BY <1>0, <3>1, <3>2, <3>3 DEF Sound, Path, Guarded, Going, Kept, Changing
    <3>8. ASSUME NEW u \in Tools \ {t} PROVE Sound(u, run[u])'
      <4>1. Sound(u, run[u]) /\ run'[u] = run[u]
        BY <3>3 DEF IInv
      <4>2. ~(run[u].cmd \in Maintenance /\ run[u].at \in Changing)
        BY <1>0, <3>1, Holds DEF Changing, Early
      <4>3. Guarded(u, run[u])'
        BY <3>1, <4>1, <4>2 DEF Sound, Guarded
      <4>4. Path(run[u])' /\ Going(u, run[u])'
        BY <3>1, <4>1 DEF Sound, Path, Going
      <4>5. original' = original /\ baseline' = baseline
        BY <3>1 DEF backups
      <4>6. Kept(run[u])'
        BY <4>1, <4>5 DEF Sound, Kept
      <4> QED
        BY <4>3, <4>4, <4>6 DEF Sound
    <3>9. WayBack' /\ (baseline'.file # None => baseline'.file.model = "base")
      BY <3>1 DEF IInv, WayBack, backups
    <3> QED
      BY <3>4, <3>6, <3>7, <3>8, <3>9 DEF IInv
  <2> QED
    BY <1>9, <2>1, <2>2 DEF Replay
<1>10. CASE Commit(t)
  <2>1. /\ run[t].at = "commit" /\ cfg' = run[t].new /\ Ends(t)
        /\ UNCHANGED <<original, baseline, present, server, job, edits>>
    BY <1>10 DEF Commit, Written, backups, counts
  <2>2. /\ run[t].cmd \in Writers /\ run[t].new \in Configs
        /\ run[t].new.model = "small" => run[t].cmd = "switch small"
    BY <1>0, <2>1 DEF Sound, Path, Going, Changing, Runs
  <2>3. WayBack'
    BY <1>0, <2>1, <2>2 DEF IInv, Sound, Kept, WayBack, Complete, Maintenance
  <2>4. ASSUME NEW u \in Tools \ {t} PROVE run[u].at # "commit"
    <3>1. run[u].at = "commit" => run[u].cmd \in Writers
      BY DEF IInv, Sound, Path
    <3> QED
      BY <2>1, <2>2, <3>1, Alone DEF Early, Writers, Switches, Maintenance
  <2>5. present' \subseteq Models
    BY <1>0, <2>1 DEF ToolsOK
  <2> QED
    BY <2>1, <2>2, <2>3, <2>4, <2>5, EndWrites DEF backups
<1> QED
  BY <1>1, <1>2, <1>3, <1>4, <1>5, <1>6, <1>7, <1>8, <1>9, <1>10, <1>11

LEMMA NextIInv == IInv /\ [Next]_vars => IInv'
<1> SUFFICES ASSUME IInv, [Next]_vars PROVE IInv'
  OBVIOUS
<1>1. CASE ServerNext \/ HandEdit
  BY <1>1, ServerKeeps
<1>2. ASSUME NEW t \in Tools, ToolNext(t) PROVE IInv'
  <2>1. CASE \E cmd \in Commands : Begin(t, cmd)
    BY <2>1, BeginKeeps
  <2>2. CASE Acquire(t)
    BY <2>2, AcquireKeeps
  <2>3. CASE \/ CheckMaintenance(t) \/ Snapshot(t) \/ Proof(t) \/ Test(t)
             \/ Save(t) \/ OrigProof(t) \/ Recheck(t)
    BY <2>3, MaintenanceKeeps
  <2>4. CASE \/ Killed(t) \/ Prepare(t) \/ Install(t) \/ Commit(t) \/ EndCompare(t)
             \/ CheckThreads(t) \/ BeginImmediate(t)
             \/ CheckRecord(t) \/ Replay(t) \/ EndRecord(t)
             \/ CheckAccuracy(t) \/ EndSelftest(t) \/ EndAccuracy(t)
    BY <2>4, OthersKeep
  <2> QED
    BY <1>2, <2>1, <2>2, <2>3, <2>4 DEF ToolNext
<1>3. CASE UNCHANGED vars
  <2>0. UNCHANGED <<run, lock, dblock, cfg, backups, present, server, job, late, edits>>
    BY <1>3 DEF vars, counts, backups
  <2>1. /\ server \in {"off", "boot", "up"} /\ job \in {"queued", "running", None}
        /\ lock \in [Locks -> Tools \cup {Server, None}] /\ cfg \in Configs
        /\ edits \in 0 .. MaxEdits
    BY DEF IInv, ToolsOK
  <2>2. server # "off" => lock["server"] = Server
    BY DEF IInv, Locked
  <2>3. /\ UNCHANGED <<run, dblock, backups, present>>
        /\ server' \in {"off", "boot", "up"} /\ job' \in {"queued", "running", None}
        /\ cfg' \in Configs /\ edits' \in 0 .. MaxEdits /\ cfg'.model = cfg.model
        /\ cfg' = cfg /\ late' = late /\ job' = job
    BY <2>0, <2>1
  <2>4. /\ lock' \in [Locks -> Tools \cup {Server, None}]
        /\ \A l \in Locks, t \in Tools : lock'[l] = t <=> lock[l] = t
        /\ server' # "off" => lock'["server"] = Server
    BY <2>0, <2>1, <2>2
  <2> QED
    BY <2>3, <2>4, ServerFrame
<1> QED
  BY <1>1, <1>2, <1>3 DEF Next

-----------------------------------------------------------------------------
(* The results.                                                            *)

\* Only a process that dies leaves an engine: whose engines are left is typed
\* whatever the locks are.
LEMMA OrphansTyped ==
    ASSUME orphans \subseteq Tools \cup {Server}, [Next]_vars
    PROVE  orphans' \subseteq Tools \cup {Server}
<1>1. CASE ServerNext \/ HandEdit
  BY <1>1 DEF ServerNext, Launch, Listen, ServerEnds, OrphanEnds, Submit, Accept, StartJob,
     FinishJob, CancelJob, JobStep, HandEdit
<1>2. ASSUME NEW t \in Tools, ToolNext(t) PROVE orphans' \subseteq Tools \cup {Server}
  <2>1. CASE Killed(t)
    BY <2>1 DEF Killed
  <2>2. CASE \/ \E cmd \in Commands : Begin(t, cmd)
             \/ Acquire(t) \/ Prepare(t) \/ Install(t) \/ CheckMaintenance(t)
             \/ Snapshot(t) \/ Proof(t) \/ Test(t) \/ Save(t) \/ OrigProof(t)
             \/ Recheck(t) \/ Commit(t) \/ EndCompare(t)
    BY <2>2 DEF Begin, Acquire, Prepare, Install, CheckMaintenance, Snapshot, Proof, Test, Save,
       OrigProof, Recheck, Commit, EndCompare, Rest
  <2>3. CASE \/ CheckThreads(t) \/ BeginImmediate(t) \/ CheckRecord(t) \/ Replay(t)
             \/ EndRecord(t) \/ CheckAccuracy(t) \/ EndSelftest(t) \/ EndAccuracy(t)
    BY <2>3 DEF CheckThreads, BeginImmediate, CheckRecord, Replay, Accept, JobStep, EndRecord,
       CheckAccuracy, EndSelftest, EndAccuracy, Rest
  <2> QED
    BY <1>2, <2>1, <2>2, <2>3 DEF ToolNext
<1>3. CASE UNCHANGED vars
  BY <1>3 DEF vars
<1> QED
  BY <1>1, <1>2, <1>3 DEF Next

\* One living process at a time runs the speech engine: the tests of the tools and
\* the jobs of the server exclude each other (maintenance(), server_guard()),
\* whatever engines killed processes have left.
THEOREM Exclusive == Spec => []OneEngine
<1> DEFINE Left == orphans \subseteq Tools \cup {Server}
<1>1. IInv /\ Left => OneEngine
  <2> SUFFICES ASSUME IInv, Left PROVE OneEngine
    OBVIOUS
  <2> DEFINE serving == IF server = "up" /\ job = "running" THEN 1 ELSE 0
  <2>1. ASSUME NEW t \in Testing PROVE lock["server"] = t /\ server = "off"
    <3>1. t \in Tools /\ run[t].at = "test" /\ run[t].cmd \in Maintenance \cup Accuracy
      BY DEF Testing, IInv, Sound, Path
    <3> QED
      BY <3>1, Holds DEF IInv, Early
  <2>2. CASE Testing = {}
    <3>1. Cardinality(Testing) = 0
      BY <2>2, FS_EmptySet
    <3> QED
      BY <3>1 DEF OneEngine, IInv, TypeOK
  <2>3. CASE Testing # {}
    <3>1. PICK t \in Testing : TRUE
      BY <2>3
    <3>2. Testing = {t}
      BY <2>1, <3>1
    <3>3. Cardinality(Testing) = 1 /\ serving = 0
      BY <2>1, <3>1, <3>2, FS_Singleton
    <3> QED
      BY <3>3 DEF OneEngine, IInv, TypeOK
  <2> QED
    BY <2>2, <2>3
<1>2. Init => Left
  BY DEF Init
<1>3. Left /\ [Next]_vars => Left'
  BY OrphansTyped
<1> QED
  BY <1>1, <1>2, <1>3, InitIInv, NextIInv, PTL DEF Spec

\* While small is in use there is a complete way back (save_config(), the
\* snapshot of the base configuration).
THEOREM Reversible == Spec => []WayBack
<1>1. IInv => WayBack
  BY DEF IInv
<1> QED
  BY <1>1, InitIInv, NextIInv, PTL DEF Spec

\* No recording waits or runs, and none is being measured, when the configuration
\* changes (ensure_idle(), the laboratory's BEGIN IMMEDIATE).
LEMMA Quiet ==
    ASSUME IInv, NEW t \in Tools, Commit(t)
    PROVE  WhenIdle(t)
<1>1. run[t].at = "commit" /\ run[t].cmd \in Writers /\ Sound(t, run[t])
  BY DEF Commit, IInv, Sound, Path
<1>2. job = None
  BY <1>1 DEF Sound, Guarded, Writers, Switches, Maintenance, Changing
<1>3. run[t].cmd # "threads" => server = "off"
  BY <1>1, Holds DEF IInv, Writers, Switches, Maintenance, Early
<1>4. ASSUME NEW u \in Tools, run[u].at = "sample" PROVE FALSE
  <2>1. run[u].cmd = "record"
    BY <1>4 DEF IInv, Sound, Path
  <2> QED
    BY <1>1, <1>4, <2>1, Alone DEF Early, Writers, Switches, Maintenance
<1> QED
  BY <1>2, <1>3, <1>4 DEF WhenIdle

\* No tool writes over what it has not read (save_config(), set_threads()), and
\* none writes while the engine is needed.
THEOREM Careful == Spec => ChangedWithCare
<1>1. ASSUME IInv, NEW t \in Tools, Commit(t) PROVE AsItRead(t)
  BY <1>1 DEF IInv, Sound, Going, Commit, AsItRead
<1>2. IInv => \A t \in Tools : Commit(t) => WhenIdle(t) /\ AsItRead(t)
  BY <1>1, Quiet
<1> QED
  BY <1>2, InitIInv, NextIInv, PTL DEF Spec, ChangedWithCare
=============================================================================
