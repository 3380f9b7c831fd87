---------------------------- MODULE QwenRuntime ----------------------------
(***************************************************************************)
(* The local language model of a V35 (deploy/termux/qwen-runtime): setup   *)
(* builds the engine, downloads the model and certifies both by a smoke    *)
(* test; a runit service runs supervise.py, which runs runtime.py serve    *)
(* inside PRoot, which runs the engine in a session of its own.            *)
(***************************************************************************)
EXTENDS Integers, FiniteSets

CONSTANTS MaxBuilds,   \* bound: engine binaries built
          Absent

ASSUME BuildsAssumption == MaxBuilds \in Nat \ {0}
ASSUME AbsentAssumption == Absent \notin 1 .. MaxBuilds

VARIABLES
    setup,      \* [Shells -> step]: inside-setup.sh, and a command typed beside it
    model,      \* "absent" or "verified"
    binary,     \* the engine binary on disk, by number; 0 when there is none
    receipt,    \* the binary build-receipt.json names
    ready,      \* the binary ready.json certifies, or Absent
    answered,   \* history: binaries that answered a test as they should
    replaced,   \* history: binaries built while a test or a start was under way
    verdict,    \* history: how the latest smoke test went
    switch,     \* what runit was asked for
    outer,      \* supervise.py
    inner,      \* runtime.py serve
    asked,      \* stop.request has changed since the inner process read it
    engine,     \* the production engine: "off", "on", or "term" once told to end
    engineBin,  \* the binary it was started from
    stray,      \* history: the engine is one whose runner failed, or was killed from
                \* outside, before it could end it
    builds

install    == <<setup, model, binary, receipt, ready, answered, replaced, verdict>>
production == <<switch, outer, inner, asked, engine, engineBin, stray>>
runtime    == <<install, production, builds>>

Shells == {"setup", "hand"}

RuntimeInit ==
    /\ setup = [s \in Shells |-> "idle"]
    /\ model = "absent" /\ binary = 0 /\ receipt = 0 /\ ready = Absent
    /\ answered = {} /\ replaced = {} /\ verdict = Absent
    /\ switch = "down" /\ outer = "off" /\ inner = "off" /\ asked = FALSE
    /\ engine = "off" /\ engineBin = 0 /\ stray = FALSE
    /\ builds = 0

-----------------------------------------------------------------------------
(* inside-setup.sh, and runtime.py download and smoke by hand.             *)

Testing    == {"clear", "ask", "certify"}
SetupLock  == \E s \in Shells : setup[s] \in Testing \cup {"download"}
InstallRest == UNCHANGED production
Step(s, step) == setup' = [setup EXCEPT ![s] = step]

\* preflight.py wants the port free; installation.lock lets one setup in.
BeginSetup ==
    /\ setup["setup"] = "idle" /\ engine = "off"
    /\ builds < MaxBuilds /\ builds' = builds + 1
    /\ Step("setup", "build")
    /\ UNCHANGED <<model, binary, receipt, ready, answered, replaced, verdict>>
    /\ InstallRest

\* The build may leave the same binary, or a new one; or fail.
Build ==
    /\ setup["setup"] = "build"
    /\ \/ binary' = builds /\ Step("setup", "receipt")
       \/ binary' = binary /\ binary # 0 /\ Step("setup", "receipt")
       \/ binary' = builds /\ Step("setup", "idle")
    /\ replaced' = IF setup["hand"] \in Testing \/ inner \in {"read", "spawn"}
                   THEN replaced \cup {binary'} ELSE replaced
    /\ UNCHANGED <<model, receipt, ready, answered, verdict, builds>>
    /\ InstallRest

WriteReceipt ==
    /\ setup["setup"] = "receipt"
    /\ receipt' = binary
    /\ Step("setup", "fetch")
    /\ UNCHANGED <<model, binary, ready, answered, replaced, verdict, builds>>
    /\ InstallRest

\* Download and smoke take setup.lock, and stop when another command has it.
BeginDownload(s) ==
    /\ setup[s] = IF s = "setup" THEN "fetch" ELSE "idle"
    /\ Step(s, IF SetupLock THEN "idle" ELSE "download")
    /\ UNCHANGED <<model, binary, receipt, ready, answered, replaced, verdict, builds>>
    /\ InstallRest

\* Three tries with a partial file; only a verified file takes the name.
Download(s) ==
    /\ setup[s] = "download"
    /\ \/ model' = "verified" /\ Step(s, IF s = "setup" THEN "smoke" ELSE "idle")
       \/ model = "absent" /\ UNCHANGED model /\ Step(s, "idle")
    /\ UNCHANGED <<binary, receipt, ready, answered, replaced, verdict, builds>>
    /\ InstallRest

BeginSmoke(s) ==
    /\ setup[s] = IF s = "setup" THEN "smoke" ELSE "idle"
    /\ Step(s, IF SetupLock THEN "idle" ELSE "clear")
    /\ UNCHANGED <<model, binary, receipt, ready, answered, replaced, verdict, builds>>
    /\ InstallRest

\* validate_model(): the file of the expected size, header and hash.
VerifiedModel == model = "verified"

\* Mutant of Clear: the old success stays until a new one replaces it.
ClearNothing(s) ==
    /\ setup[s] = "clear"
    /\ \/ /\ VerifiedModel /\ binary # 0 /\ receipt = binary
          /\ Step(s, "ask") /\ verdict' = Absent
       \/ Step(s, "idle") /\ verdict' = "failed"
    /\ UNCHANGED <<ready, model, binary, receipt, answered, replaced, builds>>
    /\ InstallRest

\* run_smoke(): an old success goes first; then the model, the build and the
\* speech settings are looked at.
Clear(s) ==
    /\ setup[s] = "clear"
    /\ ready' = Absent
    /\ \/ /\ VerifiedModel /\ binary # 0 /\ receipt = binary
          /\ Step(s, "ask") /\ verdict' = Absent
       \/ Step(s, "idle") /\ verdict' = "failed"
    /\ UNCHANGED <<model, binary, receipt, answered, replaced, builds>>
    /\ InstallRest

\* inspect_backend() and validate_answer(): the model that was asked for, one
\* slot of the agreed context, and a finished Korean text with its timings.
Answers(s) == answered' = answered \cup {binary} /\ Step(s, "certify") /\ UNCHANGED verdict
Refused(s) == UNCHANGED answered /\ Step(s, "idle") /\ verdict' = "failed"

\* The engine is started on a port of its own and asked twice in Korean.
Ask(s) ==
    /\ setup[s] = "ask"
    /\ Answers(s) \/ Refused(s)
    /\ UNCHANGED <<model, binary, receipt, ready, replaced, builds>>
    /\ InstallRest

\* Changed speech settings fail the test; else the binary now on disk is named.
Certify(s) ==
    /\ setup[s] = "certify"
    /\ \/ ready' = binary /\ verdict' = "passed"
       \/ UNCHANGED ready /\ verdict' = "failed"
    /\ Step(s, "idle")
    /\ UNCHANGED <<model, binary, receipt, answered, replaced, builds>>
    /\ InstallRest

\* A shell that dies leaves the files as they are; the kernel frees its locks.
SetupDies(s) ==
    /\ setup[s] # "idle"
    /\ Step(s, "idle")
    /\ verdict' = IF setup[s] \in {"ask", "certify"} THEN "failed" ELSE verdict
    /\ UNCHANGED <<model, binary, receipt, ready, answered, replaced, builds>>
    /\ InstallRest

-----------------------------------------------------------------------------
(* The service: runit, supervise.py, runtime.py serve, the engine.         *)

ServiceRest == UNCHANGED install

Switch ==
    /\ switch' = IF switch = "up" THEN "down" ELSE "up"
    /\ UNCHANGED <<outer, inner, asked, engine, engineBin, stray, builds>> /\ ServiceRest

\* runit starts the supervisor, which starts the inner process.
Supervise ==
    /\ switch = "up" /\ outer = "off" /\ inner = "off"
    /\ outer' = "run" /\ inner' = "validate"
    /\ UNCHANGED <<switch, asked, engine, engineBin, stray, builds>> /\ ServiceRest

\* The signal handler writes the marker, and the loop keeps writing it: the
\* inner process may only now be reading the one it compares with.
Halt ==
    /\ switch = "down" /\ outer = "run"
    /\ outer' = "asking" /\ asked' = TRUE
    /\ UNCHANGED <<switch, inner, engine, engineBin, stray, builds>> /\ ServiceRest

Reissue ==
    /\ outer = "asking" /\ inner # "off"
    /\ asked' = TRUE
    /\ UNCHANGED <<switch, outer, inner, engine, engineBin, stray, builds>> /\ ServiceRest

\* After 12 seconds: SIGTERM to the process group.  Before its handlers are in
\* place it ends the inner process, later it asks the loop to end.
GiveUp ==
    /\ outer = "asking" /\ inner # "off"
    /\ outer' = "killing"
    /\ \/ inner \in {"validate", "read", "spawn"} /\ inner' = "off" /\ UNCHANGED asked
       \/ inner \notin {"validate", "read"} /\ asked' = TRUE /\ UNCHANGED inner
    /\ UNCHANGED <<switch, engine, engineBin, stray, builds>> /\ ServiceRest

\* SIGKILL three seconds later.  The loop looks four times a second, so only an
\* engine that is slow to end keeps the inner process that long; the engine is
\* in another session and is not hit.
KillInner ==
    /\ outer = "killing" /\ inner = "stopping"
    /\ inner' = "off"
    /\ UNCHANGED <<switch, outer, asked, engine, engineBin, stray, builds>> /\ ServiceRest

OuterEnds ==
    /\ outer # "off" /\ inner = "off"
    /\ outer' = "off"
    /\ UNCHANGED <<switch, inner, asked, engine, engineBin, stray, builds>> /\ ServiceRest

Certified == ready # Absent /\ ready = binary /\ VerifiedModel

\* validate_ready() and assert_free().
Validate ==
    /\ inner = "validate"
    /\ inner' = IF Certified /\ engine = "off" THEN "read" ELSE "off"
    /\ UNCHANGED <<switch, outer, asked, engine, engineBin, stray, builds>> /\ ServiceRest

\* Mutant of ReadMarker: any marker on disk is a request.
ReadMarkerAsRequest ==
    /\ inner = "read"
    /\ inner' = "spawn"
    /\ UNCHANGED <<switch, outer, asked, engine, engineBin, stray, builds>> /\ ServiceRest

\* A request left by an earlier stop is not one for this process.
ReadMarker ==
    /\ inner = "read"
    /\ inner' = "spawn" /\ asked' = FALSE
    /\ UNCHANGED <<switch, outer, engine, engineBin, stray, builds>> /\ ServiceRest

\* server_args(): the engine and the model are what lies on the disk now, its
\* settings are the package's and not the environment's.
Launch == engine' = "on" /\ engineBin' = binary

\* The engine may not start at all.
Spawn ==
    /\ inner = "spawn"
    /\ \/ inner' = "record" /\ Launch
       \/ inner' = "off" /\ UNCHANGED <<engine, engineBin>>
    /\ UNCHANGED <<switch, outer, asked, stray, builds>> /\ ServiceRest

\* process.json is written before the protected loop begins: when that fails the
\* runner stops and the engine goes on.
Record ==
    /\ inner = "record"
    /\ \/ inner' = "serving" /\ UNCHANGED stray
       \/ inner' = "off" /\ stray' = (engine # "off")
    /\ UNCHANGED <<switch, outer, asked, engine, engineBin, builds>> /\ ServiceRest

\* Mutant of LoopEnds: the engine's group is left alone.
LoopEndsAlone ==
    /\ inner = "serving" /\ (asked \/ engine = "off")
    /\ inner' = "stopping"
    /\ UNCHANGED <<switch, outer, asked, engine, engineBin, stray, builds>> /\ ServiceRest

\* The loop ends when the marker has changed, on a signal, or with the engine;
\* kill_group() ends the engine's group.
LoopEnds ==
    /\ inner = "serving" /\ (asked \/ engine = "off")
    /\ inner' = "stopping"
    /\ engine' = IF engine = "on" THEN "term" ELSE engine
    /\ UNCHANGED <<switch, outer, asked, engineBin, stray, builds>> /\ ServiceRest

\* The engine ends when told to; after eight seconds the runner, as long as there
\* is one, ends it by SIGKILL.
EngineEnds ==
    /\ engine = "term"
    /\ engine' = "off" /\ stray' = FALSE
    /\ UNCHANGED <<switch, outer, inner, asked, engineBin, builds>> /\ ServiceRest

RunnerWaits == inner = "stopping"

InnerEnds ==
    /\ inner = "stopping" /\ engine = "off"
    /\ inner' = "off"
    /\ UNCHANGED <<switch, outer, asked, engine, engineBin, stray, builds>> /\ ServiceRest

EngineDies ==
    /\ engine = "on"
    /\ engine' = "off" /\ stray' = FALSE
    /\ UNCHANGED <<switch, outer, inner, asked, engineBin, builds>> /\ ServiceRest

\* The system may kill the runner at any moment.
InnerDies ==
    /\ inner # "off"
    /\ inner' = "off" /\ stray' = (engine # "off")
    /\ UNCHANGED <<switch, outer, asked, engine, engineBin, builds>> /\ ServiceRest

-----------------------------------------------------------------------------

Inner == Validate \/ ReadMarker \/ Spawn \/ Record \/ LoopEnds \/ InnerEnds
Outer == Halt \/ GiveUp \/ KillInner \/ OuterEnds

RuntimeNext ==
    \/ BeginSetup \/ Build \/ WriteReceipt
    \/ \E s \in Shells : \/ BeginDownload(s) \/ Download(s) \/ BeginSmoke(s)
                         \/ Clear(s) \/ Ask(s) \/ Certify(s) \/ SetupDies(s)
    \/ Switch \/ Supervise \/ Reissue \/ Outer
    \/ Inner \/ InnerDies \/ EngineEnds \/ EngineDies

RuntimeSpec == RuntimeInit /\ [][RuntimeNext]_runtime

\* Processes that can run do, and an engine that was told to end does while its
\* runner waits for it; no other engine has to end.
RuntimeFairSpec ==
    /\ RuntimeSpec
    /\ WF_runtime(Inner) /\ WF_runtime(Outer) /\ WF_runtime(RunnerWaits /\ EngineEnds)

-----------------------------------------------------------------------------
(* Properties.                                                             *)

RuntimeTypeOK ==
    /\ setup \in [Shells -> Testing \cup {"idle", "build", "receipt", "fetch", "download", "smoke"}]
    /\ {binary, receipt, engineBin} \subseteq 0 .. MaxBuilds
    /\ model \in {"absent", "verified"} /\ ready \in 1 .. MaxBuilds \cup {Absent}
    /\ answered \cup replaced \subseteq 1 .. MaxBuilds
    /\ verdict \in {"passed", "failed", Absent} /\ switch \in {"up", "down"}
    /\ outer \in {"off", "run", "asking", "killing"}
    /\ inner \in {"off", "validate", "read", "spawn", "record", "serving", "stopping"}
    /\ engine \in {"off", "on", "term"} /\ asked \in BOOLEAN /\ stray \in BOOLEAN

\* What serves, and what ready.json certifies, has answered a test: no failed or
\* interrupted test and no later build puts an untested engine in production.
\* Only a build that runs beside a test or a start can.
OnlyTested ==
    /\ RuntimeTypeOK
    /\ ready # Absent => ready \in answered \cup replaced /\ verdict = "passed"
    /\ engine = "on" => engineBin \in answered \cup replaced

\* The loop tells its engine to end only when this service was asked to stop: the
\* request of an earlier stop, still on disk, is not taken for a new one.
OldStopIgnored == [][engine = "on" /\ engine' = "term" => outer # "run"]_runtime

\* The runner was killed, by the supervisor's SIGKILL, while it waited for the
\* engine to end: the engine was told to, but nobody is left to kill it.
ToldOnly == engine = "term" /\ inner # "stopping"

\* sv down ends the engine, at whatever moment of its start it comes.  It does not
\* end an engine without a runner: one that was not recorded or whose runner was
\* killed from outside, nor one that outlasts its runner's last three seconds.
DownMeansGone ==
    switch = "down" ~> (engine = "off" \/ switch = "up" \/ stray \/ ToldOnly)
=============================================================================
