------------------------------ MODULE GitUpdate ------------------------------
(***************************************************************************)
(* The V35 updater: update_from_git.py, under remote_update.py or by hand, *)
(* beside the runit service it stops and starts.  What it must keep in     *)
(* step are four things: tracked source, installed packages, the database  *)
(* and the code the running server was started from.                       *)
(***************************************************************************)
EXTENDS Integers, FiniteSets

CONSTANTS MaxWrites,   \* bound: requests that change the database
          MaxRuns,     \* bound: runs of the updater
          MaxStarts,   \* bound: no server dies by itself after so many starts
          MaxPolls,    \* health polls before the update is given up
          Samples,     \* verify_running(): samples of the service
          None

ASSUME BoundsAssumption ==
    /\ MaxWrites \in Nat /\ MaxStarts \in Nat /\ MaxRuns \in Nat \ {0}
    /\ MaxPolls \in Nat \ {0} /\ Samples \in Nat \ {0}

VARIABLES
    at,          \* the step the updater is before
    head,        \* git HEAD and the work tree
    packages,    \* what the virtual environment holds
    reqChanged,  \* the target pins other packages
    db,          \* the database file: rows, opened by new code, whole
    copy,        \* the copy of this run
    switched,    \* set after the merge
    server,      \* the process: None, or the code it was started from and its number
    wanted,      \* what runit was asked for: "up" or "down"
    starts,      \* processes started so far
    polls,       \* health polls or samples so far
    seen,        \* verify_running(): the pid of the earlier samples
    acked,       \* requests answered with success, since the run began or before
    before,      \* those that were answered before this run stopped the server
    trouble,     \* what went wrong that the code does not handle, and no later
                 \* run has put right
    runs

vars == <<at, head, packages, reqChanged, db, copy, switched, server, wanted,
          starts, polls, seen, acked, before, trouble, runs>>
disk    == <<head, packages, reqChanged, db, copy>>
service == <<server, wanted, starts>>
run     == <<switched, polls, seen, before, trouble, runs>>

Versions == {"old", "new"}
Files    == [rows : SUBSET (1 .. MaxWrites), opened : Versions, whole : BOOLEAN]
ASSUME NoneAssumption == None \notin Files
Rollback == {"rb_stop", "rb_reset", "rb_packages", "rb_restore", "rb_up"}
Forward  == {"merge", "check", "packages", "clean", "start", "health"}
Steps    == {"idle", "stop", "backup", "verify", "updated", "verified", "current",
             "failed", "rolled_back"} \cup Forward \cup Rollback
Resting  == {"idle", "updated", "verified", "current", "failed", "rolled_back"}

Pinned(v) == IF reqChanged THEN v ELSE "old"   \* the packages a version wants

Init ==
    /\ at = "idle" /\ head = "old" /\ packages = "old"
    /\ reqChanged \in BOOLEAN
    /\ db = [rows |-> {}, opened |-> "old", whole |-> TRUE]
    /\ copy = None /\ switched = FALSE
    /\ server = [code |-> "old", pid |-> 1] /\ wanted = "up" /\ starts = 1
    /\ polls = 0 /\ seen = None
    /\ acked = {} /\ before = {} /\ trouble = {} /\ runs = 0

-----------------------------------------------------------------------------
(* The service.                                                            *)

\* A server opens the database when it starts, and brings its tables up to date.
Launched == [code |-> head, pid |-> starts + 1]
Boots ==
    /\ server' = Launched
    /\ starts' = starts + 1
    /\ db' = [db EXCEPT !.opened = IF head = "new" THEN "new" ELSE @]

\* runit starts what should be up: after `sv up`, or when the server has died.
Respawn ==
    /\ wanted = "up" /\ server = None
    /\ Boots
    /\ UNCHANGED <<at, head, packages, reqChanged, copy, wanted, acked, run>>

Dies ==
    /\ server # None /\ starts < MaxStarts
    /\ server' = None
    /\ UNCHANGED <<at, disk, wanted, starts, acked, run>>

Write ==
    /\ server # None
    /\ \E w \in (1 .. MaxWrites) \ (acked \cup db.rows) :
         /\ acked' = acked \cup {w}
         /\ db' = [db EXCEPT !.rows = @ \cup {w}]
    /\ UNCHANGED <<at, head, packages, reqChanged, copy, service, run>>

\* The operator starts a service that was left down.
StartByHand ==
    /\ at \in Resting /\ wanted = "down"
    /\ wanted' = "up"
    /\ UNCHANGED <<at, disk, server, starts, acked, run>>

-----------------------------------------------------------------------------
(* A run, up to the rollback point.                                        *)

\* status() and the checks of deploy(); a dirty or diverged tree, a failed
\* fetch, or a main that moved since it was verified ends the run here.  So does
\* a tree that is the target already, whatever an earlier run has left beside
\* it: with success, if the service answers.
Begin ==
    /\ at \in Resting /\ runs < MaxRuns
    /\ runs' = runs + 1
    /\ switched' = FALSE /\ copy' = None /\ polls' = 0 /\ seen' = None
    /\ before' = acked \cap db.rows /\ acked' = acked \cap db.rows
    /\ \/ at' = "failed" /\ UNCHANGED trouble
       \/ head = "new" /\ server # None /\ at' = "current" /\ UNCHANGED trouble
       \/ head = "old" /\ at' = "stop" /\ trouble' = {}
    /\ UNCHANGED <<head, packages, reqChanged, db, service>>

GoTo(step) == at' = step

\* stop_room_hub(): down is requested first, then the exact process is ended.
\* Outside the try: a failure ends the run, whatever the service does now.
StopService ==
    /\ at = "stop"
    /\ wanted' = "down"
    /\ before' = acked
    /\ \/ server' = None /\ GoTo("backup") /\ UNCHANGED trouble
       \/ GoTo("failed") /\ trouble' = trouble \cup {"stop"} /\ UNCHANGED server
    /\ UNCHANGED <<disk, starts, switched, polls, seen, runs, acked>>

\* Mutant of Backup: the main file is copied, without what its log holds.
BackupWithoutLog ==
    /\ at = "backup"
    /\ \/ /\ \E logged \in SUBSET db.rows : copy' = [db EXCEPT !.rows = @ \ logged]
          /\ GoTo("merge") /\ UNCHANGED trouble
       \/ GoTo("failed") /\ trouble' = trouble \cup {"backup"} /\ UNCHANGED copy
    /\ UNCHANGED <<head, packages, reqChanged, db, service, acked, switched,
                   polls, seen, before, runs>>

\* sqlite_backup(), outside the try as well.
Backup ==
    /\ at = "backup"
    /\ \/ copy' = db /\ GoTo("merge") /\ UNCHANGED trouble
       \/ GoTo("failed") /\ trouble' = trouble \cup {"backup"} /\ UNCHANGED copy
    /\ UNCHANGED <<head, packages, reqChanged, db, service, acked, switched,
                   polls, seen, before, runs>>

-----------------------------------------------------------------------------
(* The try block.                                                          *)

Merge ==
    /\ at = "merge"
    /\ \/ head' = "new" /\ switched' = TRUE /\ GoTo("check") /\ UNCHANGED trouble
       \/ GoTo("rb_stop") /\ UNCHANGED <<head, switched, trouble>>
       \* interrupted after git had moved HEAD and before the flag was set
       \/ head' = "new" /\ GoTo("rb_stop") /\ trouble' = trouble \cup {"flag"}
          /\ UNCHANGED switched
    /\ UNCHANGED <<packages, reqChanged, db, copy, service, acked, polls, seen,
                   before, runs>>

CheckRepo ==
    /\ at = "check"
    /\ GoTo("packages") \/ GoTo("rb_stop")
    /\ UNCHANGED <<disk, service, run, acked>>

\* sync_v35_deps() installs what the work tree pins, or stops half way.
Synced(ok, failed) ==
    \/ ~reqChanged /\ GoTo(ok) /\ UNCHANGED <<packages, trouble>>
    \/ reqChanged /\ packages' = head /\ GoTo(ok) /\ UNCHANGED trouble
    \/ /\ reqChanged /\ packages' = "mixed" /\ GoTo(failed)
       /\ trouble' = IF at = "rb_packages" THEN trouble \cup {"packages"} ELSE trouble

\* Mutant of SyncPackages: the packages are left as they are.
SyncPackagesLater ==
    /\ at = "packages"
    /\ GoTo("clean")
    /\ UNCHANGED <<disk, service, run, acked>>

SyncPackages ==
    /\ at = "packages"
    /\ Synced("clean", "rb_stop")
    /\ UNCHANGED <<head, reqChanged, db, copy, service, acked, switched, polls,
                   seen, before, runs>>

CheckClean ==
    /\ at = "clean"
    /\ GoTo("start") \/ GoTo("rb_stop")
    /\ UNCHANGED <<disk, service, run, acked>>

StartService ==
    /\ at = "start"
    /\ \/ wanted' = "up" /\ GoTo("health")
       \/ GoTo("rb_stop") /\ UNCHANGED wanted
    /\ UNCHANGED <<disk, server, starts, run, acked>>

Healthy == server # None /\ server.code = head

PollHealth ==
    /\ at = "health"
    /\ \/ Healthy /\ GoTo("updated") /\ polls' = 0
       \/ /\ polls' = polls + 1
          /\ IF polls + 1 < MaxPolls THEN at' = at ELSE GoTo("rb_stop")
    /\ UNCHANGED <<disk, service, switched, seen, before, trouble, runs, acked>>

\* except BaseException: also an interrupt at any step of the block.
Interrupted ==
    /\ at \in Forward \ {"merge"}
    /\ GoTo("rb_stop")
    /\ UNCHANGED <<disk, service, run, acked>>

-----------------------------------------------------------------------------
(* The rollback; every step is tried whatever the others did.              *)

RbStop ==
    /\ at = "rb_stop"
    /\ wanted' = "down"
    /\ \/ server' = None /\ UNCHANGED trouble
       \/ server # None /\ UNCHANGED server /\ trouble' = trouble \cup {"rb_stop"}
    /\ GoTo("rb_reset")
    /\ UNCHANGED <<disk, starts, switched, polls, seen, before, runs, acked>>

\* Mutant of RbReset: a merge that was made is kept.
RbResetKeeps ==
    /\ at = "rb_reset"
    /\ GoTo("rb_packages")
    /\ UNCHANGED <<disk, service, run, acked>>

RbReset ==
    /\ at = "rb_reset"
    /\ \/ switched /\ head' = "old" /\ UNCHANGED trouble
       \/ switched /\ UNCHANGED head /\ trouble' = trouble \cup {"reset"}
       \/ ~switched /\ UNCHANGED <<head, trouble>>
    /\ GoTo("rb_packages")
    /\ UNCHANGED <<packages, reqChanged, db, copy, service, switched, polls,
                   seen, before, runs, acked>>

RbPackages ==
    /\ at = "rb_packages"
    /\ Synced("rb_restore", "rb_restore")
    /\ UNCHANGED <<head, reqChanged, db, copy, service, switched, polls, seen,
                   before, runs, acked>>

\* Mutant of RbRestore: the database is left as the new version has made it.
RbRestoreNot ==
    /\ at = "rb_restore"
    /\ GoTo("rb_up")
    /\ UNCHANGED <<disk, service, run, acked>>

\* restore_sqlite(): the log files go, then the file is overwritten in place.
\* Under a server that could not be stopped, or half way, it is not whole.
RbRestore ==
    /\ at = "rb_restore"
    /\ \/ /\ copy # None
          /\ db' = IF server = None THEN copy ELSE [copy EXCEPT !.whole = FALSE]
          /\ UNCHANGED trouble
       \/ /\ copy # None
          /\ db' \in {db, [db EXCEPT !.whole = FALSE]}
          /\ trouble' = trouble \cup {"restore"}
       \/ copy = None /\ UNCHANGED <<db, trouble>>
    /\ GoTo("rb_up")
    /\ UNCHANGED <<head, packages, reqChanged, copy, service, switched, polls,
                   seen, before, runs, acked>>

\* Mutant of RbUp: the service is left as rb_stop left it.
RbUpNever ==
    /\ at = "rb_up"
    /\ GoTo("rolled_back")
    /\ UNCHANGED <<disk, service, run, acked>>

RbUp ==
    /\ at = "rb_up"
    /\ wanted' = "up" \/ (wanted' = wanted /\ trouble' = trouble \cup {"up"})
    /\ wanted' = "up" => trouble' = trouble
    /\ GoTo("rolled_back")
    /\ UNCHANGED <<disk, server, starts, switched, polls, seen, before, runs, acked>>

\* A second interrupt in the rollback, or a kill at any step (a lost terminal);
\* the verification only looks.
Killed ==
    /\ at \notin Resting
    /\ GoTo("failed")
    /\ trouble' = IF at = "verify" THEN trouble ELSE trouble \cup {"killed"}
    /\ UNCHANGED <<disk, service, switched, polls, seen, before, runs, acked>>

-----------------------------------------------------------------------------
(* remote_update.py, which holds the update lock, looks at the result.     *)

\* Of an updater that has ended with 0, whether or not it had something to do.
BeginVerify ==
    /\ at \in {"updated", "current"}
    /\ GoTo("verify")
    /\ UNCHANGED <<disk, service, run, acked>>

Sample ==
    /\ at = "verify"
    /\ Healthy /\ head = "new" /\ seen \in {None, server.pid}
    /\ seen' = server.pid
    /\ polls' = polls + 1
    /\ IF polls + 1 < Samples THEN at' = at ELSE GoTo("verified")
    /\ UNCHANGED <<disk, service, switched, before, trouble, runs, acked>>

VerifyFails ==
    /\ at = "verify"
    /\ GoTo("failed")
    /\ UNCHANGED <<disk, service, run, acked>>

Update ==
    \/ StopService \/ Backup \/ Merge \/ CheckRepo \/ SyncPackages \/ CheckClean
    \/ StartService \/ PollHealth
    \/ RbStop \/ RbReset \/ RbPackages \/ RbRestore \/ RbUp
    \/ Sample \/ VerifyFails

Next == Update \/ Begin \/ BeginVerify \/ Interrupted \/ Killed
        \/ Respawn \/ Dies \/ Write \/ StartByHand

Spec == Init /\ [][Next]_vars

\* A step of the updater ends (its commands do); runit does what it was asked.
FairSpec == Spec /\ WF_vars(Update) /\ WF_vars(Respawn)

-----------------------------------------------------------------------------
TypeOK ==
    /\ at \in Steps /\ head \in Versions /\ packages \in Versions \cup {"mixed"}
    /\ db \in Files /\ copy \in Files \cup {None} /\ switched \in BOOLEAN
    /\ wanted \in {"up", "down"} /\ starts \in Nat
    /\ acked \subseteq 1 .. MaxWrites /\ before \subseteq acked
    /\ runs \in 0 .. MaxRuns

\* What the updater reports as success, and what the supervisor verifies: the
\* target is checked out, its packages are installed, and the database, whole
\* if its copy was, holds every request that was answered, also those during
\* the update.  Where the run found the target checked out already, and did
\* nothing, the packages are those of the target unless an earlier run was
\* killed or could not roll back: that is verified as well.
Unspoilt == copy # None /\ copy.whole => db.whole
UpdatedTogether ==
    /\ TypeOK
    /\ at = "updated" => trouble = {}
    /\ at \in {"updated", "current", "verify", "verified"} =>
         /\ head = "new" /\ Unspoilt
         /\ trouble = {} => packages = Pinned("new")
         /\ db.whole => acked \subseteq db.rows

\* After a rollback none of whose steps failed, source, packages and database
\* are those of the version before, whichever step of the update had failed:
\* the tables are as they were copied, whole if the copy was, and the rows of
\* the copy are there.
RolledBackTogether ==
    at = "rolled_back" /\ trouble = {} =>
        /\ head = "old" /\ packages = "old"
        /\ wanted = "up"
        /\ server # None => server.code = "old"
        /\ Unspoilt
        /\ db.opened = copy.opened /\ copy.rows \subseteq db.rows

\* Whichever way a run ends, it leaves one version and not a mixture.
OneVersion == UpdatedTogether /\ RolledBackTogether

\* Requests answered before the run began, and until it stopped the server,
\* survive it, however it ends, unless the rollback could not stop the server
\* or the copy back broke off.
NothingLost == db.whole => before \subseteq db.rows

\* A run that has stopped the service and saved the database asks for it again,
\* by success or by rollback, when it is not killed.
ServiceComesBack ==
    at \in Forward \cup Rollback ~> \/ at \in Resting /\ wanted = "up"
                                   \/ trouble \cap {"killed", "up"} # {}
=============================================================================
