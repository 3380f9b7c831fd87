-------------------------- MODULE Deployment_proofs --------------------------
(***************************************************************************)
(* Proofs about what installs and updates the system: the updater of a git *)
(* clone (GitUpdate), the offline updates of a directory (PatchUpdate) and *)
(* the local language model (QwenRuntime), for any number of requests,     *)
(* runs, starts and polls, of files, edits and updates, and of builds.     *)
(*                                                                         *)
(* A clone's run ends with one version of everything, and what was         *)
(* answered before it stopped the server is not lost: the argument follows *)
(* the run step by step (CopyKept, Ahead, Back), what each may rely on    *)
(* when it begins.  A patch replaces or takes away only what the package   *)
(* or a backup has (PatchInv), again by what each step has looked at.      *)
(* Only what a test has seen, or what was built beside one, is certified   *)
(* and served, because one shell tests at a time and takes the old         *)
(* certificate away first (OneTest, NoneMeanwhile) and a start holds on to *)
(* what it has validated (HeldOn); a stop is this service's because the    *)
(* marker is read anew before the engine (Unasked).                        *)
(***************************************************************************)
EXTENDS GitUpdate, PatchUpdate, QwenRuntime, TLAPS

\* The copy and the file: nothing answered is missing up to the copy back.
CopyKept ==
    /\ at \in {"stop", "backup", "updated", "current", "verify", "verified"} \cup Forward
             \cup (Rollback \ {"rb_up"})
         => acked \subseteq db.rows
    /\ at \in {"stop", "backup"} => copy = None
    /\ at \in Forward \cup Rollback \cup {"rolled_back"} => copy # None
    /\ at \notin {"rb_up", "rolled_back", "failed"} => Unspoilt
    /\ copy # None /\ copy.whole => before \subseteq copy.rows

\* Up to the merge everything is old; after it the target is in the tree.
Ahead ==
    /\ ~reqChanged => packages = "old"
    /\ at \in {"stop", "backup", "merge"} => head = "old" /\ ~switched
    /\ at \in Forward \ {"merge"} => head = "new" /\ switched
    /\ at \in {"clean", "start", "health"} => packages = Pinned("new")
    /\ at \in {"stop", "backup"} \cup Forward => trouble = {}
    /\ at \in Resting \cup {"verify"} /\ head = "new" /\ trouble = {} => packages = Pinned("new")

\* A rollback in which nothing has failed so far.
Back ==
    at \in Rollback /\ trouble = {} =>
       /\ at \in {"rb_stop", "rb_reset"} => switched \/ head = "old"
       /\ at \notin {"rb_stop", "rb_reset"} => head = "old"
       /\ at \in {"rb_restore", "rb_up"} => packages = "old"
       /\ at # "rb_stop" => server = None /\ wanted = "down"
       /\ at = "rb_up" => /\ copy.whole => db.whole
                          /\ db.opened = copy.opened /\ copy.rows \subseteq db.rows

UpdateInv == OneVersion /\ NothingLost /\ CopyKept /\ Ahead /\ Back

-----------------------------------------------------------------------------
LEMMA InitUpdateInv == Init => UpdateInv
<1> SUFFICES ASSUME Init PROVE UpdateInv
  OBVIOUS
<1> USE BoundsAssumption DEF Init
<1>1. db \in Files /\ copy \in Files \cup {None} /\ switched \in BOOLEAN
  BY Zenon DEF Files, Versions
<1>2. TypeOK
  BY <1>1 DEF TypeOK, Steps, Versions
<1>3. UpdatedTogether /\ RolledBackTogether /\ NothingLost
  BY <1>2 DEF UpdatedTogether, RolledBackTogether, NothingLost, Unspoilt
<1>4. CopyKept /\ Ahead /\ Back
  BY DEF CopyKept, Ahead, Back, Unspoilt, Pinned, Forward, Rollback
<1> QED
  BY <1>3, <1>4 DEF UpdateInv, OneVersion

\* The server, runit and the operator, at any step of a run.
LEMMA ServiceKeeps ==
    ASSUME UpdateInv, Respawn \/ Dies \/ Write \/ StartByHand
    PROVE  UpdateInv'
<1> USE BoundsAssumption DEF UpdateInv, OneVersion, UpdatedTogether, TypeOK, Files, Versions,
        RolledBackTogether, NothingLost, CopyKept, Ahead, Back, Unspoilt, Pinned, Forward, Rollback, Resting,
        disk, service, run
<1>1. CASE Respawn
  BY <1>1 DEF Respawn, Boots, Launched
<1>2. CASE Dies
  BY <1>2 DEF Dies
<1>3. CASE Write
  BY <1>3 DEF Write
<1>4. CASE StartByHand
  <2>1. TypeOK'
    BY <1>4 DEF StartByHand
  <2>2. UpdatedTogether'
    BY <2>1, <1>4 DEF StartByHand
  <2>3. RolledBackTogether'
    BY <1>4 DEF StartByHand
  <2>4. NothingLost' /\ CopyKept'
    BY <1>4 DEF StartByHand
  <2>5. Ahead' /\ Back'
    BY <1>4 DEF StartByHand
  <2> QED
    BY <2>1, <2>2, <2>3, <2>4, <2>5
<1> QED
  BY <1>1, <1>2, <1>3, <1>4

\* A run up to its success, its verification included.
LEMMA ForwardKeeps ==
    ASSUME UpdateInv,
           \/ Begin \/ StopService \/ Backup \/ Merge \/ CheckRepo \/ SyncPackages
           \/ CheckClean \/ StartService \/ PollHealth \/ Interrupted
           \/ BeginVerify \/ Sample \/ VerifyFails \/ Killed
    PROVE  UpdateInv'
<1> USE BoundsAssumption, NoneAssumption DEF UpdateInv, OneVersion, UpdatedTogether, TypeOK, Files,
        RolledBackTogether, NothingLost, CopyKept, Ahead, Back, Unspoilt, Pinned, Forward, Rollback, Resting,
        Versions, Steps, disk, service, run, GoTo
<1>1. CASE Begin
  <2>1. TypeOK'
    <3>1. /\ at' \in Steps /\ acked' \subseteq 1 .. MaxWrites /\ before' \subseteq acked'
          /\ runs' \in 0 .. MaxRuns /\ copy' = None /\ switched' = FALSE
      BY <1>1 DEF Begin
    <3>2. UNCHANGED <<head, packages, db, wanted, starts>>
      BY <1>1 DEF Begin
    <3> QED
      BY <3>1, <3>2
  <2>2. UpdatedTogether'
    BY <2>1, <1>1 DEF Begin
  <2>3. RolledBackTogether'
    BY <1>1 DEF Begin
  <2>4. NothingLost' /\ CopyKept'
    BY <1>1 DEF Begin
  <2>5. Ahead' /\ Back'
    BY <1>1 DEF Begin
  <2> QED
    BY <2>1, <2>2, <2>3, <2>4, <2>5
<1>2. CASE StopService
  BY <1>2 DEF StopService
<1>3. CASE Backup
  BY <1>3 DEF Backup
<1>4. CASE Merge
  BY <1>4 DEF Merge
<1>5. CASE CheckRepo \/ CheckClean
  <2>1. TypeOK'
    BY <1>5 DEF CheckRepo, CheckClean
  <2>2. UpdatedTogether'
    BY <2>1, <1>5 DEF CheckRepo, CheckClean
  <2>3. RolledBackTogether'
    BY <1>5 DEF CheckRepo, CheckClean
  <2>4. NothingLost' /\ CopyKept'
    BY <1>5 DEF CheckRepo, CheckClean
  <2>5. Ahead' /\ Back'
    BY <1>5 DEF CheckRepo, CheckClean
  <2> QED
    BY <2>1, <2>2, <2>3, <2>4, <2>5
<1>6. CASE SyncPackages
  BY <1>6 DEF SyncPackages, Synced
<1>7. CASE StartService
  BY <1>7 DEF StartService
<1>8. CASE PollHealth
  BY <1>8 DEF PollHealth, Healthy
<1>9. CASE Interrupted \/ Killed
  <2>1. TypeOK'
    BY <1>9 DEF Interrupted, Killed
  <2>2. UpdatedTogether'
    BY <2>1, <1>9 DEF Interrupted, Killed
  <2>3. RolledBackTogether'
    BY <1>9 DEF Interrupted, Killed
  <2>4. NothingLost' /\ CopyKept'
    BY <1>9 DEF Interrupted, Killed
  <2>5. Ahead' /\ Back'
    BY <1>9 DEF Interrupted, Killed
  <2> QED
    BY <2>1, <2>2, <2>3, <2>4, <2>5
<1>10. CASE BeginVerify \/ Sample \/ VerifyFails
  <2>1. TypeOK'
    BY <1>10 DEF BeginVerify, Sample, VerifyFails, Healthy
  <2>2. UpdatedTogether'
    BY <2>1, <1>10 DEF BeginVerify, Sample, VerifyFails, Healthy
  <2>3. RolledBackTogether'
    BY <1>10 DEF BeginVerify, Sample, VerifyFails, Healthy
  <2>4. NothingLost' /\ CopyKept'
    BY <1>10 DEF BeginVerify, Sample, VerifyFails, Healthy
  <2>5. Ahead' /\ Back'
    BY <1>10 DEF BeginVerify, Sample, VerifyFails, Healthy
  <2> QED
    BY <2>1, <2>2, <2>3, <2>4, <2>5
<1> QED
  BY <1>1, <1>2, <1>3, <1>4, <1>5, <1>6, <1>7, <1>8, <1>9, <1>10

\* The rollback.
LEMMA RollbackKeeps ==
    ASSUME UpdateInv, RbStop \/ RbReset \/ RbPackages \/ RbRestore \/ RbUp
    PROVE  UpdateInv'
<1> USE BoundsAssumption, NoneAssumption DEF UpdateInv, OneVersion, UpdatedTogether, TypeOK, Files,
        RolledBackTogether, NothingLost, CopyKept, Ahead, Back, Unspoilt, Pinned, Forward, Rollback, Resting,
        Versions, Steps, disk, service, run, GoTo
<1>1. CASE RbStop
  BY <1>1 DEF RbStop
<1>2. CASE RbReset
  BY <1>2 DEF RbReset
<1>3. CASE RbPackages
  BY <1>3 DEF RbPackages, Synced
<1>4. CASE RbRestore
  BY <1>4 DEF RbRestore
<1>5. CASE RbUp
  BY <1>5 DEF RbUp
<1> QED
  BY <1>1, <1>2, <1>3, <1>4, <1>5

LEMMA NextUpdateInv == UpdateInv /\ [Next]_vars => UpdateInv'
<1> SUFFICES ASSUME UpdateInv, [Next]_vars PROVE UpdateInv'
  OBVIOUS
<1>1. CASE Next
  BY <1>1, ServiceKeeps, ForwardKeeps, RollbackKeeps DEF Next, Update
<1>2. CASE UNCHANGED vars
  BY <1>2 DEF vars, UpdateInv, OneVersion, UpdatedTogether, TypeOK, RolledBackTogether,
     NothingLost, CopyKept, Ahead, Back, Unspoilt, Pinned
<1> QED
  BY <1>1, <1>2

-----------------------------------------------------------------------------
(* The results about the updater of a clone.                               *)

\* Success and rollback each leave one version of source, packages and database
\* (deploy() and its except branch).
THEOREM Whole == Spec => []OneVersion
<1>1. UpdateInv => OneVersion
  BY DEF UpdateInv
<1> QED
  BY <1>1, InitUpdateInv, NextUpdateInv, PTL DEF Spec

\* A request answered before the server was stopped is in the database, however
\* the run ends (sqlite_backup(), restore_sqlite()).
THEOREM Safe == Spec => []NothingLost
<1>1. UpdateInv => NothingLost
  BY DEF UpdateInv
<1> QED
  BY <1>1, InitUpdateInv, NextUpdateInv, PTL DEF Spec

-----------------------------------------------------------------------------
(* Offline updates of a directory of files.                                *)

\* What a backup holds: a text for each file of the update.
Copies  == UNION {[D -> Texts] : D \in SUBSET Sources}
Backups == [seen : Copies, copy : Copies, state : {"installing", "applied", "rolled_back"}]

\* The last script notes what it has copied, the earlier ones the baseline.
Honest(r) ==
    /\ DOMAIN r.copy = DOMAIN r.seen
    /\ script = "life" => r.copy = r.seen
    /\ script = "earlier" => \A f \in DOMAIN r.seen : r.seen[f] = Old

Honestly == \A b \in DOMAIN receipts : Honest(receipts[b])

\* What a script has not treated yet is as it was found; what it has is new, or
\* back - but for the files edited since it looked at them.
Found(f) == file[f] \in {Receipt.copy[f], Receipt.seen[f]} \/ f \in late
Brought(f) == file[f] = New \/ f \in late

Underway ==
    /\ step = "save" => Len(receipts) < MaxUpdates
    /\ step \in {"write", "replace", "note", "undo", "restore"} =>
          using # 0 /\ todo \subseteq Planned
    /\ step \in {"save", "write", "replace", "note"} => \A f \in Sources \ todo : Brought(f)
    /\ step \in {"write", "replace"} => \A f \in todo : Found(f)
    /\ step = "note" => /\ looked \in todo /\ Brought(looked)
                        /\ \A f \in todo \ {looked} : Found(f)
    /\ step = "undo" => \A f \in todo : Brought(f)
    /\ step = "restore" => \A f \in todo : Brought(f) \/ file[f] = Receipt.copy[f]
    /\ step \in {"undo", "restore"} => \A f \in Planned \ todo : Found(f) \/ f \in skipped
    /\ step = "replace" =>
          /\ looked \in todo
          /\ file[looked] = Receipt.seen[looked] \/ looked \in late
          /\ script = "life" /\ looked = Version => todo = {Version}

PatchInv ==
    /\ PatchTypeOK
    /\ receipts \in Seq(Backups)
    /\ Honestly
    /\ Underway

\* The files of a backup are files of the package, and it holds a text of each.
LEMMA BackupFacts ==
    ASSUME NEW r \in Backups
    PROVE  /\ DOMAIN r.seen \subseteq Sources
           /\ \A f \in DOMAIN r.copy : r.copy[f] \in Texts
<1>1. r.seen \in Copies /\ r.copy \in Copies
  BY DEF Backups
<1>2. PICK S \in SUBSET Sources : r.seen \in [S -> Texts]
  BY <1>1 DEF Copies
<1>3. PICK D \in SUBSET Sources : r.copy \in [D -> Texts]
  BY <1>1 DEF Copies
<1> QED
  BY <1>2, <1>3

\* What the script works with, while it works with a backup.
LEMMA Working ==
    ASSUME PatchInv, step \in {"write", "replace", "note", "undo", "restore"}
    PROVE  /\ using \in DOMAIN receipts /\ Receipt \in Backups /\ Honest(Receipt)
           /\ Planned \subseteq Sources /\ Planned = DOMAIN Receipt.copy
           /\ \A f \in Planned : Receipt.copy[f] \in Texts
<1>1. using \in DOMAIN receipts
  BY DEF PatchInv, PatchTypeOK, Underway
<1>2. Receipt \in Backups /\ Honest(Receipt)
  BY <1>1 DEF PatchInv, Honestly, Receipt
<1> QED
  BY <1>1, <1>2, BackupFacts DEF Planned, Honest

LEMMA InitPatchInv == PatchInit => PatchInv
  BY PatchBounds, SourcesAssumption
     DEF PatchInit, PatchInv, PatchTypeOK, Honestly, Underway, Texts, Old

\* Steps that touch neither a file nor a receipt.
LEMMA LooksKeep ==
    ASSUME PatchInv,
           \/ Plan \/ Fail \/ BreaksOff
           \/ (\E f \in Sources : Look(f)) \/ \E b \in 1 .. MaxUpdates : RollBack(b)
    PROVE  PatchInv'
<1>0. UNCHANGED <<script, file, receipts, edits>>
  BY DEF Plan, Fail, BreaksOff, Look, RollBack
<1>1. receipts' \in Seq(Backups) /\ Honestly'
  BY <1>0 DEF PatchInv, Honestly, Honest
<1>2. PatchTypeOK' /\ Underway'
  <2> USE DEF PatchTypeOK, Underway, Found, Brought, Receipt, Planned
  <2>1. CASE Plan
    BY <1>0, <2>1 DEF PatchInv, Plan, Changes
  <2>2. CASE Fail
    BY <1>0, <2>2, Working DEF PatchInv, Fail, MayUndo, Done
  <2>3. CASE BreaksOff
    BY <1>0, <2>3 DEF PatchInv, BreaksOff
  <2>4. ASSUME NEW f \in Sources, Look(f) PROVE PatchTypeOK' /\ Underway'
    BY <1>0, <2>4 DEF PatchInv, Look
  <2>5. ASSUME NEW b \in 1 .. MaxUpdates, RollBack(b) PROVE PatchTypeOK' /\ Underway'
    <3>1. b \in DOMAIN receipts /\ receipts[b] \in Backups /\ Honest(receipts[b])
      BY <2>5 DEF RollBack, PatchInv, Honestly
    <3>2. DOMAIN receipts[b].seen \subseteq Sources
      BY <3>1, BackupFacts
    <3> QED
      BY <1>0, <2>5, <3>1, <3>2 DEF PatchInv, RollBack, Intact, Unedited, Honest
  <2> QED
    BY <2>1, <2>2, <2>3, <2>4, <2>5
<1> QED
  BY <1>1, <1>2 DEF PatchInv

\* Steps that write a file, the operator's included.
LEMMA WritesKeep ==
    ASSUME PatchInv, Replace \/ Note \/ \E f \in Sources : Restore(f) \/ Edit(f)
    PROVE  PatchInv'
<1>0. UNCHANGED <<script, receipts, using, looked>>
  BY DEF Replace, Note, Restore, Edit
<1>1. receipts' \in Seq(Backups) /\ Honestly'
  BY <1>0 DEF PatchInv, Honestly, Honest
<1>2. PatchTypeOK' /\ Underway'
  <2> USE DEF PatchTypeOK, Underway, Found, Brought, Receipt, Planned
  <2>1. CASE Replace
    <3>1. New \in Texts
      BY PatchBounds DEF New, Texts
    <3> QED
      BY <1>0, <2>1, <3>1 DEF PatchInv, Replace
  <2>2. ASSUME NEW f \in Sources, Restore(f) PROVE PatchTypeOK' /\ Underway'
    <3>1. Receipt.copy[f] \in Texts
      BY <2>2, Working DEF Restore, PatchInv
    <3> QED
      BY <1>0, <2>2, <3>1 DEF PatchInv, Restore
  <2>3. ASSUME NEW f \in Sources, Edit(f) PROVE PatchTypeOK' /\ Underway'
    <3>1. PICK text \in {Old, edits + 2} : file' = [file EXCEPT ![f] = text]
      BY <2>3 DEF Edit
    <3>2. text \in Texts /\ edits' \in 0 .. MaxEdits
      BY <2>3, <3>1, PatchBounds DEF Edit, Old, Texts, PatchInv
    <3> QED
      BY <1>0, <2>3, <3>1, <3>2 DEF PatchInv, Edit
  <2>4. CASE Note
    BY <1>0, <2>4 DEF PatchInv, Note
  <2> QED
    BY <2>1, <2>2, <2>3, <2>4
<1> QED
  BY <1>1, <1>2 DEF PatchInv

\* A new receipt.
LEMMA SaveKeeps ==
    ASSUME PatchInv, Save
    PROVE  PatchInv'
<1> DEFINE copied == [f \in todo |-> file[f]]
           new == [seen |-> Noted(copied), copy |-> copied, state |-> "installing"]
<1>1. copied \in Copies /\ Noted(copied) \in Copies /\ DOMAIN copied = todo
      /\ DOMAIN Noted(copied) = todo
  <2>1. todo \in SUBSET Sources /\ \A f \in todo : file[f] \in Texts
    BY DEF PatchInv, PatchTypeOK
  <2>2. Old \in Texts
    BY PatchBounds DEF Old, Texts
  <2>3. copied \in [todo -> Texts] /\ [f \in todo |-> Old] \in [todo -> Texts]
    BY <2>1, <2>2
  <2> QED
    BY <2>1, <2>3 DEF Copies, Noted
<1>2. new \in Backups /\ new.seen = Noted(copied) /\ new.copy = copied
  BY <1>1 DEF Backups
<1>3. Honest(new)
  BY <1>1, <1>2 DEF Honest, Noted
<1>4. /\ receipts' = Append(receipts, new) /\ using' = Len(receipts) + 1 /\ step' = "write"
      /\ late' = late \ todo /\ UNCHANGED <<script, file, todo, skipped, looked, edits>>
      /\ Len(receipts) < MaxUpdates
  BY DEF Save, PatchInv, Underway
<1> HIDE DEF new
<1>5. /\ receipts' \in Seq(Backups) /\ Len(receipts') = Len(receipts) + 1
      /\ \A b \in 1 .. Len(receipts) : receipts'[b] = receipts[b]
      /\ receipts'[using'] = new
  BY <1>2, <1>4 DEF PatchInv
<1>6. Honestly'
  BY <1>3, <1>4, <1>5 DEF PatchInv, Honestly, Honest
<1>7. PatchTypeOK'
  BY <1>4, <1>5, PatchBounds DEF PatchInv, PatchTypeOK
<1>8. Underway'
  BY <1>1, <1>2, <1>4, <1>5 DEF Save, PatchInv, Underway, Found, Brought, Receipt, Planned
<1> QED
  BY <1>5, <1>6, <1>7, <1>8 DEF PatchInv

\* How it ended.
LEMMA EndsKeep ==
    ASSUME PatchInv, Applied \/ RolledBack
    PROVE  PatchInv'
<1>1. PICK s \in {"applied", "rolled_back"} : Recorded(s)
  BY DEF Applied, RolledBack
<1>2. /\ step \in {"write", "undo", "restore"} /\ step' = "idle"
      /\ UNCHANGED <<script, file, todo, skipped, looked, using, late, edits>>
  BY DEF Applied, RolledBack
<1> DEFINE new == [Receipt EXCEPT !.state = s]
<1>3. using \in DOMAIN receipts /\ Receipt \in Backups /\ Honest(Receipt)
  BY <1>2, Working
<1>4. new \in Backups /\ new.seen = Receipt.seen /\ new.copy = Receipt.copy
  BY <1>3 DEF Backups
<1>5. receipts' = [receipts EXCEPT ![using] = new]
  BY <1>1 DEF Recorded, Receipt
<1>6. Honest(new)
  BY <1>3, <1>4 DEF Honest
<1> HIDE DEF new
<1>7. /\ receipts' \in Seq(Backups) /\ Len(receipts') = Len(receipts)
      /\ \A b \in DOMAIN receipts' : receipts'[b] = receipts[b] \/ receipts'[b] = new
  BY <1>3, <1>4, <1>5 DEF PatchInv
<1>8. Honestly'
  BY <1>2, <1>6, <1>7 DEF PatchInv, Honestly, Honest
<1>9. PatchTypeOK' /\ Underway'
  BY <1>2, <1>7 DEF PatchInv, PatchTypeOK, Underway
<1> QED
  BY <1>7, <1>8, <1>9 DEF PatchInv

LEMMA NextPatchInv == PatchInv /\ [PatchNext]_patch => PatchInv'
<1> SUFFICES ASSUME PatchInv, [PatchNext]_patch PROVE PatchInv'
  OBVIOUS
<1>1. CASE UNCHANGED patch
  BY <1>1 DEF patch, PatchInv, PatchTypeOK, Honestly, Honest, Underway, Found, Brought, Receipt, Planned
<1>2. CASE PatchNext
  BY <1>2, LooksKeep, WritesKeep, SaveKeeps, EndsKeep DEF PatchNext
<1> QED
  BY <1>1, <1>2

-----------------------------------------------------------------------------
(* The result about offline updates.                                       *)

\* What a script takes away the package or a backup has, or it was written
\* after the script looked.
LEMMA TakesAwayWhatIsHeld ==
    ASSUME PatchInv, [PatchNext]_patch
    PROVE  NothingOverwritten
<1> SUFFICES ASSUME NEW f \in Sources, edits' = edits, file'[f] # file[f], f \notin late
             PROVE  Held(f, file[f])
  BY DEF NothingOverwritten
<1>1. edits \in Nat /\ file \in [Sources -> Texts]
  BY DEF PatchInv, PatchTypeOK
<1>2. (Replace /\ f = looked) \/ Restore(f)
  BY <1>1 DEF PatchNext, patch, Plan, Save, Replace, Note, Applied, Fail, RolledBack, BreaksOff, Look,
     Restore, Edit, RollBack
<1>3. /\ using \in DOMAIN receipts /\ Honest(Receipt) /\ Planned = DOMAIN Receipt.copy
  BY <1>2, Working DEF Replace, Restore
\* A text that was copied is in the backup the script works with.
<1>4. f \in Planned /\ file[f] = Receipt.copy[f] => Held(f, file[f])
  BY <1>3 DEF Held, Kept, Receipt
\* A text that was seen is so too, or is the baseline of an earlier script.
<1>5. f \in Planned /\ file[f] = Receipt.seen[f] => Held(f, file[f])
  <2> SUFFICES ASSUME f \in Planned, file[f] = Receipt.seen[f] PROVE Held(f, file[f])
    OBVIOUS
  <2>1. CASE file[f] = Receipt.copy[f]
    BY <2>1, <1>4
  <2>2. CASE file[f] # Receipt.copy[f]
    <3>1. script = "earlier"
      BY <2>2, <1>3 DEF Honest, PatchInv, PatchTypeOK
    <3> QED
      BY <2>2, <3>1, <1>3 DEF Held, Honest, Miscopied, Planned
  <2> QED
    BY <2>1, <2>2
<1>6. file[f] = New => Held(f, file[f])
  BY DEF Held
<1> QED
  BY <1>2, <1>4, <1>5, <1>6 DEF PatchInv, Underway, Found, Brought, Replace, Restore

\* What a receipt, and a new VERSION, say is so.
LEMMA ReceiptsSo ==
    ASSUME PatchInv, [PatchNext]_patch
    PROVE  ReceiptsTrue
<1>1. CASE step = "write" /\ step' = "idle" /\ receipts' # receipts
  <2>1. todo = {}
    BY <1>1 DEF PatchNext, patch, Plan, Save, Replace, Note, Applied, Fail, RolledBack, BreaksOff, Look,
       Restore, Edit, RollBack
  <2> QED
    BY <1>1, <2>1, Working DEF ReceiptsTrue, PatchInv, Underway, Brought
<1>2. CASE step \in {"undo", "restore"} /\ step' = "idle" /\ receipts' # receipts
  <2>1. todo = {}
    BY <1>2 DEF PatchNext, patch, Plan, Save, Replace, Note, Applied, Fail, RolledBack, BreaksOff, Look,
       Restore, Edit, RollBack
  <2> QED
    BY <1>2, <2>1 DEF ReceiptsTrue, PatchInv, Underway, Found
<1>3. CASE script = "life" /\ step = "replace" /\ file'[Version] # file[Version] /\ edits' = edits
  <2>1. edits \in Nat /\ file \in [Sources -> Texts]
    BY DEF PatchInv, PatchTypeOK
  <2>2. Replace
    BY <1>3, <2>1 DEF PatchNext, patch, Plan, Save, Note, Applied, Fail, RolledBack, BreaksOff, Look,
       Restore, Edit, RollBack
  <2>3. looked = Version
    BY <1>3, <2>1, <2>2, SourcesAssumption DEF Replace
  <2> QED
    BY <1>3, <2>3 DEF ReceiptsTrue, PatchInv, Underway, Brought
<1> QED
  BY <1>1, <1>2, <1>3 DEF ReceiptsTrue

\* A script takes away no text but what the package or a backup still has, and
\* what its receipts and a new VERSION say is so: for any package, any number
\* of updates and edits, and wherever the script breaks off.
THEOREM Patched == PatchSpec => PatchesSafely
<1>1. PatchInv => PatchTypeOK
  BY DEF PatchInv
<1>2. PatchInv /\ [PatchNext]_patch => [NothingOverwritten /\ ReceiptsTrue]_patch
  BY TakesAwayWhatIsHeld, ReceiptsSo
<1> QED
  BY <1>1, <1>2, InitPatchInv, NextPatchInv, PTL DEF PatchSpec, PatchesSafely

-----------------------------------------------------------------------------
\* setup.lock: one shell tests or downloads.
Locking == Testing \cup {"download"}
OneTest == \A s, t \in Shells : setup[s] \in Locking /\ setup[t] \in Locking => s = t

\* While a test asks, there is no certificate, and an engine to ask.
NoneMeanwhile ==
    \A s \in Shells : setup[s] \in {"ask", "certify"} => ready = Absent /\ binary # 0

\* What is about to be certified or started has been tested, or replaced.
HeldOn == (inner \in {"read", "spawn"} \/ \E s \in Shells : setup[s] = "certify")
           => binary \in answered \cup replaced

\* Who builds has a number for it.
Numbered == /\ builds \in 0 .. MaxBuilds
            /\ setup["setup"] = "build" => builds # 0
            /\ setup["hand"] # "build"

RuntimeInv == OnlyTested /\ OneTest /\ NoneMeanwhile /\ HeldOn /\ Numbered

-----------------------------------------------------------------------------
LEMMA InitRuntimeInv == RuntimeInit => RuntimeInv
<1> SUFFICES ASSUME RuntimeInit PROVE RuntimeInv
  OBVIOUS
<1> USE BuildsAssumption DEF RuntimeInit
<1>1. RuntimeTypeOK
  <2>1. setup \in [Shells -> Testing \cup {"idle", "build", "receipt", "fetch", "download", "smoke"}]
    OBVIOUS
  <2>2. {binary, receipt, engineBin} \subseteq 0 .. MaxBuilds
    OBVIOUS
  <2>3. asked \in BOOLEAN /\ stray \in BOOLEAN
    BY Zenon
  <2> QED
    BY <2>1, <2>2, <2>3 DEF RuntimeTypeOK
<1>2. OneTest /\ NoneMeanwhile
  BY DEF OneTest, NoneMeanwhile, Locking, Testing
<1>3. HeldOn /\ Numbered
  BY DEF HeldOn, Numbered, Shells
<1> QED
  BY <1>1, <1>2, <1>3 DEF RuntimeInv, OnlyTested

\* The service reads what the setup has written and leaves it alone; it starts
\* and validates only what is certified.
LEMMA ProductionFrame ==
    ASSUME RuntimeInv, UNCHANGED <<install, builds>>,
           switch' \in {"up", "down"}, asked' \in BOOLEAN, stray' \in BOOLEAN,
           outer' \in {"off", "run", "asking", "killing"},
           inner' \in {"off", "validate", "read", "spawn", "record", "serving", "stopping"},
           engine' \in {"off", "on", "term"},
           inner' \in {"read", "spawn"} =>
             inner \in {"read", "spawn"} \/ (ready = binary /\ ready # Absent),
           \/ engineBin' = engineBin /\ (engine' = "on" => engine = "on")
           \/ engineBin' = binary /\ inner = "spawn"
    PROVE  RuntimeInv'
<1> USE DEF RuntimeInv, OnlyTested
<1>0. UNCHANGED <<setup, model, binary, receipt, ready, answered, replaced, verdict>>
  BY DEF install
<1>1. RuntimeTypeOK'
  BY <1>0 DEF RuntimeTypeOK
<1>2. OneTest' /\ NoneMeanwhile' /\ Numbered'
  BY <1>0 DEF OneTest, NoneMeanwhile, Numbered
<1>3. HeldOn'
  BY <1>0 DEF HeldOn
<1>4. engine' = "on" => engineBin' \in answered' \cup replaced'
  BY <1>0 DEF HeldOn
<1> QED
  BY <1>0, <1>1, <1>2, <1>3, <1>4

LEMMA ProductionKeeps ==
    ASSUME RuntimeInv,
           Switch \/ Supervise \/ Reissue \/ Outer \/ Inner
           \/ InnerDies \/ EngineEnds \/ EngineDies
    PROVE  RuntimeInv'
<1> DEFINE Moves == /\ switch' \in {"up", "down"}
                    /\ outer' \in {"off", "run", "asking", "killing"}
                    /\ inner' \in {"off", "validate", "read", "spawn", "record", "serving", "stopping"}
                    /\ engine' \in {"off", "on", "term"}
           Starts == inner' \in {"read", "spawn"} =>
                       inner \in {"read", "spawn"} \/ (ready = binary /\ ready # Absent)
           Serves == \/ engineBin' = engineBin /\ (engine' = "on" => engine = "on")
                     \/ engineBin' = binary /\ inner = "spawn"
<1>0. /\ switch \in {"up", "down"}
      /\ outer \in {"off", "run", "asking", "killing"}
      /\ inner \in {"off", "validate", "read", "spawn", "record", "serving", "stopping"}
      /\ engine \in {"off", "on", "term"}
  BY DEF RuntimeInv, OnlyTested, RuntimeTypeOK
<1>1. UNCHANGED <<install, builds>>
  BY DEF Switch, Supervise, Reissue, Outer, Halt, GiveUp, KillInner, OuterEnds, Inner,
     Validate, ReadMarker, Spawn, Record, LoopEnds, InnerEnds, InnerDies, EngineEnds,
     EngineDies, ServiceRest
<1>4. asked \in BOOLEAN /\ stray \in BOOLEAN
  BY DEF RuntimeInv, OnlyTested, RuntimeTypeOK
<1>2. asked' \in BOOLEAN
  BY <1>4, Zenon DEF Switch, Supervise, Reissue, Outer, Halt, GiveUp, KillInner, OuterEnds,
     Inner, Validate, ReadMarker, Spawn, Record, LoopEnds, InnerEnds, InnerDies, EngineEnds,
     EngineDies
<1>5. stray' \in BOOLEAN
  BY <1>4, Zenon DEF Switch, Supervise, Reissue, Outer, Halt, GiveUp, KillInner, OuterEnds,
     Inner, Validate, ReadMarker, Spawn, Record, LoopEnds, InnerEnds, InnerDies, EngineEnds,
     EngineDies
<1>3. Moves /\ Starts /\ Serves
  <2>1. CASE Switch \/ Supervise \/ Reissue
    BY <1>0, <2>1 DEF Switch, Supervise, Reissue
  <2>2. CASE InnerDies \/ EngineEnds \/ EngineDies
    BY <1>0, <2>2 DEF InnerDies, EngineEnds, EngineDies
  <2>3. CASE Outer
    BY <1>0, <2>3 DEF Outer, Halt, GiveUp, KillInner, OuterEnds
  <2>4. CASE Validate
    BY <1>0, <2>4 DEF Validate, Certified
  <2>5. CASE ReadMarker \/ InnerEnds
    BY <1>0, <2>5 DEF ReadMarker, InnerEnds
  <2>6. CASE LoopEnds
    BY <1>0, <2>6 DEF LoopEnds
  <2>7. CASE Spawn \/ Record
    BY <1>0, <2>7 DEF Spawn, Launch, Record
  <2> QED
    BY <2>1, <2>2, <2>3, <2>4, <2>5, <2>6, <2>7 DEF Inner
<1> QED
  BY <1>1, <1>2, <1>3, <1>5, ProductionFrame

\* The build and its receipt, by the one shell that builds.
LEMMA BuildKeeps ==
    ASSUME RuntimeInv, BeginSetup \/ Build \/ WriteReceipt
    PROVE  RuntimeInv'
<1> USE BuildsAssumption DEF RuntimeInv, OnlyTested, RuntimeTypeOK, OneTest, Locking, Testing,
        NoneMeanwhile, HeldOn, Numbered, Shells, InstallRest, production, Step
<1>1. CASE BeginSetup
  BY <1>1 DEF BeginSetup
<1>2. CASE Build
  BY <1>2 DEF Build
<1>3. CASE WriteReceipt
  BY <1>3 DEF WriteReceipt
<1> QED
  BY <1>1, <1>2, <1>3

\* Download and test, by either shell.
LEMMA ShellKeeps ==
    ASSUME RuntimeInv, NEW s \in Shells,
           BeginDownload(s) \/ Download(s) \/ BeginSmoke(s)
           \/ Clear(s) \/ Ask(s) \/ Certify(s) \/ SetupDies(s)
    PROVE  RuntimeInv'
<1> USE AbsentAssumption DEF RuntimeInv, OnlyTested, RuntimeTypeOK, OneTest, Locking, Testing,
        NoneMeanwhile, HeldOn, Numbered, Shells, InstallRest, production, Step
<1>1. CASE BeginDownload(s) \/ BeginSmoke(s)
  BY <1>1 DEF BeginDownload, BeginSmoke, SetupLock
<1>2. CASE Download(s)
  BY <1>2 DEF Download
<1>3. CASE Clear(s)
  BY <1>3 DEF Clear
<1>4. CASE Ask(s)
  BY <1>4 DEF Ask, Answers, Refused
<1>5. CASE Certify(s)
  BY <1>5 DEF Certify
<1>6. CASE SetupDies(s)
  BY <1>6 DEF SetupDies
<1> QED
  BY <1>1, <1>2, <1>3, <1>4, <1>5, <1>6

LEMMA NextRuntimeInv == RuntimeInv /\ [RuntimeNext]_runtime => RuntimeInv'
<1> SUFFICES ASSUME RuntimeInv, [RuntimeNext]_runtime PROVE RuntimeInv'
  OBVIOUS
<1>1. CASE RuntimeNext
  BY <1>1, ProductionKeeps, BuildKeeps, ShellKeeps DEF RuntimeNext
<1>2. CASE UNCHANGED runtime
  BY <1>2 DEF runtime, install, production, RuntimeInv, OnlyTested, RuntimeTypeOK, OneTest, Locking,
     Testing, NoneMeanwhile, HeldOn, Numbered
<1> QED
  BY <1>1, <1>2

-----------------------------------------------------------------------------
(* The results about the model runtime.                                    *)

\* What serves, and what ready.json certifies, has answered a test, or was built
\* while a test or a start was under way (run_smoke(), validate_ready()).
THEOREM Tested == RuntimeSpec => []OnlyTested
<1>1. RuntimeInv => OnlyTested
  BY DEF RuntimeInv
<1> QED
  BY <1>1, InitRuntimeInv, NextRuntimeInv, PTL DEF RuntimeSpec

\* Between reading the marker and the end of its engine, the loop has been asked
\* to stop only by its own supervisor.
Unasked ==
    /\ outer \in {"off", "run", "asking", "killing"}
    /\ outer = "run" /\ inner \in {"spawn", "record", "serving"} => ~asked

\* The request of an earlier stop, still on disk, ends no engine (serve()).
THEOREM OwnStop == RuntimeSpec => OldStopIgnored
<1>1. RuntimeInit => Unasked
  BY DEF RuntimeInit, Unasked
<1>2. Unasked /\ [RuntimeNext]_runtime => Unasked'
  <2> SUFFICES ASSUME Unasked, [RuntimeNext]_runtime PROVE Unasked'
    OBVIOUS
  <2> USE DEF Unasked
  <2>1. CASE UNCHANGED <<outer, inner, asked>>
    BY <2>1
  <2>2. CASE Outer \/ Inner \/ InnerDies \/ Supervise \/ Reissue
    BY <2>2 DEF Outer, Halt, GiveUp, KillInner, OuterEnds, Inner, Validate, ReadMarker,
       Spawn, Record, LoopEnds, InnerEnds, InnerDies, Supervise, Reissue
  <2>3. UNCHANGED <<outer, inner, asked>> \/ Outer \/ Inner \/ InnerDies \/ Supervise \/ Reissue
    BY DEF RuntimeNext, runtime, production, InstallRest, BeginSetup, Build, WriteReceipt, BeginDownload,
       Download, BeginSmoke, Clear, Ask, Certify, SetupDies, Switch, EngineEnds, EngineDies
  <2> QED
    BY <2>1, <2>2, <2>3
<1>3. Unasked /\ [RuntimeNext]_runtime => [engine = "on" /\ engine' = "term" => outer # "run"]_runtime
  <2> SUFFICES ASSUME Unasked, RuntimeNext, engine = "on", engine' = "term" PROVE outer # "run"
    OBVIOUS
  <2>1. LoopEnds
    BY DEF RuntimeNext, InstallRest, production, BeginSetup, Build, WriteReceipt, BeginDownload, Download,
       BeginSmoke, Clear, Ask, Certify, SetupDies, Switch, Supervise, Reissue, Outer,
       Halt, GiveUp, KillInner, OuterEnds, Inner, Validate, ReadMarker, Spawn, Launch,
       Record, InnerEnds, InnerDies, EngineEnds, EngineDies
  <2> QED
    BY <2>1 DEF LoopEnds, Unasked
<1> QED
  BY <1>1, <1>2, <1>3, PTL DEF RuntimeSpec, OldStopIgnored
=============================================================================
