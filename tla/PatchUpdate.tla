----------------------------- MODULE PatchUpdate -----------------------------
(***************************************************************************)
(* Offline source updates of an installation that git does not keep:       *)
(* scripts/apply_life_update.py, and the three earlier scripts it grew out *)
(* of (apply_all_tasks, apply_speech and apply_context_update.py).  Each   *)
(* plans, backs up, replaces file after file, and undoes its own writes    *)
(* when one fails; a later command takes an update back from its backup.   *)
(***************************************************************************)
EXTENDS Integers, Sequences

CONSTANTS Sources,     \* the files of the package
          Version,     \* VERSION, one of them
          MaxEdits,    \* bound: edits by hand
          MaxUpdates   \* bound: backups made

ASSUME SourcesAssumption == Version \in Sources
ASSUME PatchBounds == MaxEdits \in Nat /\ MaxUpdates \in Nat \ {0}

VARIABLES
    script,    \* "life", or "earlier" for the other three
    file,      \* what each file holds; a file that is not there is Old as well
    step,      \* what the script does
    todo,      \* the files it has yet to treat
    skipped,   \* history: the file an interrupt kept out of `written`
    looked,    \* the file it compared and is about to replace
    receipts,  \* the backups: what was found, what was copied, how it ended
    using,     \* the backup it works with
    late,      \* history: files edited since the script looked at them
    edits      \* edits made so far

patch == <<script, file, step, todo, skipped, looked, receipts, using, late, edits>>

\* A text is a number: the baseline, the package's, or one written by hand.
Old == 0
New == 1
Texts == 0 .. MaxEdits + 1

PatchInit ==
    /\ script \in {"life", "earlier"}
    /\ file = [f \in Sources |-> Old]
    /\ step = "idle" /\ todo = {} /\ skipped = {} /\ looked = Version
    /\ receipts = <<>> /\ using = 0
    /\ late = {} /\ edits = 0

-----------------------------------------------------------------------------
(* An update.                                                              *)

Receipt == receipts[using]
Planned == DOMAIN Receipt.seen
Done    == Planned \ todo          \* the files this run has replaced

Recorded(state) == receipts' = [receipts EXCEPT ![using].state = state]

\* What the package has already brought is skipped; any text but the baseline
\* refuses the whole update.
Changes  == {f \in Sources : file[f] # New}
Known(f) == file[f] = Old

\* plan(): a new VERSION beside files that are not new is refused by the last
\* of the scripts only.
Plan ==
    /\ step = "idle" /\ Len(receipts) < MaxUpdates
    /\ Changes # {} /\ \A f \in Changes : Known(f)
    /\ script = "life" => Version \in Changes
    /\ todo' = Changes /\ late' = {}
    /\ step' = "save"
    /\ UNCHANGED <<script, file, skipped, looked, receipts, using, edits>>

\* The earlier scripts note what they had planned on, the last what it copies.
Noted(copied) == IF script = "life" THEN copied ELSE [f \in todo |-> Old]

\* Every file is copied before the first is replaced.
Save ==
    /\ step = "save"
    /\ LET copied == [f \in todo |-> file[f]] IN
       receipts' = Append(receipts,
                          [seen |-> Noted(copied), copy |-> copied, state |-> "installing"])
    /\ using' = Len(receipts) + 1
    /\ late' = late \ todo
    /\ step' = "write"
    /\ UNCHANGED <<script, file, todo, skipped, looked, edits>>

\* Mutant of Look: the file is not read again.
LookNot(f) ==
    /\ step = "write" /\ f \in todo
    /\ script = "life" /\ f = Version => todo = {Version}
    /\ looked' = f /\ late' = late \ {f}
    /\ step' = "replace"
    /\ UNCHANGED <<script, file, todo, skipped, receipts, using, edits>>

\* VERSION comes last in the last script; a file that is not as it was seen
\* ends the update (Fail).
Look(f) ==
    /\ step = "write" /\ f \in todo
    /\ script = "life" /\ f = Version => todo = {Version}
    /\ file[f] = Receipt.seen[f]
    /\ looked' = f /\ late' = late \ {f}
    /\ step' = "replace"
    /\ UNCHANGED <<script, file, todo, skipped, receipts, using, edits>>

\* atomic(): a whole new file takes the name ...
Replace ==
    /\ step = "replace"
    /\ file' = [file EXCEPT ![looked] = New]
    /\ late' = late \ {looked}
    /\ step' = "note"
    /\ UNCHANGED <<script, todo, skipped, looked, receipts, using, edits>>

\* ... and is noted as written, which is what an undo goes by.
Note ==
    /\ step = "note"
    /\ todo' = todo \ {looked}
    /\ step' = "write"
    /\ UNCHANGED <<script, file, skipped, looked, receipts, using, late, edits>>

Applied ==
    /\ step = "write" /\ todo = {}
    /\ Recorded("applied")
    /\ step' = "idle"
    /\ UNCHANGED <<script, file, todo, skipped, looked, using, late, edits>>

\* The last script undoes nothing if a file it has written is not as it wrote it.
MayUndo == script = "life" => \A f \in Done : file[f] = New

\* An unexpected text, a failing write, an interrupt, private settings that
\* have changed: what was noted as written is undone.
Fail ==
    /\ step \in {"write", "replace", "note"}
    /\ skipped' = IF step = "note" THEN {looked} ELSE {}
    /\ IF MayUndo
       THEN /\ step' = "undo" /\ todo' = Done
            /\ late' = IF script = "life" THEN late \ Done ELSE late
       ELSE step' = "idle" /\ UNCHANGED <<todo, late>>
    /\ UNCHANGED <<script, file, looked, receipts, using, edits>>

-----------------------------------------------------------------------------
(* The way back: from a failed update, or by --rollback.                   *)

\* Mutant of Unedited: an edited file does not stop it.
UneditedAnyway(r, f) == script \in {"life", "earlier"}

\* An update that broke off may have left a file as it was before, which only
\* the last script understands.
Unedited(r, f) ==
    \/ file[f] = New
    \/ script = "life" /\ r.state = "installing" /\ file[f] = r.seen[f]

\* An edited file, and a copy that is not what was noted, refuse everything.
Intact(r) ==
    /\ script = "life" => r.state # "rolled_back"
    /\ \A f \in DOMAIN r.seen : Unedited(r, f) /\ r.copy[f] = r.seen[f]

RollBack(b) ==
    /\ step = "idle"
    /\ b \in DOMAIN receipts /\ Intact(receipts[b])
    /\ using' = b /\ todo' = DOMAIN receipts[b].seen
    /\ late' = {} /\ skipped' = {}
    /\ step' = "restore"
    /\ UNCHANGED <<script, file, looked, receipts, edits>>

Restore(f) ==
    /\ step \in {"undo", "restore"} /\ f \in todo
    /\ file' = [file EXCEPT ![f] = Receipt.copy[f]]
    /\ todo' = todo \ {f} /\ late' = late \ {f}
    /\ UNCHANGED <<script, step, skipped, looked, receipts, using, edits>>

RolledBack ==
    /\ step \in {"undo", "restore"} /\ todo = {}
    /\ Recorded("rolled_back")
    /\ step' = "idle"
    /\ UNCHANGED <<script, file, todo, skipped, looked, using, late, edits>>

\* The process is killed, the power fails, a file cannot be written back, or
\* private settings have changed during a rollback: the receipt stays as it is.
BreaksOff ==
    /\ step # "idle"
    /\ step' = "idle"
    /\ UNCHANGED <<script, file, todo, skipped, looked, receipts, using, late, edits>>

\* The operator edits a file, or puts the baseline back.
Edit(f) ==
    /\ edits < MaxEdits
    /\ edits' = edits + 1
    /\ \E text \in {Old, edits + 2} \ {file[f]} : file' = [file EXCEPT ![f] = text]
    /\ late' = IF step = "idle" THEN late ELSE late \cup {f}
    /\ UNCHANGED <<script, step, todo, skipped, looked, receipts, using>>

PatchNext ==
    \/ Plan \/ Save \/ Replace \/ Note \/ Applied \/ Fail \/ RolledBack \/ BreaksOff
    \/ \E f \in Sources : Look(f) \/ Restore(f) \/ Edit(f)
    \/ \E b \in 1 .. MaxUpdates : RollBack(b)

PatchSpec == PatchInit /\ [][PatchNext]_patch

-----------------------------------------------------------------------------
(* Properties.                                                             *)

PatchTypeOK ==
    /\ script \in {"life", "earlier"}
    /\ file \in [Sources -> Texts]
    /\ step \in {"idle", "save", "write", "replace", "note", "undo", "restore"}
    /\ {todo, late, skipped} \subseteq SUBSET Sources /\ looked \in Sources
    /\ using \in 0 .. Len(receipts) /\ Len(receipts) <= MaxUpdates
    /\ edits \in 0 .. MaxEdits

\* A script takes away only what the package or a backup still has: no text
\* written by hand is lost but one that came after it last looked at the file.
\* The earlier scripts, which copy later than they plan, may hold an edit that
\* was taken back meanwhile in place of the baseline.
Kept(b, f, text) == f \in DOMAIN receipts[b].copy /\ receipts[b].copy[f] = text
Miscopied(f) == script = "earlier" /\ f \in Planned /\ Receipt.copy[f] # Receipt.seen[f]
Held(f, text) ==
    \/ text = New
    \/ \E b \in DOMAIN receipts : Kept(b, f, text)
    \/ text = Old /\ Miscopied(f)
NothingOverwritten ==
    \A f \in Sources :
        edits' = edits /\ file'[f] # file[f] => Held(f, file[f]) \/ f \in late

\* What a receipt says is so, but for edits meanwhile: "applied" that every
\* file of the update is new, "rolled_back" that each is as it was found or
\* copied, except the one file whose replacement an interrupt caught before it
\* was noted; and a new VERSION, where it comes last, that every file is new.
ReceiptsTrue ==
    /\ step = "write" /\ step' = "idle" /\ receipts' # receipts =>
          \A f \in Planned : file[f] = New \/ f \in late
    /\ step \in {"undo", "restore"} /\ step' = "idle" /\ receipts' # receipts =>
          \A f \in Planned :
              file[f] \in {Receipt.copy[f], Receipt.seen[f]} \/ f \in late \cup skipped
    /\ script = "life" /\ step = "replace" /\ file'[Version] # file[Version] /\ edits' = edits =>
          \A f \in Sources \ {Version} : file[f] = New \/ f \in late

PatchesSafely == []PatchTypeOK /\ [][NothingOverwritten /\ ReceiptsTrue]_patch
=============================================================================
