--------------------------- MODULE WidgetRegistry ---------------------------
(***************************************************************************)
(* WidgetRegistry.execute with the adapters for notes and tasks behind it, *)
(* and the screens that edit the same rows without it.  The registry keeps *)
(* one mutation lock and, for the life of the process, one receipt per key;*)
(* adapters work in threads that outlive a cancelled caller, and creations *)
(* leave a receipt in the database as well.                                *)
(***************************************************************************)
EXTENDS Integers, FiniteSets, Sequences

CONSTANTS Calls,        \* calls of execute(); each is made at most once
          Keys,         \* (principal, idempotency_key or request_id)
          Requests,     \* the requests made: key, operation, and whether a person confirmed it
          Screens,      \* browsers that use the ordinary routes
          MaxReceipts,  \* max_receipts
          MaxVersion,   \* bound: no edit is begun at this version
          MaxRestarts,  \* bound: restarts of the process
          None          \* no call, no receipt, nothing shown

Note  == "note"
Tasks == {"monday", "tuesday"}      \* the occurrences of one series
Items == {Note} \cup Tasks
Date(i) == IF i = "monday" THEN 1 ELSE 2

Ops == [kind : {"append"}, item : {Note}, version : 1 .. MaxVersion]
       \cup [kind : {"complete", "reopen", "delete"}, item : Tasks,
             version : 1 .. MaxVersion]
       \cup {[kind |-> "add"], [kind |-> "create"]}

ASSUME BoundsAssumption ==
    /\ MaxReceipts \in Nat \ {0}
    /\ MaxVersion \in Nat \ {0}
    /\ MaxRestarts \in Nat
ASSUME RequestsAssumption == Requests \subseteq [key : Keys, op : Ops, confirmed : BOOLEAN]
Entries == [op : Ops, outcome : {"success", "uncertain"}]
ASSUME NoneAssumption == None \notin Calls \cup Keys /\ None \notin Entries /\ None # "create"

VARIABLES
    item,      \* the rows: live, version, done, and which edits the text holds
    series,    \* the row of the series
    added,     \* how many task series each key has inserted
    created,   \* how many notes each key has inserted
    durable,   \* hub_life_receipts: the operation recorded for a key
    receipts,  \* WidgetRegistry._receipts
    lock,      \* the call that holds WidgetRegistry._lock
    queue,     \* the calls that wait for it
    call,      \* each call: where it stands, its key, operation and reply
    seen,      \* the item as a screen last loaded it
    epoch      \* number of restarts

vars == <<item, series, added, created, durable, receipts, lock, queue, call,
          seen, epoch>>
rows == <<item, series, added, created, durable>>
gate == <<receipts, lock, queue>>

Inside == {"read", "write", "announce"}     \* awaits under the lock
Places == {"new", "ready", "wait", "orphan", "done", "lost"} \cup Inside

Rows == [live : BOOLEAN, version : 1 .. MaxVersion, done : BOOLEAN,
         text : SUBSET (1 .. MaxVersion)]
Blank == [at |-> "new", key |-> None, op |-> None, base |-> {},
          reply |-> "none", effect |-> "none", epoch |-> 0, confirmed |-> FALSE]

Init ==
    /\ item = [i \in Items |-> [live |-> TRUE, version |-> 1, done |-> FALSE,
                                text |-> {1}]]
    /\ series = TRUE
    /\ added = [k \in Keys |-> 0]
    /\ created = [k \in Keys |-> 0]
    /\ durable = [k \in Keys |-> None]
    /\ receipts = [k \in Keys |-> None]
    /\ lock = None
    /\ queue = <<>>
    /\ call = [c \in Calls |-> Blank]
    /\ seen = [s \in Screens |-> None]
    /\ epoch = 0

-----------------------------------------------------------------------------
(* Rows.                                                                   *)

Current(i, v) == item[i].live /\ item[i].version = v

\* A full update writes the text its author has seen, with the edit in it.
Updated(i, base) ==
    [item EXCEPT ![i].version = @ + 1, ![i].text = base \cup {item[i].version + 1}]

\* Completion touches no other column.
Completed(i, want) ==
    [item EXCEPT ![i].version = @ + 1, ![i].done = want,
                 ![i].text = @ \cup {item[i].version + 1}]

Without(gone) ==
    [i \in Items |-> IF i \in gone THEN [item[i] EXCEPT !.live = FALSE] ELSE item[i]]

\* Every deletion of tasks ends by deleting the series that have none left.
RemoveTasks(gone) ==
    /\ item' = Without(gone)
    /\ series' = (series /\ \E t \in Tasks \ gone : item[t].live)

InScope(i, scope) ==
    CASE scope = "one"    -> {i}
      [] scope = "future" -> {t \in Tasks : Date(t) >= Date(i)}
      [] scope = "series" -> Tasks

-----------------------------------------------------------------------------
(* The gate: lock and receipts.                                            *)

\* A client sends a request, and a repeated one has the same key.  Only the
\* widget bridge, once a person has confirmed this very request, hands over
\* its digest; the HTTP route has none to give.
Submit(c, r) ==
    /\ call[c].at = "new"
    /\ r.op.kind \notin {"add", "create"} =>
          /\ r.op.version <= item[r.op.item].version
          /\ r.op.version < MaxVersion
    /\ call' = [call EXCEPT ![c] = [@ EXCEPT !.at = "ready", !.key = r.key,
                                             !.op = r.op, !.epoch = epoch,
                                             !.confirmed = r.confirmed]]
    /\ UNCHANGED <<rows, gate, seen, epoch>>

Replied(c, reply) ==
    [call EXCEPT ![c] = [@ EXCEPT !.at = "done", !.reply = reply, !.base = {}]]

\* Too large, not of the schema, an unknown widget or action, bad arguments.
Refuse(c) ==
    /\ call[c].at = "ready"
    /\ call' = [Replied(c, "refused") EXCEPT ![c].confirmed = FALSE]
    /\ UNCHANGED <<rows, gate, seen, epoch>>

\* Mutant of Authorized: the administrator's role is enough to write.
AuthorizedByRole(c) == call[c].at = "ready"

\* authorize(): every write needs the confirmation of its own digest.
Authorized(c) == call[c].at = "ready" /\ call[c].confirmed

Unauthorized(c) ==
    /\ call[c].at = "ready" /\ ~Authorized(c)
    /\ call' = Replied(c, "refused")
    /\ UNCHANGED <<rows, gate, seen, epoch>>

Wait(c) ==
    /\ Authorized(c)
    /\ lock # None \/ queue # <<>>
    /\ call' = [call EXCEPT ![c].at = "wait"]
    /\ queue' = Append(queue, c)
    /\ UNCHANGED <<rows, receipts, lock, seen, epoch>>

\* acquire() returns: at once, or to the longest waiting call.
Takes(c) ==
    /\ lock = None
    /\ \/ Authorized(c) /\ queue = <<>> /\ queue' = queue
       \/ call[c].at = "wait" /\ Head(queue) = c /\ queue' = Tail(queue)

Old(c) == receipts[call[c].key]
Full == Cardinality({k \in Keys : receipts[k] # None}) >= MaxReceipts

\* The receipt answers: the same result again, or a conflict of contents.
Duplicate(c) ==
    /\ Takes(c)
    /\ Old(c) # None
    /\ call' = IF Old(c).op = call[c].op THEN Replied(c, Old(c).outcome)
                                         ELSE Replied(c, "refused")
    /\ UNCHANGED <<rows, receipts, lock, seen, epoch>>

NoCapacity(c) ==
    /\ Takes(c)
    /\ Old(c) = None /\ Full
    /\ call' = Replied(c, "refused")
    /\ UNCHANGED <<rows, receipts, lock, seen, epoch>>

Admitted(c) == Takes(c) /\ Old(c) = None /\ ~Full

Record(c, outcome) ==
    receipts' = [receipts EXCEPT ![call[c].key] = [op |-> call[c].op,
                                                   outcome |-> outcome]]

\* A receipt that answers every repetition with "look for yourself".
Unknown(c) == Record(c, "uncertain")

\* The task handlers commit before their first await, which is the broadcast.
Made(c) == [call EXCEPT ![c] = [@ EXCEPT !.at = "announce", !.effect = "made"]]

AddTask(c) ==
    /\ Admitted(c)
    /\ call[c].op.kind = "add"
    /\ added' = [added EXCEPT ![call[c].key] = @ + 1]
    /\ lock' = c
    /\ call' = Made(c)
    /\ UNCHANGED <<item, series, created, durable, receipts, seen, epoch>>

CompleteTask(c) ==
    /\ Admitted(c)
    /\ LET o == call[c].op IN
         /\ o.kind \in {"complete", "reopen"}
         /\ Current(o.item, o.version)
         /\ item[o.item].done # (o.kind = "complete")
         /\ item' = Completed(o.item, o.kind = "complete")
    /\ lock' = c
    /\ call' = Made(c)
    /\ UNCHANGED <<series, added, created, durable, receipts, seen, epoch>>

DeleteTask(c) ==
    /\ Admitted(c)
    /\ call[c].op.kind = "delete"
    /\ Current(call[c].op.item, call[c].op.version)
    /\ RemoveTasks({call[c].op.item})
    /\ lock' = c
    /\ call' = Made(c)
    /\ UNCHANGED <<added, created, durable, receipts, seen, epoch>>

\* 404 or 409 of a task handler.
TaskRefused(c) ==
    /\ Admitted(c)
    /\ call[c].op.kind \in {"complete", "reopen", "delete"}
    /\ ~Current(call[c].op.item, call[c].op.version)
    /\ call' = Replied(c, "refused")
    /\ UNCHANGED <<rows, receipts, lock, seen, epoch>>

\* The task already is as wanted: a success without a change, announced to nobody.
TaskAsWanted(c) ==
    /\ Admitted(c)
    /\ LET o == call[c].op IN
         /\ o.kind \in {"complete", "reopen"}
         /\ Current(o.item, o.version)
         /\ item[o.item].done = (o.kind = "complete")
    /\ Record(c, "success")
    /\ call' = Replied(c, "success")
    /\ UNCHANGED <<rows, lock, seen, epoch>>

\* The memo adapter hands its first piece of work to a thread.
StartMemo(c) ==
    /\ Admitted(c)
    /\ call[c].op.kind \in {"append", "create"}
    /\ lock' = c
    /\ call' = [call EXCEPT ![c].at = IF call[c].op.kind = "append" THEN "read"
                                                                    ELSE "write"]
    /\ UNCHANGED <<rows, receipts, seen, epoch>>

\* An HTTPException or ProtocolFault from the adapter leaves no receipt.
Rejected(c) ==
    /\ call' = Replied(c, "refused")
    /\ lock' = None
    /\ UNCHANGED <<rows, receipts>>

MemoRead(c) ==
    /\ call[c].at = "read"
    /\ \/ /\ Current(Note, call[c].op.version)
          /\ call' = [call EXCEPT ![c] = [@ EXCEPT !.at = "write",
                                                   !.base = item[Note].text]]
          /\ UNCHANGED <<rows, receipts, lock>>
       \/ ~Current(Note, call[c].op.version) /\ Rejected(c)
    /\ UNCHANGED <<queue, seen, epoch>>

\* Mutant of NoteCommit: the second transaction relies on the first.
NoteCommitUnchecked(c) ==
    /\ call[c].op.kind = "append"
    /\ item' = Updated(Note, call[c].base)
    /\ UNCHANGED <<series, added, created, durable>>

\* update_note(): the transaction of the second thread, which checks again.
NoteCommit(c) ==
    /\ call[c].op.kind = "append"
    /\ Current(Note, call[c].op.version)
    /\ item' = Updated(Note, call[c].base)
    /\ UNCHANGED <<series, added, created, durable>>

\* Mutant of CreateCommit: only the registry remembers the key.
CreateCommitAgain(c) ==
    /\ call[c].op.kind = "create"
    /\ created' = [created EXCEPT ![call[c].key] = @ + 1]
    /\ UNCHANGED <<item, series, added, durable>>

\* create_note() with its receipt in the same transaction.
CreateCommit(c) ==
    /\ call[c].op.kind = "create"
    /\ durable[call[c].key] = None
    /\ created' = [created EXCEPT ![call[c].key] = @ + 1]
    /\ durable' = [durable EXCEPT ![call[c].key] = "create"]
    /\ UNCHANGED <<item, series, added>>

MemoWrite(c) ==
    /\ call[c].at = "write"
    /\ NoteCommit(c) \/ CreateCommit(c)
    /\ call' = Made(c)
    /\ UNCHANGED <<gate, seen, epoch>>

\* The note was changed or deleted between the two threads.
MemoStale(c) ==
    /\ call[c].at = "write"
    /\ call[c].op.kind = "append"
    /\ ~Current(Note, call[c].op.version)
    /\ Rejected(c)
    /\ UNCHANGED <<queue, seen, epoch>>

\* The note exists since before a restart: a success, announced to nobody.
MemoDuplicate(c) ==
    /\ call[c].at = "write"
    /\ call[c].op.kind = "create" /\ durable[call[c].key] # None
    /\ Record(c, "success")
    /\ lock' = None
    /\ call' = Replied(c, "success")
    /\ UNCHANGED <<rows, queue, seen, epoch>>

Succeed(c) ==
    /\ call[c].at = "announce"
    /\ Record(c, "success")
    /\ lock' = None
    /\ call' = Replied(c, "success")
    /\ UNCHANGED <<rows, queue, seen, epoch>>

\* Mutant of Uncertain: every failure is answered as a refusal.
UncertainRefused(c) ==
    /\ call[c].at \in Inside
    /\ lock' = None
    /\ call' = Replied(c, "refused")
    /\ UNCHANGED <<rows, receipts, queue, seen, epoch>>

\* Any other exception: of the store, of the broadcast, of the output check.
Uncertain(c) ==
    /\ call[c].at \in Inside
    /\ Unknown(c)
    /\ lock' = None
    /\ call' = Replied(c, "uncertain")
    /\ UNCHANGED <<rows, queue, seen, epoch>>

\* Mutant of Cancel: a cancelled call leaves no receipt.
CancelUnrecorded(c) ==
    /\ call[c].at \in Inside
    /\ lock' = None
    /\ call' = [call EXCEPT ![c] = [@ EXCEPT !.reply = "cancelled",
                  !.at = IF call[c].at = "write" THEN "orphan" ELSE "done"]]
    /\ UNCHANGED <<rows, receipts, queue, seen, epoch>>

\* Mutant of Cancel: a cancelled call keeps the lock.
CancelHolds(c) ==
    /\ call[c].at \in Inside
    /\ Unknown(c)
    /\ call' = [call EXCEPT ![c] = [@ EXCEPT !.reply = "cancelled",
                  !.at = IF call[c].at = "write" THEN "orphan" ELSE "done"]]
    /\ UNCHANGED <<rows, lock, queue, seen, epoch>>

\* Cancellation under the lock; a thread that is in its transaction goes on.
Cancel(c) ==
    /\ call[c].at \in Inside
    /\ Unknown(c)
    /\ lock' = None
    /\ call' = [call EXCEPT ![c] = [@ EXCEPT !.reply = "cancelled",
                  !.at = IF call[c].at = "write" THEN "orphan" ELSE "done"]]
    /\ UNCHANGED <<rows, queue, seen, epoch>>

CancelWaiting(c) ==
    /\ call[c].at = "wait"
    /\ queue' = SelectSeq(queue, LAMBDA x : x # c)
    /\ call' = Replied(c, "cancelled")
    /\ UNCHANGED <<rows, receipts, lock, seen, epoch>>

Orphan(c) ==
    /\ call[c].at = "orphan"
    /\ \/ /\ NoteCommit(c) \/ CreateCommit(c)
          /\ call' = [Replied(c, "cancelled") EXCEPT ![c].effect = "made"]
       \/ /\ call' = Replied(c, "cancelled")
          /\ UNCHANGED rows
    /\ UNCHANGED <<gate, seen, epoch>>

\* The process ends, and its locks, receipts, calls and threads with it.
Restart ==
    /\ epoch < MaxRestarts
    /\ epoch' = epoch + 1
    /\ receipts' = [k \in Keys |-> None]
    /\ lock' = None
    /\ queue' = <<>>
    /\ call' = [c \in Calls |-> IF call[c].at \in {"new", "done"} THEN call[c]
                                ELSE [call[c] EXCEPT !.at = "lost"]]
    /\ UNCHANGED <<rows, seen>>

-----------------------------------------------------------------------------
(* Screens: the ordinary routes, one transaction each.                     *)

View(s, i) ==
    /\ item[i].live /\ item[i].version < MaxVersion
    /\ seen' = [seen EXCEPT ![s] = [id |-> i, row |-> item[i]]]
    /\ UNCHANGED <<rows, gate, call, epoch>>

Shown(s) == seen[s] # None /\ seen' = [seen EXCEPT ![s] = None]

\* PUT of a note, PATCH of a task: refused unless the version is the one shown.
Save(s) ==
    /\ Shown(s)
    /\ LET v == seen[s] IN
         IF Current(v.id, v.row.version) THEN item' = Updated(v.id, v.row.text)
                                         ELSE item' = item
    /\ UNCHANGED <<series, added, created, durable, gate, call, epoch>>

\* PATCH .../completion with the value the screen wants.
Toggle(s) ==
    /\ Shown(s)
    /\ seen[s].id \in Tasks
    /\ LET v == seen[s] IN
         IF Current(v.id, v.row.version) THEN item' = Completed(v.id, ~v.row.done)
                                         ELSE item' = item
    /\ UNCHANGED <<series, added, created, durable, gate, call, epoch>>

\* DELETE of a task with its scope, or of a note.
Delete(s, scope) ==
    /\ Shown(s)
    /\ LET v == seen[s] IN
         \/ ~Current(v.id, v.row.version) /\ UNCHANGED <<item, series>>
         \/ /\ Current(v.id, v.row.version)
            /\ v.id = Note
            /\ item' = Without({Note}) /\ UNCHANGED series
         \/ /\ Current(v.id, v.row.version)
            /\ v.id \in Tasks
            /\ RemoveTasks(InScope(v.id, scope))
    /\ UNCHANGED <<added, created, durable, gate, call, epoch>>

-----------------------------------------------------------------------------
ByScreen == \E s \in Screens :
    \/ \E i \in Items : View(s, i)
    \/ Save(s)
    \/ Toggle(s)
    \/ \E scope \in {"one", "future", "series"} : Delete(s, scope)

\* What the event loop and the threads do with a call by themselves.
Step(c) ==
    \/ Unauthorized(c) \/ Wait(c) \/ Duplicate(c) \/ NoCapacity(c)
    \/ AddTask(c) \/ CompleteTask(c) \/ DeleteTask(c)
    \/ TaskRefused(c) \/ TaskAsWanted(c)
    \/ StartMemo(c) \/ MemoRead(c) \/ MemoWrite(c) \/ MemoStale(c)
    \/ MemoDuplicate(c) \/ Succeed(c) \/ Orphan(c)

Next ==
    \/ \E c \in Calls :
         \/ \E r \in Requests : Submit(c, r)
         \/ Refuse(c)
         \/ Step(c)
         \/ Uncertain(c)
         \/ Cancel(c)
         \/ CancelWaiting(c)
    \/ ByScreen
    \/ Restart

Spec == Init /\ [][Next]_vars

\* The event loop and the thread pool run what is ready.
FairSpec == Spec /\ \A c \in Calls : WF_vars(Step(c))

-----------------------------------------------------------------------------
TypeOK ==
    /\ item \in [Items -> Rows]
    /\ series \in BOOLEAN
    /\ added \in [Keys -> Nat] /\ created \in [Keys -> Nat]
    /\ durable \in [Keys -> {"create", None}]
    /\ lock \in Calls \cup {None}
    /\ \A c \in Calls : call[c].at \in Places
    /\ epoch \in 0 .. MaxRestarts

\* No edit is overwritten by someone who has not seen it: a row's text holds
\* every edit that was accepted, whichever way it came (adapter thread, screen,
\* orphaned thread), and the series row lives exactly as long as a task of it.
NoLostEdit ==
    /\ TypeOK
    /\ \A i \in Items : item[i].live => item[i].text = 1 .. item[i].version
    /\ series <=> \E t \in Tasks : item[t].live

\* Within one process a key changes something at most once, whatever is
\* repeated, cancelled, refused for capacity, or left uncertain.
OncePerProcess ==
    \A c, d \in Calls :
        /\ c # d /\ call[c].key = call[d].key /\ call[c].epoch = call[d].epoch
        /\ call[c].effect = "made"
        => call[d].effect # "made"

\* A success names a change that is there, made by this call, by an earlier one
\* with its key, or before a restart; a refusal has changed nothing.  Only
\* "uncertain" and a cancelled call leave it open.  What was changed, by a
\* thread without a caller too, was confirmed.
ReplyIsTrue ==
    \A c \in Calls :
        LET o == call[c].op IN
        /\ call[c].reply = "refused" => call[c].effect = "none"
        /\ call[c].effect = "made" => call[c].confirmed
        /\ call[c].reply = "success" =>
             CASE o.kind = "add"    -> added[call[c].key] > 0
               [] o.kind = "create" -> created[call[c].key] > 0
               [] o.kind = "delete" -> ~item[o.item].live
               [] OTHER -> \/ ~item[o.item].live
                           \/ item[o.item].version > o.version
                           \/ o.kind # "append" /\ item[o.item].done = (o.kind = "complete")

\* A key inserts one note for ever: the receipt in the database outlives the
\* receipts of the process.
CreatedOnce == \A k \in Keys : created[k] <= 1

\* However often a request is repeated, it changes something once.
ChangedOnce == OncePerProcess /\ CreatedOnce

\* Every call that waits for the lock, or works under it, ends: each way out of
\* execute(), cancellation included, gives the lock back.
EveryCallEnds ==
    \A c \in Calls : call[c].at \in {"wait", "orphan"} \cup Inside
                     ~> call[c].at \in {"done", "lost"}
=============================================================================
