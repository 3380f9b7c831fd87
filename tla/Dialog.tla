------------------------------- MODULE Dialog -------------------------------
(***************************************************************************)
(* Questions of the server about a missing value and the answers to them.  *)
(* A request that lacks values carries a dialog state; an answer inserts a *)
(* child request whose state holds the whole proof (root and every answer  *)
(* so far) and marks the parent continued.  A complete proof is staged and *)
(* waits for a confirmation.  dialog_service.reply() runs from the check to*)
(* the insertion without an await, so it is one action here.               *)
(***************************************************************************)
EXTENDS Integers, Sequences, FiniteSets

CONSTANTS MaxRequests,  \* bound: rows ever inserted
          MaxRoots,     \* bound: the first rows, which may be new requests
          Owners,       \* authenticated manager sessions
          MaxMissing,   \* most required values a root can lack
          MaxTurns,     \* MAX_TURNS
          TTL,          \* TTL_SECONDS, in units of the clock
          Fresh,        \* seconds a proposal may be confirmed after its root
          MaxTime,      \* bound: last moment of the clock
          Nothing

ASSUME DialogBounds ==
    /\ MaxRequests \in Nat \ {0} /\ MaxRoots \in 1 .. MaxRequests
    /\ MaxMissing \in Nat \ {0}
    /\ MaxTurns \in Nat \ {0}
    /\ TTL \in Nat /\ Fresh \in Nat /\ MaxTime \in Nat
ASSUME NothingAssumption == Nothing \notin Owners /\ Nothing \notin Nat

VARIABLES
    row,     \* llm_requests: the inserted rows, deleted ones as Nothing
    state,   \* assistant_runs.dialog_state of each row
    clock,   \* the wall clock, which may be set back
    zone,    \* settings.timezone
    draft,   \* the question a session has on its screen, as it was loaded
    history  \* the requests whose change was made

dialog == <<row, state, clock, zone, draft, history>>

Zones == {1, 2}
Replies == {"value", "cancel", "other"}    \* what decode_reply() finds in a reply
Ids == 1 .. Len(row)
Recorded == {r \in Ids : row[r] # Nothing}
Lost == Nothing

-----------------------------------------------------------------------------
(* The proof: a root and the answers, each with its text and its time.     *)

Filled(steps)  == {i \in DOMAIN steps : steps[i].text = "value"}
Missing(proof) == proof.lacks - Cardinality(Filled(proof.steps))

\* replay(): the phase is recomputed from the raw turns.
Phase(proof) ==
    IF \E i \in DOMAIN proof.steps : proof.steps[i].text = "cancel" THEN "cancelled"
    ELSE IF Missing(proof) = 0 THEN "complete"
    ELSE IF Len(proof.steps) >= MaxTurns THEN "exhausted" ELSE "pending"

StateFrom(proof, owner) ==
    [proof |-> proof, owner |-> owner, phase |-> Phase(proof), next |-> Nothing]

InTime(proof, now) == now >= proof.at /\ now - proof.at <= TTL

\* Turns in order of time, each inside the time to live of the root.
Ordered(proof) ==
    \A i \in DOMAIN proof.steps :
        /\ InTime(proof, proof.steps[i].at)
        /\ i > 1 => proof.steps[i].at >= proof.steps[i - 1].at

Turns(proof) == <<proof.root>> \o [i \in DOMAIN proof.steps |-> proof.steps[i].id]

\* verify_sources(): every turn is still there, linked to the one before it.
Sourced(proof) ==
    LET t == Turns(proof) IN
    \A i \in DOMAIN t : /\ t[i] \in Recorded
                        /\ i > 1 => row[t[i]].parent = t[i - 1]

DialogInit ==
    /\ row = <<>> /\ state = <<>>
    /\ clock = 0 /\ zone = 1
    /\ draft = [o \in Owners |-> Nothing]
    /\ history = {}

-----------------------------------------------------------------------------
(* The server.                                                             *)

\* A request lacks `lacks` values: its fast path ended with a question.  One
\* that came by voice belongs to nobody yet.
Ask(owner, lacks) ==
    /\ Len(row) < MaxRoots
    /\ LET r == Len(row) + 1
           proof == [root |-> r, at |-> clock, zone |-> zone, lacks |-> lacks,
                     steps |-> <<>>] IN
         /\ row' = Append(row, [status |-> "needs_clarification",
                                parent |-> Nothing, by |-> owner])
         /\ state' = Append(state, StateFrom(proof, owner))
    /\ UNCHANGED <<clock, zone, draft, history>>

\* A manager opens a question; its state goes back with the answer, as a hash.
Compose(o, p) ==
    /\ p \in Recorded
    /\ state[p].phase = "pending"
    /\ draft' = [draft EXCEPT ![o] = [to |-> p, shown |-> state[p]]]
    /\ UNCHANGED <<row, state, clock, zone, history>>

\* Mutant of MayContinue: the state is compared with nothing.
MayContinueAny(o) ==
    LET d == draft[o]  s == state[d.to] IN
    /\ d.to \in Recorded
    /\ s.owner \in {Nothing, o}
    /\ zone = s.proof.zone
    /\ InTime(s.proof, clock)

\* The guards of reply() and check_pending().
MayContinue(o) ==
    LET d == draft[o]  s == state[d.to] IN
    /\ d.to \in Recorded
    /\ s.owner \in {Nothing, o}
    /\ s = d.shown
    /\ s.phase = "pending"
    /\ zone = s.proof.zone
    /\ InTime(s.proof, clock)
    /\ row[d.to].status = "needs_clarification"

Extended(proof, text) ==
    [proof EXCEPT !.steps = Append(@, [id |-> Len(row) + 1, text |-> text, at |-> clock])]

\* reply(): insert the child, bind the dialog to its owner, consume the parent.
\* The draft stays: the response can be lost and the answer sent again.  Sent
\* with the same key it is answered from the row it made, which changes nothing.
Reply(o, text) ==
    /\ draft[o] # Nothing
    /\ Len(row) < MaxRequests
    /\ MayContinue(o)
    /\ LET d == draft[o]
           child == Len(row) + 1
           proof == Extended(state[d.to].proof, text)
           next == StateFrom(proof, o) IN
         /\ Ordered(proof)
         /\ Sourced(state[d.to].proof)
         /\ row' = Append(row,
                [status |-> CASE next.phase = "complete"  -> "running"
                              [] next.phase = "cancelled" -> "cancelled"
                              [] OTHER -> "needs_clarification",
                 parent |-> d.to, by |-> o])
         /\ state' = Append([state EXCEPT ![d.to] =
                                [@ EXCEPT !.owner = o, !.phase = "continued",
                                          !.next = child]], next)
    /\ UNCHANGED <<clock, zone, draft, history>>

\* The manager gets a result or gives up.
Forget(o) ==
    /\ draft[o] # Nothing
    /\ draft' = [draft EXCEPT ![o] = Nothing]
    /\ UNCHANGED <<row, state, clock, zone, history>>

SetStatus(r, s) == row' = [row EXCEPT ![r].status = s]

\* Mutant of Stage: sources that are gone end the coroutine without a result.
StageSilent(r) ==
    /\ r \in Recorded /\ row[r].status = "running"
    /\ Sourced(state[r].proof) /\ zone = state[r].proof.zone
    /\ \E s \in {"awaiting_confirmation", "succeeded", "needs_clarification"} :
          SetStatus(r, s)
    /\ UNCHANGED <<state, clock, zone, draft, history>>

\* The fast path after a complete proof, in the coroutine of the answer: it
\* verifies the sources again, then reads, or shows a preview, or asks anew.
Stage(r) ==
    /\ r \in Recorded /\ row[r].status = "running"
    /\ \/ /\ Sourced(state[r].proof) /\ zone = state[r].proof.zone
          /\ \E s \in {"awaiting_confirmation", "succeeded", "needs_clarification"} :
                SetStatus(r, s)
       \/ SetStatus(r, "needs_clarification")
       \/ SetStatus(r, "failed")
    /\ UNCHANGED <<state, clock, zone, draft, history>>

\* Mutant of ConfirmProposal: the sources are not verified again.
ConfirmUnsourced(r) ==
    /\ r \in Recorded /\ row[r].status = "awaiting_confirmation"
    /\ state[r].phase = "complete"
    /\ SetStatus(r, "succeeded")
    /\ history' = history \cup {r}
    /\ UNCHANGED <<state, clock, zone, draft>>

\* WidgetBridge.confirm() of a proposal that rests on a dialog: the sources
\* are verified in the transaction that reserves the change.
ConfirmProposal(r) ==
    /\ r \in Recorded /\ row[r].status = "awaiting_confirmation"
    /\ zone = state[r].proof.zone
    /\ clock >= state[r].proof.at - Fresh /\ clock - state[r].proof.at <= Fresh
    /\ state[r].phase = "complete"
    /\ Sourced(state[r].proof)
    /\ SetStatus(r, "succeeded")
    /\ history' = history \cup {r}
    /\ UNCHANGED <<state, clock, zone, draft>>

\* LLMHub.cancel(): a dialog that is being staged is not cancelled.
CancelRequest(r) ==
    /\ r \in Recorded /\ row[r].status = "awaiting_confirmation"
    /\ SetStatus(r, "cancelled")
    /\ UNCHANGED <<state, clock, zone, draft, history>>

\* LLMHub.delete(): the record and its dialog state go with the row.
DeleteRequest(r) ==
    /\ r \in Recorded /\ row[r].status # "running"
    /\ row' = [row EXCEPT ![r] = Nothing]
    /\ state' = [state EXCEPT ![r] = Lost]
    /\ UNCHANGED <<clock, zone, draft, history>>

\* LLMHub.start() after a kill.
HubRestarts ==
    /\ \E r \in Recorded : row[r].status = "running"
    /\ row' = [r \in Ids |->
          IF r \in Recorded /\ row[r].status = "running"
          THEN [row[r] EXCEPT !.status = "interrupted"] ELSE row[r]]
    /\ UNCHANGED <<state, clock, zone, draft, history>>

Tick ==
    /\ clock < MaxTime
    /\ clock' = clock + 1
    /\ UNCHANGED <<row, state, zone, draft, history>>

SetBack ==
    /\ clock > 0
    /\ clock' = clock - 1
    /\ UNCHANGED <<row, state, zone, draft, history>>

SetZone ==
    /\ zone' \in Zones \ {zone}
    /\ UNCHANGED <<row, state, clock, draft, history>>

DialogNext ==
    \/ \E o \in Owners :
         \/ \E lacks \in 1 .. MaxMissing : Ask(o, lacks)
         \/ \E p \in Ids : Compose(o, p)
         \/ \E text \in Replies : Reply(o, text)
         \/ Forget(o)
    \/ \E lacks \in 1 .. MaxMissing : Ask(Nothing, lacks)
    \/ \E r \in Ids : \/ Stage(r) \/ ConfirmProposal(r)
                      \/ CancelRequest(r) \/ DeleteRequest(r)
    \/ HubRestarts
    \/ Tick \/ SetBack \/ SetZone

DialogSpec == DialogInit /\ [][DialogNext]_dialog

\* The coroutine that answers goes on to stage what it inserted.
DialogFairSpec ==
    DialogSpec /\ \A r \in 1 .. MaxRequests : WF_dialog(r \in Ids /\ Stage(r))

-----------------------------------------------------------------------------
DialogTypeOK ==
    /\ Len(row) <= MaxRequests /\ Len(state) = Len(row)
    /\ \A r \in Recorded :
          /\ row[r].parent \in 1 .. r - 1 \cup {Nothing}
          /\ {row[r].by, state[r].owner} \subseteq Owners \cup {Nothing}
          /\ state[r].phase \in {"pending", "complete", "cancelled", "exhausted", "continued"}
    /\ clock \in 0 .. MaxTime /\ zone \in Zones /\ history \subseteq Ids

\* A question is answered once: of two answers to it, from one session or two,
\* repeated or not, one inserts the child and the parent names that child; the
\* chain stays in the hands of one session and ends at MaxTurns.
OneContinuation ==
    /\ DialogTypeOK
    /\ \A r, q \in Recorded :
          r # q /\ row[r].parent # Nothing => row[r].parent # row[q].parent
    /\ \A r \in Recorded : row[r].parent \in Recorded =>
          LET p == row[r].parent IN
          /\ state[p].phase = "continued" /\ state[p].next = r
          /\ state[p].owner = state[r].owner
    /\ \A r \in Recorded : Len(state[r].proof.steps) <= MaxTurns

\* What is carried out after a dialog was said in full: every value in a turn
\* of its own, all turns still on record, in order and within the time to live.
SaidInFull ==
    \A r \in history' \ history :
        LET p == state[r].proof IN
        /\ Missing(p) = 0 /\ \A i \in DOMAIN p.steps : p.steps[i].text # "cancel"
        /\ Sourced(p) /\ Ordered(p)
        /\ \A i \in DOMAIN p.steps : row[p.steps[i].id].by = state[r].owner
OnlyWhatWasSaid == [][SaidInFull]_dialog

\* A completed dialog does not stay "running": it ends with a preview, an
\* answer or an error.
EveryAnswerEnds ==
    \A r \in 1 .. MaxRequests :
        (r \in Recorded /\ row[r].status = "running")
            ~> ~(r \in Recorded /\ row[r].status = "running")
=============================================================================
