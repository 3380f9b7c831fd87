------------------------- MODULE AssistantHub_proofs -------------------------
(***************************************************************************)
(* Proofs about the request hub, for any number of requests and any        *)
(* limits: a family's change is made once, a record says so only then, a   *)
(* cancelled request did nothing, nothing is posted twice, the queue keeps *)
(* its limit, and the whole implements ConfirmedAction.  The argument is   *)
(* about families: what the ledger says of one (Ledgered), who may still   *)
(* change the room on its behalf (Confirmed, Strays), and that these are   *)
(* never two.                                                              *)
(***************************************************************************)
EXTENDS AssistantHub, FiniteSetTheorems, TLAPS

Working == worker \in {"announce", "call", "stage"}

Alike(a, b) == a = b \/ {a, b} \subseteq {"legacy", "chat"}

\* What a request is before it is made; later it belongs to the family of the
\* first one, which is of its kind.
Unborn ==
  \A r \in Requests : status[r] = "none" =>
    /\ key[r] = r /\ rec[r] = "none" /\ ledger[r] = "none" /\ adapter[r] = "none"
    /\ r \notin orphans /\ applied[r] = 0

Families ==
  \A r \in Requests :
    /\ key[key[r]] = key[r] /\ Alike(kind[r], kind[key[r]])
    /\ status[r] # "none" => status[key[r]] # "none"
    /\ path[r] \in Paths[kind[r]]

\* What the ledger says of a family.
Ledgered ==
  \A k \in Requests :
    /\ ledger[k] = "none" /\ kind[k] # "timer" => ~Applied(k)
    /\ ledger[k] = "complete" => Applied(k)
    /\ kind[k] = "task" => ledger[k] \in {"none", "complete"}

\* A process that is down holds nothing.
Down == ~up => /\ worker = "off" /\ confirmer = Nobody
               /\ \A r \in Requests : adapter[r] = "none"

\* The adapter calls under way.
Adapting ==
  \A r \in Requests :
    /\ adapter[r] = "applied" => Applied(key[r]) /\ (kind[r] = "timer" \/ r = confirmer)
    /\ adapter[r] # "none" /\ path[r] = "fast" /\ r # confirmer
         => status[r] \in {"running", "cancelled", "deleted"}

\* The confirmation under way.
Confirmed ==
  confirmer # Nobody =>
    /\ kind[confirmer] = "widget" /\ rec[confirmer] # "none"
    /\ status[confirmer] = "running" /\ confirming[confirmer]
    /\ ledger[key[confirmer]] = "reserved"
    /\ adapter[confirmer] # "none"
    /\ adapter[confirmer] = "busy" => ~Applied(key[confirmer])
    /\ Working => active # confirmer

\* The threads without a caller.
Strays ==
  \A r \in orphans : kind[r] # "timer" =>
    /\ kind[r] = "widget" /\ ledger[key[r]] \in {"reserved", "uncertain"} /\ ~Applied(key[r])
    /\ status[r] \in {"needs_clarification", "deleted", "interrupted", "running"}
    /\ status[r] = "running" => confirming[r]
    /\ adapter[r] = "none"
    /\ Working => active # r
    /\ confirmer # Nobody => key[confirmer] # key[r]
    /\ \A q \in orphans : key[q] = key[r] => q = r

\* The mark of a confirmation: it stays when the outcome could not be stored.
Marked ==
  /\ \A r \in Requests : confirming[r] =>
       /\ status[r] \notin {"none", "queued", "prepared", "awaiting_confirmation", "cancelled"}
       /\ r # confirmer => adapter[r] = "none"
       /\ status[r] = "running" => kind[r] = "widget" /\ rec[r] # "none"
  /\ Working => ~confirming[active]

\* Nobody but a confirmation changes the room before its request has ended.
Undone ==
  \A r \in Requests : kind[r] # "timer" /\ applied[r] > 0 =>
    /\ status[r] \notin {"queued", "prepared", "awaiting_confirmation", "cancelled"}
    /\ status[r] = "running" => confirming[r]

\* The worker's requests, waiting and under way.
Worked ==
  /\ \A r \in Requests : status[r] \in {"queued", "prepared"} => path[r] # "fast"
  /\ Working =>
       /\ path[active] # "fast"
       /\ status[active] \in {"running", "cancelled", "deleted", "succeeded"}
       /\ status[active] = "succeeded" => kind[active] = "task"

Posted ==
  /\ \A r \in Requests : sent[r] <= 1
  /\ \A r \in Requests : status[r] \in {"none", "queued", "prepared"} => sent[r] = 0
  /\ worker = "announce" => sent[active] = 0

IInv ==
  /\ TypeOK /\ Unborn /\ Families /\ Ledgered /\ Down /\ Adapting /\ Confirmed
  /\ Strays /\ Marked /\ Undone /\ Worked /\ Posted
  /\ OnceOnly /\ SaidIsDone /\ RunningIsHeld /\ QueueBound

-----------------------------------------------------------------------------
(* Families and counting.                                                  *)

LEMMA NobodyIs == Nobody \notin Requests
  BY DEF Nobody, Requests

LEMMA AppliedSame ==
    ASSUME key' = key, applied' = applied
    PROVE  \A k \in Requests : Applied(k)' <=> Applied(k)
  BY DEF Applied

LEMMA AppliedMore ==
    ASSUME TypeOK, NEW r \in Requests, key' = key, applied' = [applied EXCEPT ![r] = @ + 1]
    PROVE  \A k \in Requests : Applied(k)' <=> Applied(k) \/ k = key[r]
<1>1. \A q \in Requests : applied'[q] > 0 <=> applied[q] > 0 \/ q = r
  BY DEF TypeOK
<1> QED
  BY <1>1 DEF Applied

LEMMA QueueShrinks ==
    ASSUME IInv, \A r \in Requests : status'[r] = "queued" => status[r] = "queued",
           ~enabled' => \A r \in Requests : status'[r] \in ACTIVE =>
                           kind'[r] \notin {"legacy", "chat"}
    PROVE  QueueBound'
<1> DEFINE Q == {r \in Requests : status[r] = "queued"}
           P == {r \in Requests : status'[r] = "queued"}
<1>1. IsFiniteSet(Q)
  BY FS_Interval, FS_Subset, HubAssumption DEF Requests
<1>2. IsFiniteSet(P) /\ Cardinality(P) <= Cardinality(Q)
  BY <1>1, FS_Subset
<1>3. Cardinality(Q) \in Nat /\ Cardinality(P) \in Nat /\ Cardinality(Q) <= MaxPending
  BY <1>1, <1>2, FS_CardinalityType DEF IInv, QueueBound
<1> QED
  BY <1>2, <1>3, HubAssumption DEF QueueBound, Pending

LEMMA QueueSame ==
    ASSUME IInv, UNCHANGED <<kind, enabled>>,
           \A r \in Requests : /\ status'[r] = "queued" => status[r] = "queued"
                               /\ status'[r] = "running" => \/ status[r] \in ACTIVE
                                                            \/ kind[r] = "widget"
    PROVE  QueueBound'
<1>1. ~enabled' => \A r \in Requests : status'[r] \in ACTIVE => kind'[r] \notin {"legacy", "chat"}
  BY DEF IInv, QueueBound, Pending, ACTIVE
<1> QED
  BY <1>1, QueueShrinks

LEMMA QueueGrows ==
    ASSUME IInv, NEW r \in Requests, status' = [status EXCEPT ![r] = "queued"],
           Cardinality(Pending) < MaxPending, UNCHANGED enabled,
           \A q \in Requests : q # r => kind'[q] = kind[q],
           enabled \/ kind'[r] \notin {"legacy", "chat"}
    PROVE  QueueBound'
<1>0. status \in [Requests -> Status] /\ kind \in [Requests -> AllKinds] /\ enabled \in BOOLEAN
      /\ (~enabled => \A q \in Requests : status[q] \in ACTIVE => kind[q] \notin {"legacy", "chat"})
  BY DEF IInv, TypeOK, QueueBound, Pending
<1> DEFINE Q == {q \in Requests : status'[q] = "queued"}
<1>1. Q \subseteq Pending \cup {r} /\ Pending \subseteq Requests
  BY <1>0 DEF Pending, ACTIVE
<1>2. IsFiniteSet(Pending)
  <2>1. IsFiniteSet(Requests)
    BY FS_Interval, HubAssumption DEF Requests
  <2> QED
    BY <1>1, <2>1, FS_Subset
<1>3. /\ IsFiniteSet(Pending \cup {r}) /\ Cardinality(Pending) \in Nat
      /\ \/ Cardinality(Pending \cup {r}) = Cardinality(Pending)
         \/ Cardinality(Pending \cup {r}) = Cardinality(Pending) + 1
  <2>1. Cardinality(Pending) \in Nat
    BY <1>2, FS_CardinalityType
  <2>2. /\ IsFiniteSet(Pending \cup {r})
        /\ Cardinality(Pending \cup {r}) =
             IF r \in Pending THEN Cardinality(Pending) ELSE Cardinality(Pending) + 1
    BY <1>2, FS_AddElement
  <2> QED
    BY <2>1, <2>2
<1>4. IsFiniteSet(Q) /\ Cardinality(Q) <= Cardinality(Pending \cup {r})
  BY <1>1, <1>3, FS_Subset
<1>5. Cardinality(Q) \in Nat
  BY <1>4, FS_CardinalityType
<1>6. Cardinality(Q) <= MaxPending
  BY <1>3, <1>4, <1>5, HubAssumption
<1>7. ~enabled' => \A q \in Requests : status'[q] \in ACTIVE => kind'[q] \notin {"legacy", "chat"}
  BY <1>0 DEF ACTIVE
<1> QED
  BY <1>6, <1>7 DEF QueueBound, Pending

\* What processing may come to is true.
LEMMA StagedTrue ==
    ASSUME IInv, NEW r \in Requests, NEW x \in Staged(r)
    PROVE  /\ x \in Outcome \cup {"executed"}
           /\ x = "executed" => Applied(key[r])
           /\ x = "awaiting_confirmation" => ~Applied(key[r]) /\ kind[r] \in {"task", "widget"}
<1> USE DEF IInv, TypeOK
<1>1. /\ key[r] \in Requests /\ Alike(kind[r], kind[key[r]]) /\ kind[r] \in AllKinds
      /\ ledger[key[r]] \in Ledger
  BY DEF Families
<1>2. kind[r] \in {"task", "widget"} => kind[key[r]] = kind[r]
  BY <1>1 DEF Alike
<1>3. /\ kind[r] \in {"task", "widget"} /\ ledger[key[r]] = "none" => ~Applied(key[r])
      /\ ledger[key[r]] = "complete" => Applied(key[r])
      /\ kind[r] = "task" => ledger[key[r]] \in {"none", "complete"}
      /\ adapter[r] = "applied" => Applied(key[r])
  BY <1>1, <1>2 DEF Ledgered, Adapting
<1> QED
  BY <1>1, <1>3 DEF Staged, Outcome, AllKinds, Parsed, Assessed

-----------------------------------------------------------------------------
(* Steps that concern the row and the record of one request.               *)

LEMMA OneRequest ==
    ASSUME IInv, up, NEW r \in Requests, r # confirmer, status[r] # "none", status'[r] # "none",
           \A q \in Requests \ {r} : /\ status'[q] = status[q] /\ rec'[q] = rec[q]
                                     /\ adapter'[q] = adapter[q] /\ confirming'[q] = confirming[q],
           UNCHANGED <<row, ledger, up, confirmer, orphans, applied>>,
           TypeOK', Worked', Posted', RunningIsHeld', QueueBound',
           rec'[r] = "executed" => Applied(key[r]),
           adapter'[r] = "applied" => adapter[r] = "applied",
           adapter'[r] # "none" /\ path[r] = "fast" =>
              status'[r] \in {"running", "cancelled", "deleted"},
           kind[r] # "timer" /\ r \in orphans =>
              status'[r] \in {"needs_clarification", "deleted"} /\ adapter'[r] = "none",
           Working' => /\ active' \in {active, r} /\ (active' # r => Working)
                       /\ active' = r => kind[r] = "timer" \/ r \notin orphans,
           kind[r] # "timer" /\ applied[r] > 0 =>
              status'[r] \notin {"queued", "prepared", "awaiting_confirmation", "cancelled",
                                 "running"},
           ~confirming'[r]
    PROVE  IInv'
<1> USE DEF TypeOK
<1>0. /\ TypeOK /\ Unborn /\ Families /\ Ledgered /\ Down /\ Adapting /\ Confirmed
      /\ Strays /\ Marked /\ Undone /\ Worked /\ Posted
      /\ OnceOnly /\ SaidIsDone /\ RunningIsHeld /\ QueueBound
  BY DEF IInv
<1>1. /\ UNCHANGED <<kind, path, key, ledger, up, confirmer, orphans, applied>>
      /\ \A k \in Requests : Applied(k)' <=> Applied(k)
  BY AppliedSame DEF row
<1>3. confirmer # Nobody => confirmer \in Requests
  BY <1>0
<1>11. Unborn'
  BY <1>0, <1>1 DEF Unborn
<1>12. Families'
  BY <1>0, <1>1 DEF Families
<1>13. Ledgered' /\ Down' /\ OnceOnly'
  BY <1>0, <1>1 DEF Ledgered, Down, OnceOnly
<1>14. Adapting'
  BY <1>0, <1>1 DEF Adapting
<1>15. Confirmed'
  BY <1>0, <1>1, <1>3 DEF Confirmed
<1>16. Strays'
  BY <1>0, <1>1 DEF Strays
<1>17. Undone'
  BY <1>0, <1>1 DEF Undone
<1>18. SaidIsDone'
  BY <1>0, <1>1 DEF SaidIsDone
<1>19. Marked'
  BY <1>0, <1>1 DEF Marked, Working
<1> QED
  BY <1>11, <1>12, <1>13, <1>14, <1>15, <1>16, <1>17, <1>18, <1>19 DEF IInv

LEMMA RunPreparedKeeps ==
    ASSUME IInv, NEW r \in Requests, RunPrepared(r)
    PROVE  IInv'
<1> USE DEF TypeOK
<1>0. /\ TypeOK /\ Unborn /\ Families /\ Ledgered /\ Down /\ Adapting /\ Confirmed
      /\ Strays /\ Marked /\ Undone /\ Worked /\ Posted
      /\ OnceOnly /\ SaidIsDone /\ RunningIsHeld /\ QueueBound
  BY DEF IInv
<1>1. /\ up /\ status[r] = "prepared" /\ enabled /\ Cardinality(Pending) < MaxPending
      /\ status' = [status EXCEPT ![r] = "queued"] /\ worker' = worker /\ active' = active
      /\ UNCHANGED <<row, rec, confirming, ledger, enabled, up, listening, task, adapter,
                     confirmer, orphans, sent, applied>>
      /\ r # confirmer /\ r # 0
  BY <1>0, NobodyIs DEF RunPrepared, config, task, calls, past, Confirmed, Nobody
<1>2. TypeOK'
  BY <1>0, <1>1 DEF row, Status, ACTIVE
<1>3. Worked' /\ Posted'
  BY <1>0, <1>1 DEF Worked, Posted, Working, row
<1>4. RunningIsHeld'
  BY <1>0, <1>1 DEF RunningIsHeld, row
<1>5. QueueBound'
  BY <1>0, <1>1, QueueGrows DEF row
<1>6. /\ status[r] # "none"
      /\ rec[r] = "executed" => Applied(key[r])
      /\ adapter[r] # "none" => path[r] # "fast"
      /\ r \in orphans => kind[r] = "timer"
      /\ kind[r] # "timer" => ~(applied[r] > 0)
      /\ ~confirming'[r]
  BY <1>0, <1>1 DEF Status, ACTIVE, SaidIsDone, Adapting, Strays, Undone, Marked
<1> QED
  BY <1>0, <1>1, <1>2, <1>3, <1>4, <1>5, <1>6, OneRequest DEF Working

LEMMA CancelKeeps ==
    ASSUME IInv, NEW r \in Requests, Cancel(r)
    PROVE  IInv'
<1> USE DEF TypeOK
<1>0. /\ TypeOK /\ Unborn /\ Families /\ Ledgered /\ Down /\ Adapting /\ Confirmed
      /\ Strays /\ Marked /\ Undone /\ Worked /\ Posted
      /\ OnceOnly /\ SaidIsDone /\ RunningIsHeld /\ QueueBound
  BY DEF IInv
<1>1. /\ up /\ NotExecuting(r)
      /\ status[r] \in {"queued", "running", "prepared", "awaiting_confirmation"}
      /\ status' = [status EXCEPT ![r] = "cancelled"]
      /\ rec' = [rec EXCEPT ![r] = IF @ = "none" THEN "none" ELSE "cancelled"]
      /\ UNCHANGED <<row, confirming, ledger, enabled, up, listening, worker, active, adapter,
                     confirmer, orphans, sent, applied>>
  BY DEF Cancel, ACTIVE, config, task, calls, past
<1>2. /\ kind' = kind /\ ~confirming[r] /\ ~confirming'[r]
      /\ r # confirmer
  BY <1>0, <1>1, NobodyIs DEF NotExecuting, Bridged, Confirmed, Marked, row
<1>3. /\ rec'[r] \in {"none", "cancelled"} /\ status'[r] = "cancelled"
      /\ \A q \in Requests \ {r} : status'[q] = status[q] /\ rec'[q] = rec[q]
  BY <1>0, <1>1
<1>4. TypeOK'
  BY <1>0, <1>1 DEF row, RecState, Status
<1>5. Worked' /\ Posted'
  BY <1>0, <1>1 DEF Worked, Posted, Working, row
<1>6. RunningIsHeld'
  BY <1>0, <1>1 DEF RunningIsHeld, row
<1>7. \A q \in Requests : /\ status'[q] = "queued" => status[q] = "queued"
                          /\ status'[q] = "running" => status[q] \in ACTIVE
  BY <1>0, <1>1 DEF ACTIVE
<1>8. QueueBound'
  BY <1>1, <1>2, <1>7, QueueSame
<1>9. r \in orphans => kind[r] = "timer"
  BY <1>0, <1>1, <1>2 DEF Strays
<1>10. kind[r] # "timer" => ~(applied[r] > 0)
  BY <1>0, <1>1, <1>2 DEF Undone
<1> QED
  BY <1>1, <1>2, <1>3, <1>4, <1>5, <1>6, <1>8, <1>9, <1>10, OneRequest DEF Working

LEMMA DeleteKeeps ==
    ASSUME IInv, NEW r \in Requests, Delete(r)
    PROVE  IInv'
<1> USE DEF TypeOK
<1>0. /\ TypeOK /\ Unborn /\ Families /\ Ledgered /\ Down /\ Adapting /\ Confirmed
      /\ Strays /\ Marked /\ Undone /\ Worked /\ Posted
      /\ OnceOnly /\ SaidIsDone /\ RunningIsHeld /\ QueueBound
  BY DEF IInv
<1>1. /\ up /\ status[r] \notin {"none", "deleted", "queued", "running"}
      /\ status' = [status EXCEPT ![r] = "deleted"] /\ rec' = [rec EXCEPT ![r] = "none"]
      /\ confirming' = [confirming EXCEPT ![r] = FALSE]
      /\ UNCHANGED <<row, ledger, enabled, up, listening, worker, active, adapter,
                     confirmer, orphans, sent, applied>>
  BY DEF Delete, Stored, Pending, ACTIVE, config, task, calls, past
<1>2. r # confirmer /\ kind' = kind
  BY <1>0, <1>1, NobodyIs DEF Confirmed, row
<1>3. /\ rec'[r] = "none" /\ status'[r] = "deleted"
      /\ \A q \in Requests \ {r} : /\ status'[q] = status[q] /\ rec'[q] = rec[q]
                                   /\ confirming'[q] = confirming[q]
  BY <1>0, <1>1
<1>4. TypeOK'
  BY <1>0, <1>1 DEF row, RecState, Status
<1>5. Worked' /\ Posted'
  BY <1>0, <1>1 DEF Worked, Posted, Working, row
<1>6. RunningIsHeld'
  BY <1>0, <1>1 DEF RunningIsHeld, row
<1>7. \A q \in Requests : /\ status'[q] = "queued" => status[q] = "queued"
                          /\ status'[q] = "running" => status[q] \in ACTIVE
  BY <1>0, <1>1 DEF ACTIVE
<1>8. QueueBound'
  BY <1>1, <1>2, <1>7, QueueSame
<1>9. /\ Working => kind[r] = "timer" \/ active # r \/ r \notin orphans
      /\ kind[r] # "timer" /\ r \in orphans => adapter[r] = "none"
  BY <1>0 DEF Strays
<1> QED
  BY <1>1, <1>2, <1>3, <1>4, <1>5, <1>6, <1>8, <1>9, OneRequest DEF Working

LEMMA FastDoneKeeps ==
    ASSUME IInv, NEW r \in Requests, FastDone(r)
    PROVE  IInv'
<1> USE DEF TypeOK
<1>0. /\ TypeOK /\ Unborn /\ Families /\ Ledgered /\ Down /\ Adapting /\ Confirmed
      /\ Strays /\ Marked /\ Undone /\ Worked /\ Posted
      /\ OnceOnly /\ SaidIsDone /\ RunningIsHeld /\ QueueBound
  BY DEF IInv
<1>1. /\ up /\ adapter[r] # "none" /\ path[r] = "fast" /\ confirmer # r
      /\ adapter' = [adapter EXCEPT ![r] = "none"]
      /\ UNCHANGED <<row, confirming, ledger, enabled, up, listening, worker, active,
                     confirmer, orphans, sent, applied>>
  BY DEF FastDone, config, task, past
<1>2. /\ status[r] \in {"running", "cancelled", "deleted"} /\ kind' = kind
      /\ r \in orphans => kind[r] = "timer"
      /\ Working => active # r
      /\ ~confirming'[r]
  BY <1>0, <1>1 DEF Adapting, Strays, Worked, Marked, row
<1>3. /\ status'[r] \in {"deleted"} \cup Outcome
      /\ rec'[r] = "executed" => Applied(key[r])
      /\ status'[r] = "awaiting_confirmation" => ~Applied(key[r])
      /\ status' \in [Requests -> Status] /\ rec' \in [Requests -> RecState]
      /\ \A q \in Requests \ {r} : /\ status'[q] = status[q] /\ rec'[q] = rec[q]
                                   /\ adapter'[q] = adapter[q]
  <2>1. CASE status[r] = "deleted"
    BY <1>0, <1>1, <2>1 DEF FastDone, SaidIsDone
  <2>2. CASE status[r] # "deleted"
    <3>1. PICK x \in Staged(r) : /\ rec' = [rec EXCEPT ![r] = x]
                                 /\ status' = [status EXCEPT ![r] = StatusOf(x)]
      BY <2>2 DEF FastDone
    <3>2. /\ x \in Outcome \cup {"executed"} /\ (x = "executed" => Applied(key[r]))
          /\ (x = "awaiting_confirmation" => ~Applied(key[r]))
      BY <1>1, StagedTrue
    <3>3. /\ StatusOf(x) \in Outcome /\ x \in RecState
          /\ StatusOf(x) = "awaiting_confirmation" => x = "awaiting_confirmation"
          /\ Outcome \subseteq Status
      BY <3>2 DEF StatusOf, Outcome, RecState, Status
    <3> QED
      BY <1>0, <1>1, <3>1, <3>2, <3>3
  <2> QED
    BY <2>1, <2>2
<1>4. status'[r] \notin {"none", "queued", "running", "prepared", "cancelled"}
  BY <1>3 DEF Outcome
<1>5. TypeOK'
  BY <1>0, <1>1, <1>3 DEF row
<1>6. Worked' /\ Posted'
  BY <1>0, <1>1, <1>2, <1>3, <1>4 DEF Worked, Posted, Working, row
<1>7. RunningIsHeld'
  <2>1. ASSUME NEW q \in Requests, status'[q] = "running"
        PROVE  q # r /\ status[q] = "running" /\ adapter'[q] = adapter[q]
    BY <1>3, <1>4, <2>1
  <2> QED
    BY <1>0, <1>1, <2>1 DEF RunningIsHeld, row
<1>8. \A q \in Requests : /\ status'[q] = "queued" => status[q] = "queued"
                          /\ status'[q] = "running" => status[q] \in ACTIVE
  BY <1>3, <1>4 DEF ACTIVE
<1>9. QueueBound'
  BY <1>1, <1>2, <1>8, QueueSame
<1>10. /\ status'[r] = "awaiting_confirmation" => ~(applied[r] > 0)
       /\ adapter'[r] = "none"
  BY <1>0, <1>1, <1>3 DEF Applied
<1>11. kind[r] # "timer" => r \notin orphans
  BY <1>2
<1> QED
  BY <1>1, <1>2, <1>3, <1>4, <1>5, <1>6, <1>7, <1>9, <1>10, <1>11, OneRequest DEF Working

-----------------------------------------------------------------------------
(* The worker.                                                             *)

LEMMA PickKeeps ==
    ASSUME IInv, NEW r \in Requests, Pick(r)
    PROVE  IInv'
<1> USE DEF TypeOK
<1>0. /\ TypeOK /\ Unborn /\ Families /\ Ledgered /\ Down /\ Adapting /\ Confirmed
      /\ Strays /\ Marked /\ Undone /\ Worked /\ Posted
      /\ OnceOnly /\ SaidIsDone /\ RunningIsHeld /\ QueueBound
  BY DEF IInv
<1>1. /\ up /\ worker = "idle" /\ status[r] = "queued"
      /\ status' = [status EXCEPT ![r] = "running"] /\ worker' = "announce" /\ active' = r
      /\ UNCHANGED <<row, rec, confirming, ledger, enabled, up, listening, adapter, confirmer,
                     orphans, sent, applied>>
  BY DEF Pick, Oldest, config, calls, past
<1>2. r # confirmer /\ kind' = kind /\ path[r] # "fast"
  BY <1>0, <1>1, NobodyIs DEF Confirmed, Worked, row
<1>3. /\ rec[r] = "executed" => Applied(key[r])
      /\ status'[r] = "running"
      /\ \A q \in Requests \ {r} : status'[q] = status[q]
      /\ r \in orphans => kind[r] = "timer"
      /\ kind[r] # "timer" => ~(applied[r] > 0)
      /\ ~confirming'[r]
  BY <1>0, <1>1 DEF SaidIsDone, Strays, Undone, Marked
<1>4. TypeOK'
  BY <1>0, <1>1 DEF row, Place, Status, ACTIVE
<1>5. Worked' /\ Posted'
  BY <1>0, <1>1, <1>2 DEF Worked, Posted, Working, row
<1>6. RunningIsHeld'
  BY <1>0, <1>1 DEF RunningIsHeld, row
<1>7. \A q \in Requests : /\ status'[q] = "queued" => status[q] = "queued"
                          /\ status'[q] = "running" => status[q] \in ACTIVE
  BY <1>0, <1>1 DEF ACTIVE
<1>8. QueueBound'
  BY <1>1, <1>2, <1>7, QueueSame
<1> QED
  BY <1>1, <1>2, <1>3, <1>4, <1>5, <1>6, <1>8, OneRequest DEF Working

\* The worker leaves its request, with an outcome if it still ran.
LEMMA WorkerEnds ==
    ASSUME IInv, up, Working, Idle, NEW r \in Requests, r = active,
           status' \in [Requests -> Status], rec' \in [Requests -> RecState],
           adapter' \in [Requests -> {"none", "busy", "applied"}],
           \A q \in Requests \ {r} : /\ status'[q] = status[q] /\ rec'[q] = rec[q]
                                     /\ adapter'[q] = adapter[q],
           adapter'[r] \in {"none", adapter[r]},
           \/ status'[r] = status[r] /\ status[r] # "running"
           \/ /\ status[r] = "running" /\ status'[r] \in Outcome
              /\ status'[r] = "awaiting_confirmation" => ~Applied(key[r]),
           rec'[r] = "executed" => Applied(key[r]),
           UNCHANGED <<row, confirming, ledger, config, confirmer, orphans, past>>
    PROVE  IInv'
<1> USE DEF TypeOK
<1>0. /\ TypeOK /\ Unborn /\ Families /\ Ledgered /\ Down /\ Adapting /\ Confirmed
      /\ Strays /\ Marked /\ Undone /\ Worked /\ Posted
      /\ OnceOnly /\ SaidIsDone /\ RunningIsHeld /\ QueueBound
  BY DEF IInv
<1>1. /\ UNCHANGED <<row, confirming, ledger, enabled, up, listening, confirmer, orphans,
                     sent, applied>>
      /\ worker' = "idle" /\ active' = Nobody /\ kind' = kind
  BY <1>0 DEF Idle, config, past, row
<1>2. /\ r # confirmer /\ path[r] # "fast" /\ status[r] \notin {"none", "queued", "prepared"}
      /\ kind[r] # "timer" => r \notin orphans
      /\ status'[r] \notin {"none", "queued", "prepared", "running"}
      /\ ~confirming[r] /\ ~confirming'[r]
  BY <1>0, <1>1, NobodyIs DEF Confirmed, Worked, Strays, Marked, Outcome
<1>3. kind[r] # "timer" /\ applied[r] > 0 =>
         status'[r] \notin {"awaiting_confirmation", "cancelled"}
  <2>1. applied[r] > 0 => Applied(key[r])
    BY DEF Applied
  <2> QED
    BY <1>0, <1>2, <2>1 DEF Undone, Outcome
<1>4. TypeOK'
  BY <1>0, <1>1 DEF row, Place
<1>5. Worked' /\ Posted'
  BY <1>0, <1>1, <1>2 DEF Worked, Posted, Working, row
<1>6. RunningIsHeld'
  <2>1. ASSUME NEW q \in Requests, status'[q] = "running"
        PROVE  q # r /\ status[q] = "running" /\ adapter'[q] = adapter[q]
    BY <1>2, <2>1
  <2> QED
    BY <1>0, <1>1, <2>1 DEF RunningIsHeld, row
<1>7. \A q \in Requests : /\ status'[q] = "queued" => status[q] = "queued"
                          /\ status'[q] = "running" => status[q] \in ACTIVE
  BY <1>2 DEF ACTIVE
<1>8. QueueBound'
  BY <1>1, <1>7, QueueSame
<1> QED
  BY <1>0, <1>1, <1>2, <1>3, <1>4, <1>5, <1>6, <1>8, OneRequest DEF Working

\* The worker goes on with its request, which may have ended meanwhile.
LEMMA WorkerGoesOn ==
    ASSUME IInv, up, Working, NEW r \in Requests, r = active, active' = active,
           worker' \in {"call", "stage", "dead"},
           adapter' \in [Requests -> {"none", "busy", "applied"}],
           \A q \in Requests \ {r} : adapter'[q] = adapter[q],
           adapter'[r] \in {"busy", adapter[r]},
           worker' = "dead" => status[r] # "running",
           \/ sent' = sent
           \/ sent[r] = 0 /\ sent' = [sent EXCEPT ![r] = @ + 1],
           UNCHANGED <<row, data, config, confirmer, orphans, applied>>
    PROVE  IInv'
<1> USE DEF TypeOK
<1>0. /\ TypeOK /\ Unborn /\ Families /\ Ledgered /\ Down /\ Adapting /\ Confirmed
      /\ Strays /\ Marked /\ Undone /\ Worked /\ Posted
      /\ OnceOnly /\ SaidIsDone /\ RunningIsHeld /\ QueueBound
  BY DEF IInv
<1>1. /\ UNCHANGED <<row, status, rec, confirming, ledger, enabled, up, listening, confirmer,
                     orphans, applied>>
      /\ kind' = kind /\ path' = path
  BY <1>0 DEF data, config, row
<1>2. /\ r # confirmer /\ path[r] # "fast" /\ status[r] \notin {"none", "queued", "prepared"}
      /\ kind[r] # "timer" => r \notin orphans
      /\ ~confirming[r] /\ ~confirming'[r]
  BY <1>0, <1>1, NobodyIs DEF Confirmed, Worked, Strays, Marked
<1>3. /\ rec[r] = "executed" => Applied(key[r])
      /\ kind[r] # "timer" /\ applied[r] > 0 =>
           status[r] \notin {"queued", "prepared", "awaiting_confirmation", "cancelled", "running"}
  BY <1>0, <1>2 DEF SaidIsDone, Undone
<1>4. TypeOK'
  BY <1>0, <1>1 DEF row, Place
<1>5. Worked'
  BY <1>0, <1>1 DEF Worked, Working
<1>6. Posted'
  BY <1>0, <1>1, <1>2 DEF Posted
<1>7. RunningIsHeld'
  BY <1>0, <1>1 DEF RunningIsHeld, Working, row
<1>8. QueueBound'
  BY <1>1, QueueSame DEF ACTIVE
<1> QED
  BY <1>0, <1>1, <1>2, <1>3, <1>4, <1>5, <1>6, <1>7, <1>8, OneRequest DEF Working

\* What the worker records of its request.
LEMMA Recorded ==
    ASSUME IInv, up, Working, NEW r \in Requests, r = active,
           NEW x \in Staged(r) \cup {"needs_clarification"}, Record(r, x), Idle,
           adapter' \in [Requests -> {"none", "busy", "applied"}],
           \A q \in Requests \ {r} : adapter'[q] = adapter[q],
           adapter'[r] \in {"none", adapter[r]},
           UNCHANGED <<row, confirming, ledger, config, confirmer, orphans, past>>
    PROVE  IInv'
<1>1. status \in [Requests -> Status] /\ rec \in [Requests -> RecState]
  BY DEF IInv, TypeOK
<1>2. /\ x \in Outcome \cup {"executed"} /\ (x = "executed" => Applied(key[r]))
      /\ x = "awaiting_confirmation" => ~Applied(key[r])
  BY StagedTrue DEF Outcome
<1>3. /\ status' \in [Requests -> Status] /\ rec' \in [Requests -> RecState] /\ rec'[r] = x
      /\ \A q \in Requests \ {r} : status'[q] = status[q] /\ rec'[q] = rec[q]
      /\ \/ status'[r] = status[r] /\ status[r] # "running"
         \/ /\ status[r] = "running" /\ status'[r] \in Outcome
            /\ status'[r] = "awaiting_confirmation" => ~Applied(key[r])
  BY <1>1, <1>2 DEF Record, StatusOf, Outcome, Status, RecState
<1> QED
  BY <1>2, <1>3, WorkerEnds

LEMMA WorkerKeeps ==
    ASSUME IInv, Skip \/ Die \/ Dispatch \/ Rule \/ Answer \/ Propose \/ StageDone \/ CallFails
    PROVE  IInv'
<1>0. TypeOK /\ Worked /\ Posted /\ SaidIsDone
  BY DEF IInv
<1>1. up /\ Working /\ active \in Requests
  BY <1>0 DEF TypeOK, Working, Skip, Die, Dispatch, Rule, Answer, Propose, StageDone, CallFails
<1> DEFINE r == active
<1>2. /\ r \in Requests /\ r = active
      /\ status \in [Requests -> Status] /\ rec \in [Requests -> RecState]
      /\ adapter \in [Requests -> {"none", "busy", "applied"}]
      /\ sent \in [Requests -> Nat]
      /\ rec[r] = "executed" => Applied(key[r])
  BY <1>0, <1>1 DEF TypeOK, SaidIsDone
<1>3. CASE Skip
  BY <1>1, <1>2, <1>3, WorkerEnds DEF Skip, data, calls
<1>4. CASE Die
  BY <1>1, <1>2, <1>4, WorkerGoesOn DEF Die, calls, past
<1>5. CASE Dispatch
  BY <1>0, <1>1, <1>2, <1>5, WorkerGoesOn DEF Dispatch, calls, Posted
<1>6. ASSUME Rule PROVE IInv'
  <2>1. /\ UNCHANGED <<row, confirming, ledger, config, adapter, confirmer, orphans, past>> /\ Idle
        /\ \E x \in Staged(r) \cup {"needs_clarification"} : Record(r, x)
    BY <1>6 DEF Rule, calls
  <2> QED
    BY <1>1, <1>2, <2>1, Recorded
<1>7. ASSUME StageDone \/ (Answer /\ (kind[r] # "legacy" \/ status[r] = "deleted")) PROVE IInv'
  <2>1. /\ UNCHANGED <<row, confirming, ledger, config, confirmer, orphans, past>> /\ Idle
        /\ adapter' = adapter \/ adapter' = [adapter EXCEPT ![r] = "none"]
        /\ \/ status[r] = "deleted" /\ UNCHANGED <<status, rec>>
           \/ \E x \in Staged(r) : Record(r, x)
    BY <1>7 DEF StageDone, Answer, calls
  <2>2. /\ adapter' \in [Requests -> {"none", "busy", "applied"}]
        /\ adapter'[r] \in {"none", adapter[r]}
        /\ \A q \in Requests \ {r} : adapter'[q] = adapter[q]
    BY <1>2, <2>1
  <2>3. CASE status[r] = "deleted" /\ UNCHANGED <<status, rec>>
    BY <1>1, <1>2, <2>1, <2>2, <2>3, WorkerEnds
  <2>4. CASE \E x \in Staged(r) : Record(r, x)
    BY <1>1, <1>2, <2>1, <2>2, <2>4, Recorded
  <2> QED
    BY <2>1, <2>3, <2>4
<1>8. ASSUME CallFails \/ (Answer /\ kind[r] = "legacy" /\ status[r] # "deleted") PROVE IInv'
  <2>1. /\ UNCHANGED <<row, confirming, ledger, config, adapter, rec, confirmer, orphans, past>>
        /\ Idle
        /\ \E x \in {"succeeded", "failed"} :
             status' = [status EXCEPT ![r] = IF @ = "running" THEN x ELSE @]
    BY <1>8 DEF CallFails, Failed, Answer, calls, Staged, Parsed
  <2>2. /\ status' \in [Requests -> Status]
        /\ \A q \in Requests \ {r} : status'[q] = status[q]
        /\ \/ status'[r] = status[r] /\ status[r] # "running"
           \/ status[r] = "running" /\ status'[r] \in {"succeeded", "failed"}
    BY <1>2, <2>1 DEF Status, Outcome
  <2> QED
    BY <1>1, <1>2, <2>1, <2>2, WorkerEnds DEF Outcome
<1>9. CASE Propose
  <2>1. /\ adapter' \in [Requests -> {"none", "busy", "applied"}]
        /\ adapter'[r] = "busy" /\ \A q \in Requests \ {r} : adapter'[q] = adapter[q]
    BY <1>2, <1>9 DEF Propose
  <2> QED
    BY <1>1, <1>2, <1>9, <2>1, WorkerGoesOn DEF Propose, past
<1> QED
  BY <1>3, <1>4, <1>5, <1>6, <1>7, <1>8, <1>9

-----------------------------------------------------------------------------
(* Steps that change the room.                                             *)

\* Requests of one family are of one kind, but for plain ones.
LEMMA KindOf ==
    ASSUME IInv, NEW r \in Requests, kind[r] \notin {"legacy", "chat"}
    PROVE  /\ key[r] \in Requests /\ kind[key[r]] = kind[r]
           /\ \A q \in Requests : key[q] = key[r] => kind[q] = kind[r]
<1>1. \A q \in Requests : key[q] \in Requests /\ Alike(kind[q], kind[key[q]])
  BY DEF IInv, TypeOK, Families
<1> QED
  BY <1>1 DEF Alike

\* A first change of a family.
LEMMA FirstChange ==
    ASSUME IInv, NEW r \in Requests, ~Applied(key[r]), key' = key,
           applied' = [applied EXCEPT ![r] = @ + 1]
    PROVE  /\ OnceOnly' /\ applied' \in [Requests -> Nat]
           /\ \A k \in Requests : Applied(k)' <=> Applied(k) \/ k = key[r]
           /\ \A q \in Requests \ {r} : applied'[q] = applied[q]
<1>1. TypeOK /\ OnceOnly
  BY DEF IInv
<1>2. \A k \in Requests : Applied(k)' <=> Applied(k) \/ k = key[r]
  BY <1>1, AppliedMore
<1>3. \A q \in Requests : key[q] = key[r] => applied[q] = 0
  BY <1>1 DEF Applied, TypeOK
<1>4. /\ applied' \in [Requests -> Nat] /\ applied'[r] = 1
      /\ \A q \in Requests \ {r} : applied'[q] = applied[q]
  BY <1>1, <1>3 DEF TypeOK
<1>5. OnceOnly'
  BY <1>1, <1>3, <1>4 DEF OnceOnly
<1> QED
  BY <1>2, <1>4, <1>5

\* The change of a timer, in a handler, under the worker or in a stray thread.
LEMMA TimerChange ==
    ASSUME IInv, TypeOK', NEW r \in Requests, kind[r] = "timer", status[r] # "none",
           \/ Applied(key[r]) /\ applied' = applied
           \/ ~Applied(key[r]) /\ applied' = [applied EXCEPT ![r] = @ + 1],
           adapter'[r] = "none" <=> adapter[r] = "none",
           \A q \in Requests \ {r} : adapter'[q] = adapter[q],
           orphans' \subseteq orphans,
           UNCHANGED <<row, data, config, task, confirmer, sent>>
    PROVE  IInv'
<1> USE DEF TypeOK
<1>0. /\ TypeOK /\ Unborn /\ Families /\ Ledgered /\ Down /\ Adapting /\ Confirmed
      /\ Strays /\ Marked /\ Undone /\ Worked /\ Posted
      /\ OnceOnly /\ SaidIsDone /\ RunningIsHeld /\ QueueBound
  BY DEF IInv
<1>1. /\ UNCHANGED <<status, kind, path, key, lost, rec, confirming, ledger, enabled, up,
                     listening, worker, active, confirmer, sent>>
      /\ Working' = Working
  BY <1>0 DEF row, data, config, task, Working
<1>2. /\ OnceOnly'
      /\ \A k \in Requests : Applied(k)' <=> Applied(k) \/ k = key[r]
      /\ \A q \in Requests \ {r} : applied'[q] = applied[q]
  <2>1. CASE applied' = applied /\ Applied(key[r])
    BY <1>0, <1>1, <2>1, AppliedSame DEF OnceOnly
  <2>2. CASE ~Applied(key[r]) /\ applied' = [applied EXCEPT ![r] = @ + 1]
    BY <1>1, <2>2, FirstChange
  <2> QED
    BY <2>1, <2>2
<1>3. /\ key[r] \in Requests /\ kind[key[r]] = "timer"
      /\ \A q \in Requests : kind[q] # "timer" => key[q] # key[r]
  BY KindOf
<1>4. Unborn' /\ Families'
  BY <1>0, <1>1, <1>2 DEF Unborn, Families
<1>5. Ledgered' /\ Down'
  BY <1>0, <1>1, <1>2, <1>3 DEF Ledgered, Down
<1>6. Adapting'
  BY <1>0, <1>1, <1>2, <1>3 DEF Adapting
<1>7. Confirmed'
  BY <1>0, <1>1, <1>2, <1>3 DEF Confirmed
<1>8. Strays'
  BY <1>0, <1>1, <1>2, <1>3 DEF Strays
<1>9. Marked' /\ Undone' /\ Worked' /\ Posted'
  BY <1>0, <1>1, <1>2 DEF Marked, Undone, Worked, Posted
<1>10. SaidIsDone' /\ RunningIsHeld' /\ QueueBound'
  BY <1>0, <1>1, <1>2 DEF SaidIsDone, RunningIsHeld, QueueBound, Pending
<1> QED
  BY <1>2, <1>4, <1>5, <1>6, <1>7, <1>8, <1>9, <1>10 DEF IInv

LEMMA TimerCommitKeeps ==
    ASSUME IInv, NEW r \in Requests, TimerCommit(r)
    PROVE  IInv'
<1>0. TypeOK /\ Unborn
  BY DEF IInv
<1>1. TypeOK'
  BY <1>0 DEF TypeOK, TimerCommit, row, data, config, task
<1>2. status[r] # "none"
  BY <1>0 DEF Unborn, TimerCommit
<1>3. /\ adapter'[r] = "none" <=> adapter[r] = "none"
      /\ \A q \in Requests \ {r} : adapter'[q] = adapter[q]
  BY <1>0 DEF TimerCommit, TypeOK
<1> QED
  BY <1>1, <1>2, <1>3, TimerChange DEF TimerCommit

\* A thread without caller ends.
LEMMA LateCommitKeeps ==
    ASSUME IInv, NEW r \in Requests, LateCommit(r)
    PROVE  IInv'
<1> USE DEF TypeOK
<1>0. /\ TypeOK /\ Unborn /\ Families /\ Ledgered /\ Down /\ Adapting /\ Confirmed
      /\ Strays /\ Marked /\ Undone /\ Worked /\ Posted
      /\ OnceOnly /\ SaidIsDone /\ RunningIsHeld /\ QueueBound
  BY DEF IInv
<1>1. /\ r \in orphans /\ orphans' = orphans \ {r}
      /\ UNCHANGED <<row, data, config, task, adapter, confirmer, sent>>
      /\ applied' = IF kind[r] = "timer" /\ Applied(key[r]) THEN applied
                    ELSE [applied EXCEPT ![r] = @ + 1]
  BY DEF LateCommit
<1>2. status[r] # "none"
  BY <1>0, <1>1 DEF Unborn
<1>3. TypeOK'
  BY <1>0, <1>1 DEF row, data, config, task
<1>4. CASE kind[r] = "timer"
  BY <1>1, <1>2, <1>3, <1>4, TimerChange
<1>5. CASE kind[r] # "timer"
  <2>1. /\ UNCHANGED <<status, kind, path, key, lost, rec, confirming, ledger, enabled, up,
                       listening, worker, active, confirmer, sent>>
        /\ Working' = Working
    BY <1>1 DEF row, data, config, task, Working
  <2>2. /\ kind[r] = "widget" /\ ledger[key[r]] \in {"reserved", "uncertain"} /\ ~Applied(key[r])
        /\ status[r] \in {"needs_clarification", "deleted", "interrupted", "running"}
        /\ status[r] = "running" => confirming[r]
        /\ adapter[r] = "none"
        /\ confirmer # Nobody => key[confirmer] # key[r]
        /\ \A q \in orphans : key[q] = key[r] => q = r
    BY <1>0, <1>1, <1>5 DEF Strays
  <2>3. /\ OnceOnly'
        /\ \A k \in Requests : Applied(k)' <=> Applied(k) \/ k = key[r]
        /\ \A q \in Requests \ {r} : applied'[q] = applied[q]
    BY <1>1, <1>5, <2>1, <2>2, FirstChange
  <2>4. Unborn' /\ Families' /\ Ledgered' /\ Down'
    BY <1>0, <1>1, <1>2, <2>1, <2>2, <2>3 DEF Unborn, Families, Ledgered, Down
  <2>5. Adapting' /\ Confirmed'
    BY <1>0, <1>1, <2>1, <2>2, <2>3 DEF Adapting, Confirmed
  <2>6. Strays'
    BY <1>0, <1>1, <2>1, <2>2, <2>3 DEF Strays
  <2>7. Marked' /\ Undone' /\ Worked' /\ Posted'
    BY <1>0, <1>1, <2>1, <2>2, <2>3 DEF Marked, Undone, Worked, Posted
  <2>8. SaidIsDone' /\ RunningIsHeld' /\ QueueBound'
    BY <1>0, <1>1, <2>1, <2>3 DEF SaidIsDone, RunningIsHeld, QueueBound, Pending
  <2> QED
    BY <1>3, <2>3, <2>4, <2>5, <2>6, <2>7, <2>8 DEF IInv
<1> QED
  BY <1>4, <1>5

-----------------------------------------------------------------------------
(* Confirmations.                                                          *)

LEMMA ConfirmTaskKeeps ==
    ASSUME IInv, NEW r \in Requests, ConfirmTask(r)
    PROVE  IInv'
<1> USE DEF TypeOK
<1>0. /\ TypeOK /\ Unborn /\ Families /\ Ledgered /\ Down /\ Adapting /\ Confirmed
      /\ Strays /\ Marked /\ Undone /\ Worked /\ Posted
      /\ OnceOnly /\ SaidIsDone /\ RunningIsHeld /\ QueueBound
  BY DEF IInv
<1>1. /\ up /\ kind[r] = "task" /\ rec[r] # "none"
      /\ status' = [status EXCEPT ![r] = "succeeded"] /\ rec' = [rec EXCEPT ![r] = "executed"]
      /\ UNCHANGED <<kind, path, key, lost, confirming, enabled, up, listening, worker, active,
                     adapter, confirmer, orphans, sent>>
      /\ Working' = Working
  BY DEF ConfirmTask, row, config, task, calls, Working
<1>2. /\ r # confirmer /\ r \notin orphans /\ status[r] # "none"
      /\ key[r] \in Requests /\ kind[key[r]] = "task"
      /\ \A q \in Requests : key[q] = key[r] => kind[q] = "task"
      /\ ledger[key[r]] \in {"none", "complete"}
  BY <1>0, <1>1, KindOf, NobodyIs DEF Confirmed, Strays, Unborn, Ledgered
<1>3. /\ ledger' \in [Requests -> Ledger] /\ OnceOnly' /\ applied' \in [Requests -> Nat]
      /\ \A k \in Requests : Applied(k)' <=> Applied(k) \/ k = key[r]
      /\ \A q \in Requests \ {r} : applied'[q] = applied[q]
      /\ ledger'[key[r]] = "complete"
      /\ \A k \in Requests \ {key[r]} : ledger'[k] = ledger[k]
  <2>1. CASE ledger[key[r]] # "none" /\ UNCHANGED <<ledger, applied>>
    BY <1>0, <1>1, <1>2, <2>1, AppliedSame DEF Ledgered, OnceOnly
  <2>2. CASE /\ ledger[key[r]] = "none"
             /\ ledger' = [ledger EXCEPT ![key[r]] = "complete"]
             /\ applied' = [applied EXCEPT ![r] = @ + 1]
    <3>1. ~Applied(key[r])
      BY <1>0, <1>2, <2>2 DEF Ledgered
    <3>2. ledger' \in [Requests -> Ledger]
      BY <1>0, <2>2 DEF Ledger
    <3>3. /\ OnceOnly' /\ applied' \in [Requests -> Nat]
          /\ \A k \in Requests : Applied(k)' <=> Applied(k) \/ k = key[r]
          /\ \A q \in Requests \ {r} : applied'[q] = applied[q]
      BY <1>1, <2>2, <3>1, FirstChange
    <3>4. /\ ledger'[key[r]] = "complete"
          /\ \A k \in Requests \ {key[r]} : ledger'[k] = ledger[k]
      BY <1>0, <1>2, <2>2
    <3> QED
      BY <3>2, <3>3, <3>4
  <2>3. \/ ledger[key[r]] # "none" /\ UNCHANGED <<ledger, applied>>
        \/ /\ ledger[key[r]] = "none"
           /\ ledger' = [ledger EXCEPT ![key[r]] = "complete"]
           /\ applied' = [applied EXCEPT ![r] = @ + 1]
    BY DEF ConfirmTask
  <2> QED
    BY <2>1, <2>2, <2>3
<1>4. /\ status'[r] = "succeeded" /\ rec'[r] = "executed"
      /\ \A q \in Requests \ {r} : status'[q] = status[q] /\ rec'[q] = rec[q]
  BY <1>0, <1>1
<1>5. TypeOK'
  BY <1>0, <1>1, <1>3 DEF Status, Outcome, RecState
<1>6. Unborn' /\ Families' /\ Down'
  BY <1>0, <1>1, <1>2, <1>3, <1>4 DEF Unborn, Families, Down
<1>7. Ledgered'
  BY <1>0, <1>1, <1>2, <1>3 DEF Ledgered
<1>8. Adapting'
  <2>1. adapter[r] # "none" => path[r] # "fast"
    BY <1>0, <1>1 DEF Families, Paths
  <2> QED
    BY <1>0, <1>1, <1>2, <1>3, <1>4, <2>1 DEF Adapting
<1>9. Confirmed'
  BY <1>0, <1>1, <1>2, <1>3, <1>4 DEF Confirmed
<1>10. Strays'
  BY <1>0, <1>1, <1>2, <1>3, <1>4 DEF Strays
<1>11. Undone' /\ Marked'
  BY <1>0, <1>1, <1>2, <1>3, <1>4 DEF Undone, Marked, Working
<1>12. Worked' /\ Posted'
  BY <1>0, <1>1, <1>4 DEF Worked, Posted, Working
<1>13. SaidIsDone' /\ RunningIsHeld'
  BY <1>0, <1>1, <1>3, <1>4 DEF SaidIsDone, RunningIsHeld
<1>14. \A q \in Requests : /\ status'[q] = "queued" => status[q] = "queued"
                           /\ status'[q] = "running" => status[q] \in ACTIVE
  BY <1>4 DEF ACTIVE
<1>15. QueueBound'
  BY <1>1, <1>14, QueueSame
<1> QED
  BY <1>3, <1>5, <1>6, <1>7, <1>8, <1>9, <1>10, <1>11, <1>12, <1>13, <1>15 DEF IInv

LEMMA ReserveKeeps ==
    ASSUME IInv, NEW r \in Requests, Reserve(r)
    PROVE  IInv'
<1> USE DEF TypeOK
<1>0. /\ TypeOK /\ Unborn /\ Families /\ Ledgered /\ Down /\ Adapting /\ Confirmed
      /\ Strays /\ Marked /\ Undone /\ Worked /\ Posted
      /\ OnceOnly /\ SaidIsDone /\ RunningIsHeld /\ QueueBound
  BY DEF IInv
<1>1. /\ up /\ kind[r] = "widget" /\ confirmer = Nobody /\ ledger[key[r]] = "none"
      /\ status[r] = "awaiting_confirmation" /\ rec[r] = "awaiting_confirmation"
      /\ ledger' = [ledger EXCEPT ![key[r]] = "reserved"]
      /\ confirming' = [confirming EXCEPT ![r] = TRUE]
      /\ status' = [status EXCEPT ![r] = "running"] /\ confirmer' = r
      /\ adapter' = [adapter EXCEPT ![r] = "busy"]
      /\ UNCHANGED <<kind, path, key, lost, rec, enabled, up, listening, worker, active, orphans,
                     sent, applied>>
      /\ Working' = Working
  BY DEF Reserve, row, config, task, past, Working
<1>2. /\ key[r] \in Requests /\ kind[key[r]] = "widget" /\ ~Applied(key[r])
      /\ Working => active # r
      /\ r \notin orphans
      /\ \A q \in orphans : kind[q] # "timer" => key[q] # key[r]
      /\ \A k \in Requests : Applied(k)' <=> Applied(k)
      /\ applied[r] = 0
  <2>1. key[r] \in Requests /\ kind[key[r]] = "widget"
    BY <1>1, KindOf
  <2>2. ~Applied(key[r])
    BY <1>0, <1>1, <2>1 DEF Ledgered
  <2>3. applied[r] = 0
    BY <1>0, <2>2 DEF Applied
  <2> QED
    BY <1>0, <1>1, <2>1, <2>2, <2>3, AppliedSame DEF Worked, Strays
<1>3. /\ status'[r] = "running" /\ confirming'[r] = TRUE /\ adapter'[r] = "busy"
      /\ \A q \in Requests \ {r} : /\ status'[q] = status[q] /\ adapter'[q] = adapter[q]
                                   /\ confirming'[q] = confirming[q]
      /\ ledger'[key[r]] = "reserved"
      /\ \A k \in Requests \ {key[r]} : ledger'[k] = ledger[k]
  BY <1>0, <1>1, <1>2
<1>4. TypeOK'
  BY <1>0, <1>1 DEF Status, ACTIVE, Ledger
<1>5. Unborn' /\ Families' /\ Down'
  BY <1>0, <1>1, <1>2, <1>3 DEF Unborn, Families, Down
<1>6. Ledgered'
  BY <1>0, <1>1, <1>2, <1>3 DEF Ledgered
<1>7. Adapting'
  BY <1>0, <1>1, <1>2, <1>3, NobodyIs DEF Adapting
<1>8. Confirmed'
  BY <1>0, <1>1, <1>2, <1>3 DEF Confirmed
<1>9. Strays'
  BY <1>0, <1>1, <1>2, <1>3 DEF Strays
<1>10. Undone' /\ Marked'
  BY <1>0, <1>1, <1>2, <1>3, NobodyIs DEF Undone, Marked
<1>11. Worked' /\ Posted'
  BY <1>0, <1>1, <1>2, <1>3 DEF Worked, Posted, Working
<1>12. SaidIsDone' /\ RunningIsHeld' /\ OnceOnly'
  BY <1>0, <1>1, <1>2, <1>3 DEF SaidIsDone, RunningIsHeld, OnceOnly
<1>13. \A q \in Requests : /\ status'[q] = "queued" => status[q] = "queued"
                           /\ status'[q] = "running" => status[q] \in ACTIVE \/ kind[q] = "widget"
  BY <1>1, <1>3 DEF ACTIVE
<1>14. QueueBound'
  BY <1>1, <1>13, QueueSame
<1> QED
  BY <1>4, <1>5, <1>6, <1>7, <1>8, <1>9, <1>10, <1>11, <1>12, <1>14 DEF IInv

LEMMA CommitKeeps ==
    ASSUME IInv, Commit
    PROVE  IInv'
<1> USE DEF TypeOK
<1>0. /\ TypeOK /\ Unborn /\ Families /\ Ledgered /\ Down /\ Adapting /\ Confirmed
      /\ Strays /\ Marked /\ Undone /\ Worked /\ Posted
      /\ OnceOnly /\ SaidIsDone /\ RunningIsHeld /\ QueueBound
  BY DEF IInv
<1> DEFINE c == confirmer
<1>1. /\ up /\ c # Nobody /\ c \in Requests /\ adapter[c] = "busy"
      /\ adapter' = [adapter EXCEPT ![c] = "applied"]
      /\ applied' = [applied EXCEPT ![c] = @ + 1]
      /\ UNCHANGED <<status, kind, path, key, lost, rec, confirming, ledger, enabled, up,
                     listening, worker, active, confirmer, orphans, sent>>
      /\ Working' = Working
  BY <1>0 DEF Commit, row, data, config, task, Working
<1>2. /\ kind[c] = "widget" /\ status[c] = "running" /\ ledger[key[c]] = "reserved"
      /\ ~Applied(key[c]) /\ key[c] \in Requests /\ confirming[c]
  BY <1>0, <1>1 DEF Confirmed
<1>3. /\ OnceOnly' /\ applied' \in [Requests -> Nat]
      /\ \A k \in Requests : Applied(k)' <=> Applied(k) \/ k = key[c]
      /\ \A q \in Requests \ {c} : applied'[q] = applied[q]
      /\ adapter'[c] = "applied"
      /\ \A q \in Requests \ {c} : adapter'[q] = adapter[q]
  BY <1>0, <1>1, <1>2, FirstChange
<1>4. TypeOK'
  BY <1>0, <1>1, <1>3
<1>5. Unborn' /\ Families' /\ Down'
  BY <1>0, <1>1, <1>2, <1>3 DEF Unborn, Families, Down
<1>6. Ledgered'
  BY <1>0, <1>1, <1>2, <1>3 DEF Ledgered
<1>7. Adapting'
  BY <1>0, <1>1, <1>2, <1>3 DEF Adapting
<1>8. Confirmed'
  BY <1>0, <1>1, <1>2, <1>3 DEF Confirmed
<1>9. Strays'
  BY <1>0, <1>1, <1>2, <1>3 DEF Strays
<1>10. Undone' /\ Marked'
  BY <1>0, <1>1, <1>2, <1>3 DEF Undone, Marked
<1>11. Worked' /\ Posted'
  BY <1>0, <1>1 DEF Worked, Posted
<1>12. SaidIsDone' /\ RunningIsHeld' /\ QueueBound'
  BY <1>0, <1>1, <1>3 DEF SaidIsDone, RunningIsHeld, QueueBound, Pending
<1> QED
  BY <1>3, <1>4, <1>5, <1>6, <1>7, <1>8, <1>9, <1>10, <1>11, <1>12 DEF IInv

\* The end of confirm(), answered or cancelled.
LEMMA SettleKeeps ==
    ASSUME IInv, ConfirmDone \/ ConfirmAborted
    PROVE  IInv'
<1> USE DEF TypeOK
<1>0. /\ TypeOK /\ Unborn /\ Families /\ Ledgered /\ Down /\ Adapting /\ Confirmed
      /\ Strays /\ Marked /\ Undone /\ Worked /\ Posted
      /\ OnceOnly /\ SaidIsDone /\ RunningIsHeld /\ QueueBound
  BY DEF IInv
<1> DEFINE c == confirmer
<1>1. /\ up /\ c # Nobody /\ c \in Requests
      /\ UNCHANGED <<kind, path, key, lost, enabled, up, listening, worker, active, sent, applied>>
      /\ Working' = Working
  BY <1>0 DEF ConfirmDone, ConfirmAborted, row, config, task, past, Working
<1>2. PICK x \in {"executed", "needs_clarification", "failed"}, l \in {"complete", "uncertain"} :
        /\ Settle(x, l)
        /\ l = "complete" \/ x = "executed" => adapter[c] = "applied"
        /\ orphans' = orphans \/ (/\ adapter[c] = "busy" /\ orphans' = orphans \cup {c}
                                  /\ x = "needs_clarification" /\ l = "uncertain")
  BY DEF ConfirmDone, ConfirmAborted
<1>3. /\ kind[c] = "widget" /\ status[c] = "running" /\ ledger[key[c]] = "reserved"
      /\ adapter[c] = "busy" => ~Applied(key[c])
      /\ adapter[c] = "applied" => Applied(key[c])
      /\ Working => active # c
      /\ c \notin orphans /\ rec[c] # "none"
      /\ key[c] \in Requests /\ kind[key[c]] = "widget"
      /\ \A q \in Requests : key[q] = key[c] => kind[q] = "widget"
      /\ \A q \in orphans : key[q] # key[c]
      /\ \A k \in Requests : Applied(k)' <=> Applied(k)
  <2>1. /\ kind[c] = "widget" /\ status[c] = "running" /\ ledger[key[c]] = "reserved"
        /\ adapter[c] = "busy" => ~Applied(key[c])
        /\ adapter[c] = "applied" => Applied(key[c])
        /\ Working => active # c /\ rec[c] # "none"
    BY <1>0, <1>1 DEF Confirmed, Adapting
  <2>2. /\ key[c] \in Requests /\ kind[key[c]] = "widget"
        /\ \A q \in Requests : key[q] = key[c] => kind[q] = "widget"
    BY <1>1, <2>1, KindOf
  <2>3. \A q \in orphans : key[q] # key[c]
    BY <1>0, <1>1, <2>1, <2>2 DEF Strays
  <2>4. rec[c] # "none"
    BY <1>0, <1>1 DEF Confirmed
  <2> QED
    BY <1>1, <2>1, <2>2, <2>3, <2>4, AppliedSame
<1>4. /\ status'[c] \in {"succeeded", "needs_clarification", "failed"}
      /\ status'[c] = "needs_clarification" <=> x = "needs_clarification"
      /\ rec'[c] = x /\ adapter'[c] = "none" /\ confirmer' = Nobody /\ ~confirming'[c]
      /\ \A q \in Requests \ {c} : /\ status'[q] = status[q] /\ rec'[q] = rec[q]
                                   /\ adapter'[q] = adapter[q] /\ confirming'[q] = confirming[q]
      /\ ledger'[key[c]] = l
      /\ \A k \in Requests \ {key[c]} : ledger'[k] = ledger[k]
  BY <1>0, <1>1, <1>2, <1>3 DEF Settle, StatusOf
<1>5. TypeOK'
  <2>1. StatusOf(x) \in Status /\ x \in RecState /\ l \in Ledger
    BY DEF StatusOf, Status, Outcome, RecState, Ledger
  <2> QED
    BY <1>0, <1>1, <1>2, <2>1 DEF Settle
<1>6. Unborn' /\ Families' /\ Down'
  BY <1>0, <1>1, <1>2, <1>3, <1>4 DEF Unborn, Families, Down
<1>7. Ledgered'
  BY <1>0, <1>1, <1>2, <1>3, <1>4 DEF Ledgered
<1>8. Adapting'
  BY <1>0, <1>1, <1>3, <1>4 DEF Adapting
<1>9. Confirmed'
  BY <1>4 DEF Confirmed
<1>10. Strays'
  BY <1>0, <1>1, <1>2, <1>3, <1>4 DEF Strays
<1>11. Undone' /\ Marked'
  BY <1>0, <1>1, <1>3, <1>4 DEF Undone, Marked, Working
<1>12. Worked' /\ Posted'
  BY <1>0, <1>1, <1>3, <1>4 DEF Worked, Posted, Working
<1>13. SaidIsDone' /\ OnceOnly'
  BY <1>0, <1>1, <1>2, <1>3, <1>4 DEF SaidIsDone, OnceOnly
<1>14. RunningIsHeld'
  BY <1>0, <1>1, <1>4 DEF RunningIsHeld
<1>15. \A q \in Requests : /\ status'[q] = "queued" => status[q] = "queued"
                           /\ status'[q] = "running" => status[q] \in ACTIVE
  BY <1>4 DEF ACTIVE
<1>16. QueueBound'
  BY <1>1, <1>15, QueueSame
<1> QED
  BY <1>5, <1>6, <1>7, <1>8, <1>9, <1>10, <1>11, <1>12, <1>13, <1>14, <1>16 DEF IInv

-----------------------------------------------------------------------------
(* New requests, the switch, and the life of the process.                  *)

LEMMA PathKinds ==
    ASSUME NEW k \in AllKinds, NEW w \in Paths[k]
    PROVE  /\ w \in {"fast", "rule", "model"}
           /\ w \in {"fast", "rule"} => k \notin {"legacy", "chat"}
  BY DEF Paths, AllKinds

LEMMA InsertKeeps ==
    ASSUME IInv, NEW r \in Requests, Insert(r)
    PROVE  IInv'
<1> USE DEF TypeOK
<1>0. /\ TypeOK /\ Unborn /\ Families /\ Ledgered /\ Down /\ Adapting /\ Confirmed
      /\ Strays /\ Marked /\ Undone /\ Worked /\ Posted
      /\ OnceOnly /\ SaidIsDone /\ RunningIsHeld /\ QueueBound
  BY DEF IInv
<1>1. PICK parent \in {Nobody} \cup (Stored \ Pending), k \in Kinds,
           w \in {"fast", "rule", "model"}, s \in {"running", "queued", "prepared"} :
        /\ w \in Paths[k]
        /\ parent # Nobody => k \in Kindred(kind[parent])
        /\ s = "running" <=> w = "fast"
        /\ s = "queued" => (enabled \/ w = "rule") /\ Cardinality(Pending) < MaxPending
        /\ status' = [status EXCEPT ![r] = s]
        /\ kind' = [kind EXCEPT ![r] = k] /\ path' = [path EXCEPT ![r] = w]
        /\ key' = [key EXCEPT ![r] = Family(r, parent)]
        /\ rec' = [rec EXCEPT ![r] = IF k = "legacy" THEN "none" ELSE "new"]
        /\ adapter' = [adapter EXCEPT ![r] = IF w = "fast" THEN "busy" ELSE "none"]
        /\ worker' = IF s = "queued" THEN Revived ELSE worker
  <2> DEFINE St(w) == IF w = "fast" THEN "running"
                      ELSE IF enabled \/ w = "rule" THEN "queued" ELSE "prepared"
  <2>0. \A k \in Kinds : Paths[k] \subseteq {"fast", "rule", "model"}
    BY PathKinds, HubAssumption
  <2>1. PICK parent \in {Nobody} \cup (Stored \ Pending), k \in Kinds,
             w \in {"fast", "rule", "model"} :
          /\ w \in Paths[k]
          /\ parent # Nobody => k \in Kindred(kind[parent])
          /\ St(w) = "queued" => Cardinality(Pending) < MaxPending
          /\ status' = [status EXCEPT ![r] = St(w)]
          /\ kind' = [kind EXCEPT ![r] = k] /\ path' = [path EXCEPT ![r] = w]
          /\ key' = [key EXCEPT ![r] = Family(r, parent)]
          /\ rec' = [rec EXCEPT ![r] = IF k = "legacy" THEN "none" ELSE "new"]
          /\ adapter' = [adapter EXCEPT ![r] = IF w = "fast" THEN "busy" ELSE "none"]
          /\ worker' = IF St(w) = "queued" THEN Revived ELSE worker
    BY <2>0 DEF Insert
  <2>2. /\ St(w) \in {"running", "queued", "prepared"}
        /\ St(w) = "running" <=> w = "fast"
        /\ St(w) = "queued" => enabled \/ w = "rule"
    OBVIOUS
  <2> HIDE DEF St
  <2> QED
    BY <2>1, <2>2
<1>2. /\ up /\ status[r] = "none"
      /\ UNCHANGED <<lost, confirming, ledger, enabled, up, listening, active, confirmer, orphans,
                     sent, applied>>
  BY DEF Insert, Fresh, config, past
<1>3. /\ key[r] = r /\ rec[r] = "none" /\ ledger[r] = "none" /\ adapter[r] = "none"
      /\ r \notin orphans /\ applied[r] = 0 /\ sent[r] = 0
      /\ \A q \in Requests \ {r} : key[q] # r
      /\ r # confirmer /\ (Working => active # r)
  <2>1. /\ key[r] = r /\ rec[r] = "none" /\ ledger[r] = "none" /\ adapter[r] = "none"
        /\ r \notin orphans /\ applied[r] = 0 /\ sent[r] = 0
        /\ r # confirmer /\ (Working => active # r)
    BY <1>0, <1>2, NobodyIs DEF Unborn, Posted, Confirmed, Worked
  <2>2. ASSUME NEW q \in Requests \ {r} PROVE key[q] # r
    <3>1. status[q] = "none" => key[q] = q
      BY <1>0 DEF Unborn
    <3>2. status[q] # "none" => status[key[q]] # "none"
      BY <1>0 DEF Families
    <3> QED
      BY <1>2, <3>1, <3>2
  <2> QED
    BY <2>1, <2>2
<1>4. /\ k \in AllKinds /\ w \in {"fast", "rule", "model"}
      /\ w \in {"fast", "rule"} => k \notin {"legacy", "chat"}
  BY <1>1, PathKinds, HubAssumption
<1>5. /\ worker' = worker \/ (worker = "dead" /\ worker' = "idle")
      /\ Working' = Working
      /\ worker' = "announce" => worker = "announce"
  BY <1>1 DEF Revived, Working
<1>6. /\ Family(r, parent) \in Requests
      /\ \/ Family(r, parent) = r
         \/ /\ parent \in Requests /\ Family(r, parent) = key[parent]
            /\ status[parent] # "none" /\ Family(r, parent) # r
            /\ key[key[parent]] = key[parent] /\ status[key[parent]] # "none"
            /\ Alike(kind[parent], kind[key[parent]]) /\ k \in Kindred(kind[parent])
  <2>1. CASE parent = Nobody \/ rec[parent] = "none"
    BY <2>1 DEF Family
  <2>2. CASE ~(parent = Nobody \/ rec[parent] = "none")
    <3>1. parent \in Requests /\ status[parent] # "none" /\ k \in Kindred(kind[parent])
      BY <1>1, <2>2 DEF Stored
    <3>2. parent # r /\ Family(r, parent) = key[parent]
      BY <1>2, <2>2, <3>1 DEF Family
    <3> QED
      BY <1>0, <1>3, <3>1, <3>2 DEF Families
  <2> QED
    BY <2>1, <2>2
<1>7. /\ status'[r] = s /\ kind'[r] = k /\ path'[r] = w /\ key'[r] = Family(r, parent)
      /\ rec'[r] \in {"none", "new"}
      /\ adapter'[r] = IF w = "fast" THEN "busy" ELSE "none"
      /\ \A q \in Requests \ {r} :
           /\ status'[q] = status[q] /\ kind'[q] = kind[q] /\ path'[q] = path[q]
           /\ key'[q] = key[q] /\ rec'[q] = rec[q] /\ adapter'[q] = adapter[q]
  BY <1>0, <1>1
<1>8. \A f \in Requests : Applied(f)' <=> Applied(f)
  <2>1. \A q \in Requests : applied[q] > 0 => key'[q] = key[q]
    BY <1>3, <1>7
  <2> QED
    BY <1>2, <2>1 DEF Applied
<1>9. TypeOK'
  <2>1. s \in Status /\ (IF k = "legacy" THEN "none" ELSE "new") \in RecState
    BY DEF Status, ACTIVE, RecState
  <2>2. worker' \in Place /\ (worker' \in {"announce", "call", "stage"} => active' \in Requests)
    BY <1>0, <1>2, <1>5 DEF Place
  <2>3. /\ status' \in [Requests -> Status] /\ kind' \in [Requests -> AllKinds]
        /\ path' \in [Requests -> {"fast", "rule", "model"}]
        /\ key' \in [Requests -> Requests] /\ rec' \in [Requests -> RecState]
        /\ adapter' \in [Requests -> {"none", "busy", "applied"}]
    BY <1>0, <1>1, <1>4, <1>6, <2>1
  <2> QED
    BY <1>0, <1>2, <2>2, <2>3
<1>10. Unborn'
  BY <1>0, <1>2, <1>7 DEF Unborn
<1>11. Families'
  <2>1. ASSUME NEW q \in Requests \ {r}
        PROVE  /\ key'[key'[q]] = key'[q] /\ Alike(kind'[q], kind'[key'[q]])
               /\ status'[q] # "none" => status'[key'[q]] # "none"
               /\ path'[q] \in Paths[kind'[q]]
    BY <1>0, <1>3, <1>7 DEF Families
  <2>2. CASE Family(r, parent) = r
    BY <1>1, <1>7, <2>1, <2>2 DEF Families, Alike
  <2>3. CASE Family(r, parent) # r
    <3>1. Alike(k, kind[key[parent]])
      BY <1>6, <2>3 DEF Alike, Kindred
    <3>2. /\ key'[key'[r]] = key'[r] /\ Alike(kind'[r], kind'[key'[r]])
          /\ status'[key'[r]] # "none"
      BY <1>0, <1>6, <1>7, <2>3, <3>1
    <3> QED
      BY <1>1, <1>7, <2>1, <3>2 DEF Families
  <2> QED
    BY <2>2, <2>3
<1>12. Ledgered'
  <2>1. ~Applied(r)
    BY <1>3 DEF Applied
  <2> QED
    BY <1>0, <1>2, <1>3, <1>7, <1>8, <2>1 DEF Ledgered
<1>13. Down' /\ Adapting'
  BY <1>0, <1>2, <1>3, <1>7, <1>8, <1>1 DEF Down, Adapting
<1>14. Confirmed'
  BY <1>0, <1>2, <1>3, <1>5, <1>7, <1>8 DEF Confirmed
<1>15. Strays'
  BY <1>0, <1>2, <1>3, <1>5, <1>7, <1>8 DEF Strays
<1>16. Undone' /\ Marked'
  BY <1>0, <1>2, <1>3, <1>5, <1>7 DEF Undone, Marked
<1>17. Worked' /\ Posted'
  BY <1>0, <1>1, <1>2, <1>3, <1>5, <1>7 DEF Worked, Posted, Working
<1>18. OnceOnly' /\ SaidIsDone'
  BY <1>0, <1>2, <1>3, <1>7, <1>8 DEF OnceOnly, SaidIsDone
<1>19. RunningIsHeld'
  BY <1>0, <1>1, <1>2, <1>5, <1>7 DEF RunningIsHeld, Working
<1>20. QueueBound'
  <2>1. CASE s = "queued"
    <3>1. enabled \/ kind'[r] \notin {"legacy", "chat"}
      BY <1>1, <1>4, <1>7, <2>1
    <3> QED
      BY <1>1, <1>2, <1>7, <2>1, <3>1, QueueGrows
  <2>2. CASE s # "queued"
    <3>1. \A q \in Requests : status'[q] = "queued" => status[q] = "queued"
      BY <1>7, <2>2
    <3>2. status'[r] \in ACTIVE => kind'[r] \notin {"legacy", "chat"}
      BY <1>1, <1>4, <1>7, <2>2 DEF ACTIVE
    <3>3. ~enabled' => \A q \in Requests : status'[q] \in ACTIVE => kind'[q] \notin {"legacy", "chat"}
      BY <1>0, <1>2, <1>7, <3>2 DEF QueueBound, Pending
    <3> QED
      BY <3>1, <3>3, QueueShrinks
  <2> QED
    BY <2>1, <2>2
<1> QED
  BY <1>9, <1>10, <1>11, <1>12, <1>13, <1>14, <1>15, <1>16, <1>17, <1>18, <1>19, <1>20 DEF IInv

LEMMA SwitchKeeps ==
    ASSUME IInv,
           \/ Configure \/ SpeechTurn \/ UNCHANGED vars
           \/ WorkerBreaks /\ worker = "idle"
    PROVE  IInv'
<1> USE DEF TypeOK
<1>0. /\ TypeOK /\ Unborn /\ Families /\ Ledgered /\ Down /\ Adapting /\ Confirmed
      /\ Strays /\ Marked /\ Undone /\ Worked /\ Posted
      /\ OnceOnly /\ SaidIsDone /\ RunningIsHeld /\ QueueBound
  BY DEF IInv
<1>1. /\ UNCHANGED <<status, kind, path, key, lost, rec, confirming, ledger, up, active, adapter,
                     confirmer, orphans, sent, applied>>
      /\ worker' = worker \/ {worker, worker'} = {"dead", "idle"}
      /\ enabled' = enabled \/ (enabled' \in BOOLEAN /\ Pending = {} /\ up)
      /\ listening' \in BOOLEAN /\ (up \/ worker' = worker)
  BY <1>0 DEF Configure, SpeechTurn, WorkerBreaks, vars, Revived, row, data, config, task, calls, past
<1>2. /\ Working' = Working /\ (worker' = "announce" <=> worker = "announce")
      /\ \A k \in Requests : Applied(k)' <=> Applied(k)
  BY <1>1, AppliedSame DEF Working
<1>3. TypeOK'
  BY <1>0, <1>1 DEF Place
<1>4. Unborn' /\ Families' /\ Ledgered' /\ Down' /\ Adapting'
  BY <1>0, <1>1, <1>2 DEF Unborn, Families, Ledgered, Down, Adapting
<1>5. Confirmed' /\ Strays' /\ Marked' /\ Undone' /\ Worked' /\ Posted'
  BY <1>0, <1>1, <1>2 DEF Confirmed, Strays, Marked, Undone, Worked, Posted
<1>6. OnceOnly' /\ SaidIsDone' /\ RunningIsHeld'
  BY <1>0, <1>1, <1>2 DEF OnceOnly, SaidIsDone, RunningIsHeld, Working
<1>7. QueueBound'
  BY <1>0, <1>1 DEF QueueBound, Pending
<1> QED
  BY <1>3, <1>4, <1>5, <1>6, <1>7 DEF IInv

LEMMA StartKeeps ==
    ASSUME IInv, Start \/ Close \/ Crash
    PROVE  IInv'
<1> USE DEF TypeOK
<1>0. /\ TypeOK /\ Unborn /\ Families /\ Ledgered /\ Down /\ Adapting /\ Confirmed
      /\ Strays /\ Marked /\ Undone /\ Worked /\ Posted
      /\ OnceOnly /\ SaidIsDone /\ RunningIsHeld /\ QueueBound
  BY DEF IInv
<1>1. /\ UNCHANGED <<kind, path, key, rec, confirming, ledger, enabled, listening, sent, applied>>
      /\ lost' \in {{}, lost} /\ up' = ~up /\ worker' \in {"idle", "off"} /\ (up => worker' = "off")
      /\ active' \in {active, Nobody}
      /\ adapter' \in [Requests -> {"none"}] /\ confirmer' = Nobody
      /\ \A r \in orphans' : r \in orphans \/ kind[r] = "timer"
      /\ orphans' \subseteq orphans \cup {r \in Requests : adapter[r] = "busy"}
  <2>1. CASE Start
    BY <1>0, <2>1 DEF Start, Down, row, past
  <2>2. CASE Close
    BY <1>0, <2>2 DEF Close, row, past
  <2>3. CASE Crash
    BY <1>0, <2>3 DEF Crash, row, data, past
  <2> QED
    BY <2>1, <2>2, <2>3
<1>2. /\ \A r \in Requests : \/ status'[r] = status[r]
                             \/ status[r] \in ACTIVE /\ status'[r] = "interrupted"
      /\ up' => \A r \in Requests : status'[r] # "running"
      /\ status' \in [Requests -> Status]
  <2>1. CASE Start \/ Close
    <3>1. status' = [r \in Requests |-> IF r \in Pending THEN "interrupted" ELSE status[r]]
      BY <2>1 DEF Start, Close, Interrupted
    <3>2. \A r \in Requests : r \in Pending <=> status[r] \in ACTIVE
      BY DEF Pending
    <3>3. \A r \in Requests :
             /\ status[r] \in ACTIVE => status'[r] = "interrupted"
             /\ status[r] \notin ACTIVE => status'[r] = status[r]
      BY <3>1, <3>2
    <3>4. status' \in [Requests -> Status]
      BY <1>0, <3>1 DEF Status
    <3> QED
      BY <3>3, <3>4 DEF ACTIVE
  <2>2. CASE Crash
    BY <1>0, <2>2 DEF Crash, data
  <2> QED
    BY <2>1, <2>2
<1>3. ~Working' /\ worker' # "announce" /\ \A k \in Requests : Applied(k)' <=> Applied(k)
  BY <1>1, AppliedSame DEF Working
<1>4. TypeOK'
  BY <1>0, <1>1, <1>2 DEF Place
<1>5. Unborn'
  BY <1>0, <1>1, <1>2 DEF Unborn, ACTIVE
<1>6. Families' /\ Ledgered'
  BY <1>0, <1>1, <1>2, <1>3 DEF Families, Ledgered, ACTIVE
<1>7. Down' /\ Adapting' /\ Confirmed'
  <2>1. \A r \in Requests : adapter'[r] = "none"
    BY <1>1
  <2> QED
    BY <1>0, <1>1, <2>1 DEF Down, Adapting, Confirmed
<1>8. Strays'
  <2>1. ASSUME NEW r \in orphans', kind[r] # "timer"
        PROVE  /\ r \in orphans /\ kind[r] = "widget" /\ r \in Requests
               /\ \A q \in Requests : key[q] = key[r] => kind[q] = "widget"
    <3>1. r \in orphans /\ kind[r] = "widget" /\ r \in Requests
      BY <1>0, <1>1, <2>1 DEF Strays
    <3> QED
      BY <3>1, KindOf
  <2>2. ASSUME NEW r \in orphans', kind[r] # "timer"
        PROVE  /\ ledger[key[r]] \in {"reserved", "uncertain"} /\ ~Applied(key[r])
               /\ status[r] \in {"needs_clarification", "deleted", "interrupted", "running"}
               /\ status[r] = "running" => confirming[r]
               /\ \A q \in orphans' : key[q] = key[r] => q = r
    <3>1. \A q \in orphans' : key[q] = key[r] => q \in orphans
      BY <1>0, <1>1, <2>1, <2>2
    <3> QED
      BY <1>0, <2>1, <2>2, <3>1 DEF Strays
  <2>3. \A r \in orphans' : r \in Requests /\ adapter'[r] = "none"
    BY <1>0, <1>1
  <2> QED
    BY <1>0, <1>1, <1>2, <1>3, <2>1, <2>2, <2>3 DEF Strays, ACTIVE
<1>9. Undone' /\ Marked'
  BY <1>0, <1>1, <1>2, <1>3 DEF Undone, Marked, ACTIVE
<1>10. Worked' /\ Posted'
  BY <1>0, <1>1, <1>2, <1>3 DEF Worked, Posted, ACTIVE
<1>11. OnceOnly' /\ SaidIsDone' /\ RunningIsHeld'
  BY <1>0, <1>1, <1>2, <1>3 DEF OnceOnly, SaidIsDone, RunningIsHeld
<1>12. \A q \in Requests : /\ status'[q] = "queued" => status[q] = "queued"
                           /\ status'[q] = "running" => status[q] \in ACTIVE
  BY <1>2 DEF ACTIVE
<1>13. QueueBound'
  BY <1>1, <1>12, QueueSame
<1> QED
  BY <1>4, <1>5, <1>6, <1>7, <1>8, <1>9, <1>10, <1>11, <1>13 DEF IInv

\* A database error: row, record and ledger stay as they are, and who was at
\* the row lets go of it.
LEMMA BreaksKeep ==
    ASSUME IInv, up, NEW r \in Requests, Leave(r),
           adapter' \in [Requests -> {"none", "busy", "applied"}], adapter'[r] \in {"none", adapter[r]},
           \A q \in Requests \ {r} : adapter'[q] = adapter[q],
           UNCHANGED <<kind, path, key, data, config, past>>,
           \/ /\ Working /\ r = active /\ worker' = "dead" /\ active' \in {active, Nobody}
              /\ UNCHANGED <<confirmer, orphans>>
           \/ /\ path[r] = "fast" /\ adapter'[r] = "none" /\ confirmer # r
              /\ UNCHANGED <<task, confirmer, orphans>>
           \/ /\ r = confirmer /\ adapter'[r] = "none" /\ confirmer' = Nobody /\ UNCHANGED task
              /\ \/ orphans' = orphans
                 \/ adapter[r] = "busy" /\ orphans' = orphans \cup {r}
    PROVE  IInv'
<1> USE DEF TypeOK
<1>0. /\ TypeOK /\ Unborn /\ Families /\ Ledgered /\ Down /\ Adapting /\ Confirmed
      /\ Strays /\ Marked /\ Undone /\ Worked /\ Posted
      /\ OnceOnly /\ SaidIsDone /\ RunningIsHeld /\ QueueBound
  BY DEF IInv
<1>1. /\ UNCHANGED <<status, kind, path, key, rec, confirming, ledger, enabled, listening, up,
                     sent, applied>>
      /\ \A k \in Requests : Applied(k)' <=> Applied(k)
  BY AppliedSame DEF data, config, past
<1>2. /\ lost \subseteq lost' /\ lost' \subseteq Requests
      /\ status[r] = "running" => r \in lost'
  BY <1>0 DEF Leave
<1>3. /\ (worker' = worker /\ active' = active) \/ (Working /\ r = active /\ worker' = "dead")
      /\ Working' => Working /\ active' = active /\ worker' = worker
      /\ confirmer' = confirmer \/ (r = confirmer /\ confirmer' = Nobody)
      /\ r = confirmer => confirmer' = Nobody
  BY <1>0, NobodyIs DEF task, Working, Worked, Confirmed
<1>4. TypeOK'
  BY <1>0, <1>1, <1>2, <1>3, NobodyIs DEF Working, Place, task
<1>5. Unborn' /\ Families' /\ Ledgered' /\ Down'
  BY <1>0, <1>1, <1>2, <1>3 DEF Unborn, Families, Ledgered, Down, Confirmed, Working
<1>6. Adapting' /\ Confirmed'
  BY <1>0, <1>1, <1>2, <1>3, NobodyIs DEF Adapting, Confirmed, Working
<1>7. Strays'
  <2>1. CASE orphans' = orphans
    BY <1>0, <1>1, <1>3, <2>1, NobodyIs DEF Strays, Working
  <2>2. CASE /\ r = confirmer /\ adapter[r] = "busy" /\ orphans' = orphans \cup {r}
             /\ adapter'[r] = "none" /\ confirmer' = Nobody /\ UNCHANGED task
    <3>1. /\ kind[r] = "widget" /\ ledger[key[r]] = "reserved" /\ ~Applied(key[r])
          /\ status[r] = "running" /\ confirming[r]
          /\ Working => active # r
      BY <1>0, <2>2, NobodyIs DEF Confirmed
    <3>2. \A q \in Requests : key[q] = key[r] => kind[q] = "widget"
      BY <3>1, KindOf
    <3>3. \A q \in orphans : key[q] # key[r]
      BY <1>0, <2>2, <3>2, NobodyIs DEF Strays
    <3> QED
      BY <1>0, <1>1, <1>3, <2>2, <3>1, <3>3, NobodyIs DEF Strays, Working
  <2> QED
    BY <2>1, <2>2
<1>8. Marked' /\ Undone'
  BY <1>0, <1>1, <1>2, <1>3, NobodyIs DEF Marked, Undone, Confirmed, Working
<1>9. Worked' /\ Posted'
  BY <1>0, <1>1, <1>2, <1>3 DEF Worked, Posted, Working
<1>10. OnceOnly' /\ SaidIsDone'
  BY <1>0, <1>1 DEF OnceOnly, SaidIsDone
<1>11. RunningIsHeld'
  BY <1>0, <1>1, <1>2, <1>3 DEF RunningIsHeld, Working
<1>12. QueueBound'
  BY <1>0, <1>1 DEF QueueBound, Pending
<1> QED
  BY <1>4, <1>5, <1>6, <1>7, <1>8, <1>9, <1>10, <1>11, <1>12 DEF IInv

LEMMA InitIInv == Init => IInv
<1> SUFFICES ASSUME Init PROVE IInv
  OBVIOUS
<1> USE DEF Init
<1>1. TypeOK
  BY DEF TypeOK, Status, ACTIVE, AllKinds, RecState, Ledger, Place, Nobody
<1>2. \A k \in Requests : ~Applied(k)
  BY DEF Applied
<1>3. Unborn /\ Ledgered /\ Down /\ Adapting /\ Confirmed /\ Strays
  BY <1>2 DEF Unborn, Ledgered, Down, Adapting, Confirmed, Strays
<1>4. Families
  BY DEF Families, Alike, Paths
<1>5. Marked /\ Undone /\ Worked /\ Posted /\ OnceOnly /\ SaidIsDone /\ RunningIsHeld
  BY DEF Marked, Undone, Worked, Posted, OnceOnly, SaidIsDone, RunningIsHeld, Working
<1>6. QueueBound
  <2>1. {r \in Requests : status[r] = "queued"} = {} /\ Pending = {}
    BY DEF Pending, ACTIVE
  <2> QED
    BY <2>1, FS_EmptySet, HubAssumption DEF QueueBound
<1> QED
  BY <1>1, <1>3, <1>4, <1>5, <1>6 DEF IInv

LEMMA NextIInv == IInv /\ [Next]_vars => IInv'
<1> SUFFICES ASSUME IInv, [Next]_vars PROVE IInv'
  OBVIOUS
<1>1. ASSUME NEW r \in Requests,
             \/ Insert(r) \/ RunPrepared(r) \/ Cancel(r) \/ Delete(r)
             \/ TimerCommit(r) \/ FastDone(r)
             \/ ConfirmTask(r) \/ Reserve(r) \/ LateCommit(r) \/ Pick(r)
      PROVE IInv'
  BY <1>1, InsertKeeps, RunPreparedKeeps, CancelKeeps, DeleteKeeps, TimerCommitKeeps,
     FastDoneKeeps, ConfirmTaskKeeps, ReserveKeeps, LateCommitKeeps, PickKeeps
<1>2. CASE Skip \/ Die \/ Dispatch \/ Rule \/ Answer \/ Propose \/ StageDone \/ CallFails
  BY <1>2, WorkerKeeps
<1>3. CASE Commit \/ ConfirmDone \/ ConfirmAborted
  BY <1>3, CommitKeeps, SettleKeeps
<1>4. CASE Configure \/ SpeechTurn \/ UNCHANGED vars \/ (WorkerBreaks /\ worker = "idle")
  BY <1>4, SwitchKeeps
<1>5. CASE Start \/ Close \/ Crash
  BY <1>5, StartKeeps
<1>6. CASE WorkerBreaks /\ worker # "idle"
  <2>1. TypeOK /\ Adapting
    BY DEF IInv
  <2>2. /\ Working /\ active \in Requests
        /\ worker' = "dead" /\ active' \in {active, Nobody}
    BY <1>6, <2>1 DEF WorkerBreaks, Working, TypeOK
  <2> QED
    BY <1>6, <2>1, <2>2, BreaksKeep DEF WorkerBreaks, TypeOK
<1>7. CASE ConfirmBreaks
  <2>1. TypeOK /\ confirmer \in Requests
    BY <1>7 DEF IInv, TypeOK, ConfirmBreaks
  <2> QED
    BY <1>7, <2>1, BreaksKeep DEF ConfirmBreaks, TypeOK
<1>8. ASSUME NEW r \in Requests, FastBreaks(r) PROVE IInv'
  <2>1. TypeOK
    BY DEF IInv
  <2> QED
    BY <1>8, <2>1, BreaksKeep DEF FastBreaks, TypeOK, task
<1> QED
  BY <1>1, <1>2, <1>3, <1>4, <1>5, <1>6, <1>7, <1>8 DEF Next, WorkerStep

-----------------------------------------------------------------------------
(* What a step may never do, and what the whole promises.                  *)

Ended(r) == status[r] \in {"succeeded", "failed", "interrupted", "needs_clarification"}
                         \cup (IF path[r] = "fast" THEN {} ELSE {"cancelled"})

\* The statuses a step may change, and those it may write.
LEMMA EndsStay ==
    ASSUME IInv, Next, NEW r \in Requests, Ended(r)
    PROVE  status'[r] \in {status[r], "deleted"} \/ (status'[r] = "succeeded" /\ ledger'[key[r]] # "none")
<1>1. status \in [Requests -> Status] /\ ledger \in [Requests -> Ledger] /\ key \in [Requests -> Requests]
  BY DEF IInv, TypeOK
<1>2. status[r] \notin {"none", "queued", "running", "prepared", "awaiting_confirmation"}
  BY DEF Ended
<1>3. ASSUME NEW q \in Requests,
             \/ Insert(q) \/ RunPrepared(q) \/ Cancel(q) \/ Delete(q) \/ TimerCommit(q)
             \/ Reserve(q) \/ LateCommit(q) \/ Pick(q)
      PROVE status'[r] \in {status[r], "deleted"}
  <2>1. CASE Insert(q) \/ RunPrepared(q) \/ Reserve(q) \/ Pick(q)
    <3>1. status[q] \in {"none", "prepared", "awaiting_confirmation", "queued"}
          /\ \E x \in Status : status' = [status EXCEPT ![q] = x]
      BY <1>1, <2>1 DEF Insert, Fresh, RunPrepared, Reserve, Pick, Oldest, Status, ACTIVE
    <3> QED
      BY <1>1, <1>2, <3>1
  <2>2. CASE Cancel(q)
    <3>1. /\ up /\ status[q] \in {"queued", "running", "prepared", "awaiting_confirmation"}
          /\ status' = [status EXCEPT ![q] = "cancelled"]
      BY <2>2 DEF Cancel, ACTIVE
    <3> QED
      BY <1>1, <1>2, <3>1
  <2>3. CASE Delete(q)
    BY <1>1, <2>3 DEF Delete
  <2>4. CASE TimerCommit(q) \/ LateCommit(q)
    BY <2>4 DEF TimerCommit, LateCommit, data
  <2> QED
    BY <1>3, <2>1, <2>2, <2>3, <2>4
<1>4. ASSUME NEW q \in Requests, FastDone(q) PROVE status'[r] = status[r]
  <2>1. /\ status[q] \in {"running", "cancelled", "deleted"} /\ path[q] = "fast"
        /\ status' = status \/ \E x : status' = [status EXCEPT ![q] = x]
        /\ status[q] = "deleted" => status' = status
    BY <1>4 DEF FastDone, IInv, Adapting
  <2> QED
    BY <1>1, <1>2, <2>1 DEF Ended
<1>5. ASSUME NEW q \in Requests, ConfirmTask(q)
      PROVE status'[r] = status[r] \/ (status'[r] = "succeeded" /\ ledger'[key[r]] # "none")
  <2>1. /\ status' = [status EXCEPT ![q] = "succeeded"]
        /\ \/ ledger[key[q]] # "none" /\ ledger' = ledger
           \/ ledger' = [ledger EXCEPT ![key[q]] = "complete"]
    BY <1>5 DEF ConfirmTask
  <2>2. CASE q = r
    <3>1. status'[r] = "succeeded" /\ ledger'[key[r]] # "none"
      BY <1>1, <2>1, <2>2
    <3> QED
      BY <3>1
  <2>3. CASE q # r
    BY <1>1, <2>1, <2>3
  <2> QED
    BY <2>2, <2>3
<1>6. CASE Skip \/ Die \/ Dispatch \/ Rule \/ Answer \/ Propose \/ StageDone \/ CallFails
  <2> DEFINE Ends == \E x : status' = [status EXCEPT ![active] = IF @ = "running" THEN x ELSE @]
  <2>1. Skip \/ Die \/ Dispatch \/ Propose => status' = status
    BY DEF Skip, Die, Dispatch, Propose, data
  <2>2. \A x : Record(active, x) => Ends
    BY DEF Record
  <2>3. Rule => Ends
    BY <2>2 DEF Rule
  <2>4. Answer => Ends \/ status' = status
    BY <2>2 DEF Answer
  <2>5. StageDone => Ends \/ status' = status
    BY <2>2 DEF StageDone
  <2>6. CallFails => Ends
    BY DEF CallFails, Failed
  <2>7. \/ status' = status
        \/ \E x : status' = [status EXCEPT ![active] = IF @ = "running" THEN x ELSE @]
    BY <1>6, <2>1, <2>3, <2>4, <2>5, <2>6
  <2> QED
    BY <1>1, <1>2, <2>7
<1>7. CASE ConfirmDone \/ ConfirmAborted
  <2>1. /\ status[confirmer] = "running"
        /\ \E x : status' = [status EXCEPT ![confirmer] = x]
    <3>1. confirmer # Nobody /\ \E x, l : Settle(x, l)
      BY <1>7 DEF ConfirmDone, ConfirmAborted
    <3>2. \E x : status' = [status EXCEPT ![confirmer] = x]
      BY <3>1 DEF Settle
    <3> QED
      BY <3>1, <3>2 DEF IInv, Confirmed
  <2> QED
    BY <1>1, <1>2, <2>1
<1>8. CASE \/ Commit \/ Configure \/ Crash \/ SpeechTurn \/ WorkerBreaks \/ ConfirmBreaks
           \/ \E q \in Requests : FastBreaks(q)
  <2>1. status' = status
    BY <1>8 DEF Commit, Configure, Crash, SpeechTurn, WorkerBreaks, ConfirmBreaks, FastBreaks, data
  <2> QED
    BY <2>1
<1>9. CASE Start \/ Close
  <2>1. status'[r] = IF r \in Pending THEN "interrupted" ELSE status[r]
    BY <1>9 DEF Start, Close, Interrupted
  <2>2. r \notin Pending
    BY <1>2 DEF Pending, ACTIVE
  <2> QED
    BY <2>1, <2>2
<1> QED
  BY <1>3, <1>4, <1>5, <1>6, <1>7, <1>8, <1>9 DEF Next, WorkerStep

\* What the ledger and the room tell of a family is all the promise is about.
LEMMA NothingNew ==
    ASSUME ledger' = ledger,
           \A k \in Requests : kind'[k] # "timer" /\ Applied(k)' <=> kind[k] # "timer" /\ Applied(k)
    PROVE  UNCHANGED Promise!vars
  BY DEF Promise!vars

\* A change that a stray thread or a confirmation makes.
LEMMA Making ==
    ASSUME IInv, NEW r \in Requests, kind[r] = "widget", ledger[key[r]] # "none",
           ~Applied(key[r]), applied' = [applied EXCEPT ![r] = @ + 1],
           UNCHANGED <<ledger, key, kind>>
    PROVE  Promise!Next
<1>0. key[r] \in Requests
  BY KindOf
<1> PICK k \in Requests : k = key[r]
  BY <1>0
<1>1. /\ k \in Requests /\ kind[k] = "widget"
      /\ \A f \in Requests : Applied(f)' <=> Applied(f) \/ f = k
  BY KindOf, FirstChange
<1>2. Promise!Make(k)
  BY <1>1 DEF Promise!Make
<1> QED
  BY <1>1, <1>2 DEF Promise!Next

\* Each step is one of the abstract ones, or none.
LEMMA StepImplements ==
    ASSUME IInv, IInv', [Next]_vars
    PROVE  [Promise!Next]_(Promise!vars)
<1>0. TypeOK /\ Unborn /\ Families /\ Ledgered /\ Adapting /\ Confirmed /\ Strays
  BY DEF IInv
<1>1. ASSUME ledger' = ledger, applied' = applied, kind' = kind, key' = key
      PROVE UNCHANGED Promise!vars
  BY <1>1, AppliedSame, NothingNew
<1>2. ASSUME NEW r \in Requests, Insert(r)
      PROVE UNCHANGED Promise!vars
  <2>1. /\ status[r] = "none" /\ ledger' = ledger /\ applied' = applied
        /\ \E k, f : kind' = [kind EXCEPT ![r] = k] /\ key' = [key EXCEPT ![r] = f]
    BY <1>2 DEF Insert, Fresh, past
  <2>2. applied[r] = 0 /\ \A q \in Requests : key[q] = r => q = r
    BY <1>0, <2>1 DEF Unborn, Families
  <2>3. \A q \in Requests \ {r} : kind'[q] = kind[q] /\ key'[q] = key[q]
    BY <1>0, <2>1 DEF TypeOK
  <2>4. /\ \A k \in Requests : Applied(k)' <=> Applied(k)
        /\ ~Applied(r)
    BY <2>1, <2>2, <2>3 DEF Applied
  <2> QED
    BY <2>1, <2>3, <2>4, NothingNew
<1>3. ASSUME NEW r \in Requests, TimerCommit(r) \/ LateCommit(r)
      PROVE Promise!Next \/ UNCHANGED Promise!vars
  <2>1. /\ UNCHANGED <<ledger, key, kind>>
        /\ applied' = applied \/ applied' = [applied EXCEPT ![r] = @ + 1]
        /\ kind[r] = "timer" => applied' = applied \/ ~Applied(key[r])
        /\ kind[r] # "timer" => r \in orphans
    BY <1>3 DEF TimerCommit, LateCommit, row, data
  <2>2. CASE applied' = applied
    BY <1>1, <2>1, <2>2
  <2>3. CASE applied' # applied /\ kind[r] = "timer"
    <3>1. kind[key[r]] = "timer" /\ \A f \in Requests : Applied(f)' <=> Applied(f) \/ f = key[r]
      BY <2>1, <2>3, KindOf, FirstChange
    <3> QED
      BY <2>1, <3>1, NothingNew
  <2>4. CASE applied' # applied /\ kind[r] # "timer"
    <3>1. kind[r] = "widget" /\ ledger[key[r]] # "none" /\ ~Applied(key[r])
      BY <1>0, <2>1, <2>4 DEF Strays
    <3> QED
      BY <2>1, <2>4, <3>1, Making
  <2> QED
    BY <2>2, <2>3, <2>4
<1>4. ASSUME NEW r \in Requests, ConfirmTask(r)
      PROVE Promise!Next \/ UNCHANGED Promise!vars
  <2>1. CASE UNCHANGED <<ledger, applied>>
    BY <1>1, <1>4, <2>1 DEF ConfirmTask, row
  <2>2. CASE /\ ledger[key[r]] = "none" /\ ledger' = [ledger EXCEPT ![key[r]] = "complete"]
             /\ applied' = [applied EXCEPT ![r] = @ + 1]
    <3>1. kind[r] = "task" /\ UNCHANGED <<kind, key>> /\ key[r] \in Requests
      BY <1>0, <1>4 DEF ConfirmTask, row, TypeOK
    <3> PICK k \in Requests : k = key[r]
      BY <3>1
    <3>2. k \in Requests /\ kind[k] = "task"
      BY <3>1, KindOf
    <3>3. ~Applied(k)
      BY <1>0, <2>2, <3>2 DEF Ledgered
    <3>4. \A f \in Requests : Applied(f)' <=> Applied(f) \/ f = k
      BY <2>2, <3>1, <3>3, FirstChange
    <3>5. ledger'[k] = "complete" /\ \A f \in Requests \ {k} : ledger'[f] = ledger[f]
      BY <1>0, <2>2, <3>2 DEF TypeOK
    <3>6. Promise!AtOnce(k)
      BY <2>2, <3>1, <3>2, <3>4, <3>5 DEF Promise!AtOnce
    <3> QED
      BY <3>2, <3>6 DEF Promise!Next
  <2>3. \/ UNCHANGED <<ledger, applied>>
        \/ /\ ledger[key[r]] = "none" /\ ledger' = [ledger EXCEPT ![key[r]] = "complete"]
           /\ applied' = [applied EXCEPT ![r] = @ + 1]
    BY <1>4 DEF ConfirmTask
  <2> QED
    BY <2>1, <2>2, <2>3
<1>5. ASSUME NEW r \in Requests, Reserve(r)
      PROVE Promise!Next
  <2> PICK k \in Requests : k = key[r]
    BY <1>0 DEF TypeOK
  <2>1. /\ ledger[k] = "none" /\ ledger' = [ledger EXCEPT ![k] = "reserved"]
        /\ UNCHANGED <<kind, key, applied>> /\ k \in Requests
    BY <1>0, <1>5 DEF Reserve, row, past, TypeOK
  <2>2. ledger'[k] = "reserved" /\ \A f \in Requests \ {k} : ledger'[f] = ledger[f]
    BY <1>0, <2>1 DEF TypeOK
  <2>3. \A f \in Requests : Applied(f)' <=> Applied(f)
    BY <2>1, AppliedSame
  <2>4. Promise!Ask(k)
    BY <2>1, <2>2, <2>3 DEF Promise!Ask
  <2> QED
    BY <2>1, <2>4 DEF Promise!Next
<1>6. CASE Commit
  <2>1. /\ confirmer \in Requests /\ confirmer # Nobody /\ adapter[confirmer] = "busy"
        /\ applied' = [applied EXCEPT ![confirmer] = @ + 1] /\ UNCHANGED <<ledger, key, kind>>
    BY <1>0, <1>6 DEF Commit, TypeOK, row, data
  <2>2. /\ kind[confirmer] = "widget" /\ ledger[key[confirmer]] = "reserved"
        /\ ~Applied(key[confirmer])
    BY <1>0, <2>1 DEF Confirmed
  <2> QED
    BY <2>1, <2>2, Making
<1>7. CASE ConfirmDone \/ ConfirmAborted
  <2>0. confirmer \in Requests
    BY <1>0, <1>7 DEF ConfirmDone, ConfirmAborted, TypeOK
  <2> PICK k \in Requests : k = key[confirmer]
    BY <1>0, <2>0 DEF TypeOK
  <2>1. /\ confirmer \in Requests /\ confirmer # Nobody /\ UNCHANGED <<kind, key, applied>>
        /\ \E l \in {"complete", "uncertain"} :
             /\ ledger' = [ledger EXCEPT ![k] = l]
             /\ l = "complete" => adapter[confirmer] = "applied"
    BY <1>0, <1>7 DEF ConfirmDone, ConfirmAborted, Settle, TypeOK, row, past
  <2>2. /\ kind[confirmer] = "widget" /\ ledger[k] = "reserved"
        /\ adapter[confirmer] = "applied" => Applied(k)
    BY <1>0, <2>1 DEF Confirmed, Adapting
  <2>3. k \in Requests /\ kind[k] = "widget"
    BY <2>1, <2>2, KindOf
  <2>4. \A f \in Requests : Applied(f)' <=> Applied(f)
    BY <2>1, AppliedSame
  <2>5. /\ ledger'[k] \in {"complete", "uncertain"} /\ (ledger'[k] = "complete" => Applied(k))
        /\ \A f \in Requests \ {k} : ledger'[f] = ledger[f]
    BY <1>0, <2>1, <2>2, <2>3 DEF TypeOK
  <2>6. Promise!Say(k)
    BY <2>1, <2>2, <2>3, <2>4, <2>5 DEF Promise!Say
  <2> QED
    BY <2>3, <2>6 DEF Promise!Next
<1>8. ASSUME NEW r \in Requests,
             RunPrepared(r) \/ Cancel(r) \/ Delete(r) \/ FastDone(r) \/ Pick(r)
      PROVE UNCHANGED Promise!vars
  BY <1>1, <1>8 DEF RunPrepared, Cancel, Delete, FastDone, Pick, row, past
<1>9. CASE \/ Skip \/ Die \/ Dispatch \/ Rule \/ Answer \/ Propose \/ StageDone \/ CallFails
           \/ WorkerBreaks \/ ConfirmBreaks \/ \E r \in Requests : FastBreaks(r)
           \/ Configure \/ Start \/ Close \/ Crash \/ SpeechTurn \/ UNCHANGED vars
  BY <1>1, <1>9 DEF Skip, Die, Dispatch, Rule, Answer, Propose, StageDone, CallFails,
     WorkerBreaks, ConfirmBreaks, FastBreaks, Configure, Start, Close, Crash, SpeechTurn, vars, row, data, past
<1> QED
  BY <1>2, <1>3, <1>4, <1>5, <1>6, <1>7, <1>8, <1>9 DEF Next, WorkerStep

LEMMA InitImplements == Init => Promise!Init
<1> SUFFICES ASSUME Init PROVE Promise!Init
  OBVIOUS
<1>1. \A k \in Requests : ledger[k] = "none" /\ ~Applied(k)
  BY DEF Init, Applied
<1> QED
  BY <1>1 DEF Promise!Init

-----------------------------------------------------------------------------
(* The results.                                                            *)

\* Every reachable state satisfies the inductive invariant.
THEOREM Invariant == Spec => []IInv
BY InitIInv, NextIInv, PTL DEF Spec

\* What a person is told is true: a record says "executed" only of a change that
\* was made, and a cancelled request to be confirmed has changed nothing.
THEOREM Honesty == Spec => []Truthful
<1>1. IInv => Truthful
  BY DEF IInv, Truthful, CancelledDidNothing, Undone, TypeOK
<1> QED
  BY <1>1, Invariant, PTL

\* A family's change is made once, nothing is posted twice, a row is left running
\* only by a database error of this process, and the queue keeps its limit.
THEOREM Once == Spec => []WorkOnce
<1>1. IInv => WorkOnce
  BY DEF IInv, WorkOnce, Posted, SentOnce
<1> QED
  BY <1>1, Invariant, PTL

\* A finished request keeps its status, but for a to-do change of its family.
THEOREM Final == Spec => FinalStays
<1>1. IInv /\ [Next]_vars =>
        [\A r \in Requests :
           \/ status[r] \notin {"succeeded", "failed", "interrupted", "needs_clarification"}
                             \union (IF path[r] = "fast" THEN {} ELSE {"cancelled"})
           \/ status'[r] \in {status[r], "deleted"}
           \/ status'[r] = "succeeded" /\ ledger'[key[r]] # "none"]_vars
  BY EndsStay DEF Ended
<1> QED
  BY <1>1, Invariant, PTL DEF FinalStays, Spec

\* The request hub implements the promise of a confirmed change: confirmed
\* before it is made, made once, answered truly or as unknown
\* (AssistantEngine.confirm(), WidgetBridge.confirm() and the threads they leave).
THEOREM Implements == Spec => PromiseKept
<1>1. IInv /\ IInv' /\ [Next]_vars => [Promise!Next]_(Promise!vars)
  BY StepImplements
<1> QED
  BY <1>1, InitImplements, Invariant, PTL DEF PromiseKept, Promise!Spec, Spec

=============================================================================
