------------------------ MODULE WidgetRegistry_proofs ------------------------
(***************************************************************************)
(* Proofs about the widget registry, for any calls, keys, screens, versions*)
(* and restarts: no edit is lost, a key changes something once, a reply is *)
(* true.  Rows only grow (Grow), so that what a reply says once stays true;*)
(* a call's place says what the lock and the receipts must be (Fit).       *)
(***************************************************************************)
EXTENDS WidgetRegistry, TLAPS

CallRows == [at : Places, key : Keys \cup {None}, op : Ops \cup {None},
             base : SUBSET (1 .. MaxVersion),
             reply : {"none", "refused", "success", "uncertain", "cancelled"},
             effect : {"none", "made"}, epoch : 0 .. MaxRestarts, confirmed : BOOLEAN]

Typed ==
    /\ call \in [Calls -> CallRows]
    /\ receipts \in [Keys -> Entries \cup {None}]
    /\ lock \in Calls \cup {None} /\ epoch \in 0 .. MaxRestarts

\* The tables.
RowsOK ==
    /\ item \in [Items -> Rows] /\ series \in BOOLEAN
    /\ added \in [Keys -> Nat] /\ created \in [Keys -> Nat]
    /\ durable \in [Keys -> {"create", None}]
    /\ \A i \in Items : item[i].live => item[i].text = 1 .. item[i].version
    /\ series <=> \E t \in Tasks : item[t].live
    /\ \A k \in Keys : created[k] <= 1 /\ (durable[k] = None <=> created[k] = 0)

\* What a screen shows was all there is at that version.
Shows == \A s \in Screens : seen[s] # None =>
            /\ seen[s].id \in Items /\ seen[s].row \in Rows
            /\ seen[s].row.version < MaxVersion
            /\ seen[s].row.text = 1 .. seen[s].row.version

\* What a success says.
Told(k, o) ==
    /\ o.kind = "add" => added[k] > 0
    /\ o.kind = "create" => created[k] > 0
    /\ o.kind = "delete" => ~item[o.item].live
    /\ o.kind \in {"append", "complete", "reopen"} =>
          \/ ~item[o.item].live
          \/ item[o.item].version > o.version
          \/ /\ o.kind # "append" /\ item[o.item].version = o.version
             /\ item[o.item].done = (o.kind = "complete")

\* A submitted request, and what its place in execute() implies.
Submitted(r) ==
    r.at # "new" =>
       /\ r.key \in Keys /\ r.op \in Ops
       /\ r.op.kind \notin {"add", "create"} =>
             r.op.version <= item[r.op.item].version /\ r.op.version < MaxVersion

Placed(c, r) ==
    /\ r.at \in Inside => lock = c /\ receipts[r.key] = None
    /\ r.at = "orphan" => receipts[r.key] # None
    /\ r.at \notin {"new", "done", "lost"} => r.epoch = epoch
    /\ r.epoch <= epoch
    /\ r.at \in {"read", "write", "orphan"} => r.op.kind \in {"append", "create"}
    /\ r.at \in {"write", "orphan"} /\ r.op.kind = "append" => r.base = 1 .. r.op.version

Honest(c, r) ==
    /\ r.at \in {"wait", "orphan"} \cup Inside => r.confirmed
    /\ r.at \notin {"announce", "done", "lost"} => r.effect = "none"
    /\ r.at = "announce" => r.effect = "made" /\ Told(r.key, r.op)
    /\ r.effect = "made" => r.confirmed
    /\ r.effect = "made" /\ r.epoch = epoch /\ r.at # "announce" => receipts[r.key] # None
    /\ r.at \notin {"orphan", "done", "lost"} => r.reply = "none"
    /\ r.at \in {"orphan", "lost"} => r.reply \in {"none", "cancelled"}
    /\ r.reply = "refused" => r.effect = "none"
    /\ r.reply = "success" => Told(r.key, r.op)
    /\ r.at = "new" => r.effect = "none" /\ r.reply = "none"

Fit(c, r) == Submitted(r) /\ Placed(c, r) /\ Honest(c, r)

\* Two calls with one key in one process: one change, and no thread on its way.
Apart(r, q) ==
    r.key = q.key /\ r.at # "new" /\ q.at # "new" =>
       /\ r.epoch = q.epoch => ~(r.effect = "made" /\ q.effect = "made")
       /\ r.at = "orphan" => q.at # "orphan" /\ ~(q.effect = "made" /\ q.epoch = epoch)

IInv ==
    /\ Typed /\ RowsOK /\ Shows
    /\ \A k \in Keys : receipts[k] # None /\ receipts[k].outcome = "success"
          => Told(k, receipts[k].op)
    /\ \A c \in Calls : Fit(c, call[c])
    /\ \A c, d \in Calls : c # d => Apart(call[c], call[d])

-----------------------------------------------------------------------------
(* The rows.                                                               *)

\* A row's version only grows, a deleted row stays deleted, and what a row says
\* of its task changes with its version.
Grow ==
    /\ \A i \in Items : /\ item'[i].live => item[i].live
                        /\ item'[i].version >= item[i].version
                        /\ item'[i].version = item[i].version => item'[i].done = item[i].done
    /\ \A k \in Keys : added'[k] >= added[k] /\ created'[k] >= created[k]

LEMMA OpType ==
    ASSUME NEW o \in Ops
    PROVE  /\ o.kind \in {"append", "complete", "reopen", "delete", "add", "create"}
           /\ o.kind \notin {"add", "create"} => o.item \in Items /\ o.version \in 1 .. MaxVersion
           /\ o.kind = "append" => o.item = Note
           /\ o.kind \in {"complete", "reopen", "delete"} => o.item \in Tasks
  BY DEF Ops, Items

\* What was true to say stays true.
LEMMA ToldStable ==
    ASSUME RowsOK, RowsOK', Grow, NEW k \in Keys, NEW o \in Ops, Told(k, o)
    PROVE  Told(k, o)'
<1> USE BoundsAssumption
<1>1. CASE o.kind \in {"add", "create"}
  BY <1>1 DEF Told, Grow, RowsOK
<1>2. CASE o.kind \notin {"add", "create"}
  <2>1. o.item \in Items /\ o.version \in Int
    BY <1>2, OpType
  <2>2. /\ item[o.item].version \in Int /\ item'[o.item].version \in Int
        /\ item'[o.item].live => item[o.item].live
        /\ item'[o.item].version >= item[o.item].version
        /\ item'[o.item].version = item[o.item].version => item'[o.item].done = item[o.item].done
    BY <2>1 DEF Grow, RowsOK, Rows
  <2>3. CASE item[o.item].live /\ item'[o.item].live
    BY <1>2, <2>1, <2>2, <2>3 DEF Told
  <2>4. CASE ~(item[o.item].live /\ item'[o.item].live)
    BY <1>2, <2>1, <2>2, <2>4 DEF Told
  <2> QED
    BY <2>3, <2>4
<1> QED
  BY <1>1, <1>2

\* An accepted edit, of one who has seen all before it.
LEMMA UpdatedGrows ==
    ASSUME RowsOK, NEW i \in Items, NEW v \in 1 .. MaxVersion, v < MaxVersion,
           Current(i, v), NEW base, base = 1 .. v,
           item' = Updated(i, base), UNCHANGED <<series, added, created, durable>>
    PROVE  RowsOK' /\ Grow /\ item'[i].version = v + 1
<1> USE BoundsAssumption
<1>1. item[i] \in Rows /\ item[i].version = v /\ item[i].live
  BY DEF RowsOK, Current
<1>2. /\ (1 .. v) \cup {v + 1} = 1 .. (v + 1)
      /\ v + 1 \in 1 .. MaxVersion /\ 1 .. (v + 1) \in SUBSET (1 .. MaxVersion)
  OBVIOUS
<1> DEFINE new == [item[i] EXCEPT !.version = v + 1, !.text = 1 .. (v + 1)]
<1>3. item' = [item EXCEPT ![i] = new]
  BY <1>1, <1>2 DEF Updated, RowsOK, Rows
<1>4. /\ new.version = v + 1 /\ new.text = 1 .. (v + 1) /\ new.live = item[i].live
      /\ new.done = item[i].done
  BY <1>1 DEF Rows
<1>12. new \in Rows
  BY <1>1, <1>2 DEF Rows
<1> HIDE DEF new
<1>5. \A j \in Items : item'[j] = IF j = i THEN new ELSE item[j]
  BY <1>3 DEF RowsOK
<1>6. \A j \in Items : item'[j].live = item[j].live
  BY <1>4, <1>5
<1>7. item' \in [Items -> Rows]
  BY <1>3, <1>12 DEF RowsOK
<1>8. series <=> \E t \in Tasks : item'[t].live
  BY <1>6 DEF RowsOK, Items
<1>9. \A j \in Items : item'[j].live => item'[j].text = 1 .. item'[j].version
  BY <1>4, <1>5 DEF RowsOK
<1>10. RowsOK'
  BY <1>7, <1>8, <1>9 DEF RowsOK
<1>11. Grow
  <2>1. ASSUME NEW j \in Items
        PROVE  /\ item'[j].live => item[j].live
               /\ item'[j].version >= item[j].version
               /\ item'[j].version = item[j].version => item'[j].done = item[j].done
    <3>1. item[j].version \in Int
      BY DEF RowsOK, Rows
    <3> QED
      BY <1>1, <1>4, <1>5, <3>1
  <2> QED
    BY <2>1, <1>6 DEF Grow, RowsOK
<1> QED
  BY <1>4, <1>5, <1>10, <1>11

\* A completion.
LEMMA CompletedGrows ==
    ASSUME RowsOK, NEW i \in Items, NEW v \in 1 .. MaxVersion, v < MaxVersion,
           Current(i, v), NEW want \in BOOLEAN,
           item' = Completed(i, want), UNCHANGED <<series, added, created, durable>>
    PROVE  RowsOK' /\ Grow /\ item'[i].version = v + 1
<1> USE BoundsAssumption
<1>1. item[i] \in Rows /\ item[i].version = v /\ item[i].live /\ item[i].text = 1 .. v
  BY DEF RowsOK, Current
<1>2. /\ (1 .. v) \cup {v + 1} = 1 .. (v + 1)
      /\ v + 1 \in 1 .. MaxVersion /\ 1 .. (v + 1) \in SUBSET (1 .. MaxVersion)
  OBVIOUS
<1> DEFINE new == [item[i] EXCEPT !.version = v + 1, !.done = want, !.text = 1 .. (v + 1)]
<1>3. item' = [item EXCEPT ![i] = new]
  BY <1>1, <1>2 DEF Completed, RowsOK, Rows
<1>4. /\ new.version = v + 1 /\ new.text = 1 .. (v + 1) /\ new.live = item[i].live
  BY <1>1 DEF Rows
<1>12. new \in Rows
  BY <1>1, <1>2 DEF Rows
<1> HIDE DEF new
<1>5. \A j \in Items : item'[j] = IF j = i THEN new ELSE item[j]
  BY <1>3 DEF RowsOK
<1>6. \A j \in Items : item'[j].live = item[j].live
  BY <1>4, <1>5
<1>7. item' \in [Items -> Rows]
  BY <1>3, <1>12 DEF RowsOK
<1>8. series <=> \E t \in Tasks : item'[t].live
  BY <1>6 DEF RowsOK, Items
<1>9. \A j \in Items : item'[j].live => item'[j].text = 1 .. item'[j].version
  BY <1>4, <1>5 DEF RowsOK
<1>10. RowsOK'
  BY <1>7, <1>8, <1>9 DEF RowsOK
<1>11. Grow
  <2>1. ASSUME NEW j \in Items
        PROVE  /\ item'[j].live => item[j].live
               /\ item'[j].version >= item[j].version
               /\ item'[j].version = item[j].version => item'[j].done = item[j].done
    <3>1. item[j].version \in Int
      BY DEF RowsOK, Rows
    <3> QED
      BY <1>1, <1>4, <1>5, <3>1
  <2> QED
    BY <2>1, <1>6 DEF Grow, RowsOK
<1> QED
  BY <1>4, <1>5, <1>10, <1>11

\* A deletion; the series goes with its last task.
LEMMA GoneGrows ==
    ASSUME RowsOK, NEW gone \in SUBSET Items, item' = Without(gone),
           series' = (series /\ \E t \in Tasks \ gone : item[t].live),
           UNCHANGED <<added, created, durable>>
    PROVE  RowsOK' /\ Grow /\ \A i \in gone : ~item'[i].live
<1>1. \A i \in Items : item'[i] = IF i \in gone THEN [item[i] EXCEPT !.live = FALSE] ELSE item[i]
  BY DEF Without
<1>2. \A i \in Items : /\ item'[i] \in Rows /\ item'[i].version = item[i].version
                       /\ item'[i].done = item[i].done /\ item'[i].text = item[i].text
                       /\ item'[i].live <=> (item[i].live /\ i \notin gone)
  BY <1>1 DEF RowsOK, Rows
<1>3. item' \in [Items -> Rows]
  BY <1>2 DEF Without
<1>4. series' \in BOOLEAN /\ (series' <=> \E t \in Tasks : item'[t].live)
  <2>1. Tasks \subseteq Items
    BY DEF Items
  <2> QED
    BY <1>2, <2>1 DEF RowsOK
<1>5. RowsOK'
  BY <1>2, <1>3, <1>4 DEF RowsOK
<1>6. Grow
  BY <1>2 DEF Grow, RowsOK, Rows
<1> QED
  BY <1>2, <1>5, <1>6

LEMMA UnchangedGrows ==
    ASSUME RowsOK, UNCHANGED rows
    PROVE  RowsOK' /\ Grow
<1>1. UNCHANGED <<item, series, added, created, durable>>
  BY DEF rows
<1>2. RowsOK'
  BY <1>1 DEF RowsOK
<1>3. \A i \in Items : item[i].version \in Int
  BY DEF RowsOK, Rows
<1>4. \A k \in Keys : added[k] \in Int /\ created[k] \in Int
  BY DEF RowsOK
<1> QED
  BY <1>1, <1>2, <1>3, <1>4 DEF Grow

-----------------------------------------------------------------------------
(* A step of one call, and what it owes to the others.                     *)

\* Only who has the lock, or takes it, passes it on or writes a receipt.
Passes(c)  == lock' = lock \/ (lock \in {None, c} /\ lock' \in {None, c})
Writes(c, k) ==
    \/ receipts' = receipts
    \/ /\ lock \in {None, c} /\ k \in Keys
       /\ \E e \in Entries : /\ receipts' = [receipts EXCEPT ![k] = e]
                             /\ e.outcome = "success" => Told(k, e.op)'

LEMMA CallFrame ==
    ASSUME IInv, NEW c \in Calls, NEW r \in CallRows,
           call' = [call EXCEPT ![c] = r], UNCHANGED <<seen, epoch>>,
           RowsOK', Grow, Passes(c), Writes(c, r.key), Fit(c, r)',
           \A d \in Calls \ {c} : Apart(r, call[d]) /\ Apart(call[d], r)
    PROVE  IInv'
<1> USE NoneAssumption DEF IInv
<1>1. call'[c] = r /\ \A d \in Calls \ {c} : call'[d] = call[d]
  BY DEF Typed
<1>2. Typed'
  BY DEF Typed, Passes, Writes
<1>3. Shows'
  BY DEF Shows
<1>4. ASSUME NEW k \in Keys, receipts'[k] # None, receipts'[k].outcome = "success"
      PROVE  Told(k, receipts[k].op)'
  <2>1. CASE receipts'[k] = receipts[k]
    <3>1. Told(k, receipts[k].op) /\ receipts[k].op \in Ops
      BY <1>4, <2>1 DEF Typed, Entries
    <3>2. PICK o \in Ops : o = receipts[k].op
      BY <3>1
    <3>3. Told(k, o)'
      BY <3>1, <3>2, ToldStable
    <3>4. o = receipts'[k].op
      BY <2>1, <3>2
    <3> QED
      BY <3>3, <3>4
  <2>2. CASE receipts'[k] # receipts[k]
    <3>1. PICK e \in Entries : /\ receipts' = [receipts EXCEPT ![r.key] = e]
                               /\ e.outcome = "success" => Told(r.key, e.op)'
      BY <2>2 DEF Writes
    <3>2. k = r.key /\ receipts'[k] = e
      BY <2>2, <3>1 DEF Typed
    <3> QED
      BY <1>4, <3>1, <3>2
  <2> QED
    BY <2>1, <2>2
<1>5. \A k \in Keys : receipts[k] # None => receipts'[k] # None
  BY DEF Writes, Typed
<1>6. ASSUME NEW d \in Calls \ {c} PROVE Fit(d, call[d])'
  <2> PICK q \in CallRows : q = call[d]
    BY DEF Typed
  <2>0. call'[d] = q /\ Fit(d, q)
    BY <1>1
  <2>1. q.at # "new" => q.key \in Keys /\ q.op \in Ops
    BY <2>0 DEF Fit, Submitted
  <2>2. Submitted(q)'
    <3>1. ASSUME q.at # "new", q.op.kind \notin {"add", "create"}
          PROVE  q.op.version <= item'[q.op.item].version
      <4>1. q.op \in Ops /\ q.op.version <= item[q.op.item].version
        BY <2>0, <3>1 DEF Fit, Submitted
      <4>2. q.op.item \in Items /\ q.op.version \in 1 .. MaxVersion
        BY <3>1, <4>1, OpType
      <4>3. /\ item[q.op.item].version \in Int /\ item'[q.op.item].version \in Int
            /\ item'[q.op.item].version >= item[q.op.item].version
        BY <4>2 DEF RowsOK, Rows, Grow
      <4> QED
        BY <4>1, <4>2, <4>3
    <3> QED
      BY <2>0, <3>1 DEF Fit, Submitted
  <2>3. q.at \in Inside => lock' = lock /\ receipts' = receipts
    BY <2>0 DEF Fit, Placed, Passes, Writes
  <2>4. q.at # "new" /\ receipts[q.key] # None => receipts'[q.key] # None
    BY <2>1, <1>5
  <2>5. Placed(d, q)'
    BY <2>0, <2>3, <2>4 DEF Fit, Placed
  <2>6. q.at # "new" /\ Told(q.key, q.op) => Told(q.key, q.op)'
    BY <2>1, ToldStable
  <2>7. Honest(d, q)'
    BY <2>0, <2>4, <2>6 DEF Fit, Honest
  <2> QED
    BY <2>0, <2>2, <2>5, <2>7 DEF Fit
<1>7. Fit(c, call[c])'
  BY <1>1
<1>8. ASSUME NEW a \in Calls, NEW b \in Calls, a # b PROVE Apart(call[a], call[b])'
  BY <1>1, <1>8 DEF Apart
<1> QED
  BY <1>2, <1>3, <1>4, <1>6, <1>7, <1>8

\* Keeping one's effect keeps calls apart.
LEMMA ApartKeeps ==
    ASSUME IInv, NEW c \in Calls, NEW d \in Calls \ {c}, NEW r \in CallRows,
           r.key = call[c].key, r.epoch = call[c].epoch,
           r.effect \in {"none", call[c].effect},
           r.at = "orphan" => call[c].at = "orphan", call[c].at # "new"
    PROVE  Apart(r, call[d]) /\ Apart(call[d], r)
<1>1. Apart(call[c], call[d]) /\ Apart(call[d], call[c])
  BY DEF IInv
<1> QED
  BY <1>1 DEF Apart

\* A key without a receipt, under the lock, is new to this process.
LEMMA ApartFresh ==
    ASSUME IInv, NEW c \in Calls, NEW d \in Calls \ {c}, NEW r \in CallRows,
           r.key \in Keys, receipts[r.key] = None, lock \in {None, c}, r.epoch = epoch
    PROVE  Apart(r, call[d]) /\ Apart(call[d], r)
<1>1. Fit(d, call[d])
  BY DEF IInv
<1> QED
  BY <1>1, NoneAssumption DEF Apart, Fit, Placed, Honest, Inside

\* An answer, whatever it says, as long as it is true.
LEMMA ReplyKeeps ==
    ASSUME IInv, NEW c \in Calls, NEW x \in {"refused", "success", "uncertain", "cancelled"},
           NEW k, NEW o, k = call[c].key, o = call[c].op,
           call' = Replied(c, x), call[c].at \notin {"new", "done", "lost"},
           UNCHANGED <<seen, epoch>>, RowsOK', Grow, Passes(c), Writes(c, k),
           x = "refused" => call[c].effect = "none",
           x = "success" => Told(k, o)',
           call[c].effect = "made" => receipts'[k] # None
    PROVE  IInv'
<1> DEFINE q == [call[c] EXCEPT !.at = "done", !.reply = x, !.base = {}]
<1>1. call[c] \in CallRows /\ Fit(c, call[c])
  BY DEF IInv, Typed
<1>2. /\ q \in CallRows /\ q.at = "done" /\ q.reply = x /\ q.key = call[c].key
      /\ q.op = call[c].op /\ q.effect = call[c].effect /\ q.epoch = call[c].epoch
      /\ q.confirmed = call[c].confirmed
  BY <1>1 DEF CallRows, Places
<1>3. call' = [call EXCEPT ![c] = q]
  BY DEF Replied
<1> HIDE DEF q
<1> PICK r \in CallRows : r = q
  BY <1>2
<1>4. r.key \in Keys /\ r.op \in Ops
  BY <1>1, <1>2 DEF Fit, Submitted
<1>5. Submitted(r)'
  <2>1. ASSUME r.op.kind \notin {"add", "create"}
        PROVE  r.op.version <= item'[r.op.item].version /\ r.op.version < MaxVersion
    <3>1. /\ r.op.version <= item[r.op.item].version /\ r.op.version < MaxVersion
          /\ r.op.item \in Items /\ r.op.version \in 1 .. MaxVersion
      BY <1>1, <1>2, <1>4, <2>1, OpType DEF Fit, Submitted
    <3>2. /\ item[r.op.item].version \in Int /\ item'[r.op.item].version \in Int
          /\ item'[r.op.item].version >= item[r.op.item].version
      BY <3>1 DEF IInv, RowsOK, Rows, Grow
    <3> QED
      BY <3>1, <3>2
  <2> QED
    BY <1>4, <2>1 DEF Submitted
<1>6. Placed(c, r)'
  BY <1>1, <1>2 DEF Fit, Placed, Inside
<1>7. Honest(c, r)'
  <2>1. r.effect = "made" => r.confirmed /\ receipts'[r.key] # None
    BY <1>1, <1>2 DEF Fit, Honest
  <2>2. r.key = k /\ r.op = o
    BY <1>2
  <2>3. x = "success" => Told(r.key, r.op)'
    BY <2>2
  <2> QED
    BY <1>2, <2>1, <2>3 DEF Honest, Inside
<1>8. \A d \in Calls \ {c} : Apart(r, call[d]) /\ Apart(call[d], r)
  BY <1>2, ApartKeeps
<1>9. Writes(c, r.key)
  <2>1. r.key = k
    BY <1>2
  <2> QED
    BY <2>1
<1> QED
  BY <1>2, <1>3, <1>5, <1>6, <1>7, <1>8, <1>9, CallFrame DEF Fit

\* A row change under the lock: the call goes on to announce it.
LEMMA MadeKeeps ==
    ASSUME IInv, NEW c \in Calls, call' = Made(c), lock \in {None, c}, lock' = c,
           NEW k, NEW o, k = call[c].key, o = call[c].op,
           receipts[k] = None, call[c].confirmed,
           call[c].at \in {"ready", "wait", "write"},
           UNCHANGED <<seen, epoch, receipts>>, RowsOK', Grow,
           Told(k, o)'
    PROVE  IInv'
<1> DEFINE q == [call[c] EXCEPT !.at = "announce", !.effect = "made"]
<1>1. call[c] \in CallRows /\ Fit(c, call[c])
  BY DEF IInv, Typed
<1>2. /\ q \in CallRows /\ q.at = "announce" /\ q.reply = call[c].reply /\ q.key = call[c].key
      /\ q.op = call[c].op /\ q.effect = "made" /\ q.epoch = call[c].epoch
      /\ q.confirmed = call[c].confirmed
  BY <1>1 DEF CallRows, Places, Inside
<1>3. call' = [call EXCEPT ![c] = q]
  BY DEF Made
<1> HIDE DEF q
<1> PICK r \in CallRows : r = q
  BY <1>2
<1>4. r.key \in Keys /\ r.op \in Ops /\ r.epoch = epoch
  BY <1>1, <1>2 DEF Fit, Submitted, Placed
<1>5. Submitted(r)'
  <2>1. ASSUME r.op.kind \notin {"add", "create"}
        PROVE  r.op.version <= item'[r.op.item].version /\ r.op.version < MaxVersion
    <3>1. /\ r.op.version <= item[r.op.item].version /\ r.op.version < MaxVersion
          /\ r.op.item \in Items /\ r.op.version \in 1 .. MaxVersion
      BY <1>1, <1>2, <1>4, <2>1, OpType DEF Fit, Submitted
    <3>2. /\ item[r.op.item].version \in Int /\ item'[r.op.item].version \in Int
          /\ item'[r.op.item].version >= item[r.op.item].version
      BY <3>1 DEF IInv, RowsOK, Rows, Grow
    <3> QED
      BY <3>1, <3>2
  <2> QED
    BY <1>4, <2>1 DEF Submitted
<1>6. Placed(c, r)'
  BY <1>1, <1>2, <1>4 DEF Fit, Placed, Inside
<1>7. Honest(c, r)'
  <2>1. r.key = k /\ r.op = o
    BY <1>2
  <2>2. Told(r.key, r.op)'
    BY <2>1
  <2> QED
    BY <1>1, <1>2, <2>2 DEF Fit, Honest
<1>8. \A d \in Calls \ {c} : Apart(r, call[d]) /\ Apart(call[d], r)
  BY <1>2, <1>4, ApartFresh
<1> QED
  BY <1>2, <1>3, <1>5, <1>6, <1>7, <1>8, CallFrame DEF Fit, Passes, Writes

\* A confirmed call goes on to wait, or under the lock, having changed nothing.
LEMMA MoveKeeps ==
    ASSUME IInv, NEW c \in Calls, NEW r \in CallRows, call' = [call EXCEPT ![c] = r],
           /\ r.key = call[c].key /\ r.op = call[c].op /\ r.effect = call[c].effect
           /\ r.reply = call[c].reply /\ r.epoch = call[c].epoch /\ r.confirmed,
           call[c].at \in {"ready", "wait", "read"}, r.at \in {"wait", "read", "write"},
           UNCHANGED <<rows, receipts, seen, epoch>>, Passes(c),
           r.at # "wait" => /\ lock' = c /\ receipts[r.key] = None
                            /\ r.op.kind \in {"append", "create"},
           r.at = "write" /\ r.op.kind = "append" => r.base = 1 .. r.op.version
    PROVE  IInv'
<1>1. Fit(c, call[c]) /\ RowsOK' /\ Grow /\ item' = item
  BY UnchangedGrows DEF IInv, rows
<1>2. Submitted(r)'
  BY <1>1 DEF Fit, Submitted
<1>3. Placed(c, r)'
  BY <1>1 DEF Fit, Placed, Inside
<1>4. Honest(c, r)'
  BY <1>1 DEF Fit, Honest, Inside
<1>5. \A d \in Calls \ {c} : Apart(r, call[d]) /\ Apart(call[d], r)
  BY ApartKeeps
<1> QED
  BY <1>1, <1>2, <1>3, <1>4, <1>5, CallFrame DEF Fit, Writes

\* What a call knows of itself.
LEMMA Self ==
    ASSUME IInv, NEW c \in Calls
    PROVE  /\ call[c] \in CallRows /\ Fit(c, call[c])
           /\ call[c].at # "new" => call[c].key \in Keys /\ call[c].op \in Ops
  BY DEF IInv, Typed, Fit, Submitted

LEMMA TakenIs ==
    ASSUME IInv, NEW c \in Calls, Takes(c)
    PROVE  /\ lock = None /\ call[c].at \in {"ready", "wait"} /\ call[c].confirmed
           /\ call[c].effect = "none" /\ call[c].epoch = epoch
  BY Self DEF Takes, Authorized, Fit, Honest, Placed

-----------------------------------------------------------------------------
(* Before the lock.                                                        *)

LEMMA SubmitKeeps ==
    ASSUME IInv, NEW c \in Calls, NEW q \in Requests, Submit(c, q)
    PROVE  IInv'
<1> DEFINE row == [call[c] EXCEPT !.at = "ready", !.key = q.key, !.op = q.op,
                                  !.epoch = epoch, !.confirmed = q.confirmed]
<1>1. /\ call[c] \in CallRows /\ Fit(c, call[c]) /\ call[c].at = "new"
      /\ UNCHANGED <<rows, gate, seen, epoch>>
  BY Self DEF Submit
<1>2. q.key \in Keys /\ q.op \in Ops /\ q.confirmed \in BOOLEAN /\ epoch \in 0 .. MaxRestarts
  BY RequestsAssumption DEF IInv, Typed
<1>3. /\ row \in CallRows /\ row.at = "ready" /\ row.key = q.key /\ row.op = q.op
      /\ row.effect = call[c].effect /\ row.reply = call[c].reply /\ row.epoch = epoch
  BY <1>1, <1>2 DEF CallRows, Places
<1>4. call' = [call EXCEPT ![c] = row]
  BY DEF Submit
<1> HIDE DEF row
<1> PICK r \in CallRows : r = row
  BY <1>3
<1>5. RowsOK' /\ Grow /\ item' = item /\ lock' = lock /\ receipts' = receipts
  BY <1>1, UnchangedGrows DEF IInv, rows, gate
<1>6. Submitted(r)'
  BY <1>2, <1>3, <1>5 DEF Submit, Submitted
<1>7. Placed(c, r)'
  BY <1>1, <1>2, <1>3 DEF Placed, Inside
<1>8. Honest(c, r)'
  BY <1>1, <1>3 DEF Fit, Honest, Inside
<1>9. \A d \in Calls \ {c} : Apart(r, call[d]) /\ Apart(call[d], r)
  BY <1>1, <1>3 DEF Apart, Fit, Honest
<1> QED
  BY <1>1, <1>3, <1>4, <1>5, <1>6, <1>7, <1>8, <1>9, CallFrame DEF Fit, Passes, Writes

LEMMA RefuseKeeps ==
    ASSUME IInv, NEW c \in Calls, Refuse(c)
    PROVE  IInv'
<1> DEFINE row == [call[c] EXCEPT !.at = "done", !.reply = "refused", !.base = {},
                                  !.confirmed = FALSE]
<1>1. /\ call[c] \in CallRows /\ Fit(c, call[c]) /\ call[c].at = "ready"
      /\ UNCHANGED <<rows, gate, seen, epoch>> /\ call \in [Calls -> CallRows]
  BY Self DEF Refuse, IInv, Typed
<1>2. /\ row \in CallRows /\ row.at = "done" /\ row.key = call[c].key /\ row.op = call[c].op
      /\ row.effect = call[c].effect /\ row.reply = "refused" /\ row.epoch = call[c].epoch
  BY <1>1 DEF CallRows, Places
<1>3. call' = [call EXCEPT ![c] = row]
  BY <1>1 DEF Refuse, Replied, CallRows
<1> HIDE DEF row
<1> PICK r \in CallRows : r = row
  BY <1>2
<1>4. RowsOK' /\ Grow /\ item' = item /\ lock' = lock /\ receipts' = receipts
  BY <1>1, UnchangedGrows DEF IInv, rows, gate
<1>5. Submitted(r)'
  BY <1>1, <1>2, <1>4 DEF Fit, Submitted
<1>6. Placed(c, r)'
  BY <1>1, <1>2 DEF Fit, Placed, Inside
<1>7. Honest(c, r)'
  BY <1>1, <1>2 DEF Fit, Honest, Inside
<1>8. \A d \in Calls \ {c} : Apart(r, call[d]) /\ Apart(call[d], r)
  BY <1>1, <1>2, ApartKeeps
<1> QED
  BY <1>1, <1>2, <1>3, <1>4, <1>5, <1>6, <1>7, <1>8, CallFrame DEF Fit, Passes, Writes


\* A call that is answered at once, without a change.
LEMMA PlainReply ==
    ASSUME IInv, NEW c \in Calls, NEW x \in {"refused", "success", "uncertain"},
           NEW k, NEW o, k = call[c].key, o = call[c].op,
           call' = Replied(c, x), call[c].at \in {"ready", "wait", "read", "write"},
           UNCHANGED <<rows, seen, epoch>>, Passes(c), Writes(c, k),
           x = "success" => Told(k, o)'
    PROVE  IInv'
<1>1. RowsOK' /\ Grow /\ call[c].effect = "none"
  BY Self, UnchangedGrows DEF IInv, Fit, Honest
<1> QED
  BY <1>1, ReplyKeeps

LEMMA UnauthorizedKeeps ==
    ASSUME IInv, NEW c \in Calls, Unauthorized(c)
    PROVE  IInv'
<1>1. call[c].at = "ready" /\ call' = Replied(c, "refused") /\ UNCHANGED <<rows, gate, seen, epoch>>
  BY DEF Unauthorized
<1> QED
  BY <1>1, PlainReply DEF gate, Passes, Writes

LEMMA WaitKeeps ==
    ASSUME IInv, NEW c \in Calls, Wait(c)
    PROVE  IInv'
<1> DEFINE row == [call[c] EXCEPT !.at = "wait"]
<1>1. /\ call[c] \in CallRows /\ call[c].at = "ready" /\ call[c].confirmed
      /\ UNCHANGED <<rows, receipts, lock, seen, epoch>>
  BY Self DEF Wait, Authorized
<1>2. /\ row \in CallRows /\ row.at = "wait" /\ row.key = call[c].key /\ row.op = call[c].op
      /\ row.effect = call[c].effect /\ row.reply = call[c].reply
      /\ row.epoch = call[c].epoch /\ row.confirmed
  BY <1>1 DEF CallRows, Places
<1>3. call' = [call EXCEPT ![c] = row]
  BY <1>1 DEF Wait, CallRows
<1> HIDE DEF row
<1> QED
  BY <1>1, <1>2, <1>3, MoveKeeps DEF Passes

-----------------------------------------------------------------------------
(* The lock is taken.                                                      *)

LEMMA DuplicateKeeps ==
    ASSUME IInv, NEW c \in Calls, Duplicate(c)
    PROVE  IInv'
<1> PICK k \in Keys : k = call[c].key
  BY Self, TakenIs DEF Duplicate
<1> PICK o \in Ops : o = call[c].op
  BY Self, TakenIs DEF Duplicate
<1>1. /\ call[c].at \in {"ready", "wait"} /\ receipts[k] # None
      /\ UNCHANGED <<rows, receipts, lock, seen, epoch>>
  BY TakenIs DEF Duplicate, Old
<1>2. receipts[k] \in Entries
  BY <1>1 DEF IInv, Typed
<1>3. CASE receipts[k].op = o
  <2> PICK x \in {"success", "uncertain"} : x = receipts[k].outcome
    BY <1>2 DEF Entries
  <2>1. call' = Replied(c, x)
    BY <1>3 DEF Duplicate, Old
  <2>2. x = "success" => Told(k, o)
    BY <1>1, <1>3 DEF IInv
  <2>3. x = "success" => Told(k, o)'
    BY <1>1, <2>2 DEF Told, rows
  <2> QED
    BY <1>1, <2>1, <2>3, PlainReply DEF Passes, Writes
<1>4. CASE receipts[k].op # o
  BY <1>1, <1>4, PlainReply DEF Duplicate, Old, Passes, Writes
<1> QED
  BY <1>3, <1>4

LEMMA NoCapacityKeeps ==
    ASSUME IInv, NEW c \in Calls, NoCapacity(c)
    PROVE  IInv'
<1>1. /\ call[c].at \in {"ready", "wait"} /\ call' = Replied(c, "refused")
      /\ UNCHANGED <<rows, receipts, lock, seen, epoch>>
  BY TakenIs DEF NoCapacity
<1> QED
  BY <1>1, PlainReply DEF Passes, Writes

LEMMA AdmittedIs ==
    ASSUME IInv, NEW c \in Calls, Admitted(c)
    PROVE  /\ lock = None /\ call[c].at \in {"ready", "wait"} /\ call[c].confirmed
           /\ call[c].effect = "none" /\ call[c].epoch = epoch
           /\ call[c].key \in Keys /\ call[c].op \in Ops
           /\ receipts[call[c].key] = None
           /\ call[c].op.kind \notin {"add", "create"} =>
                 /\ call[c].op.version \in 1 .. MaxVersion /\ call[c].op.version < MaxVersion
                 /\ call[c].op.item \in Items
<1>1. /\ lock = None /\ call[c].at \in {"ready", "wait"} /\ call[c].confirmed
      /\ call[c].effect = "none" /\ call[c].epoch = epoch
  BY TakenIs DEF Admitted
<1>2. Fit(c, call[c]) /\ call[c].key \in Keys /\ call[c].op \in Ops
  BY <1>1, Self
<1>3. call[c].op.kind \notin {"add", "create"} =>
         /\ call[c].op.version \in 1 .. MaxVersion /\ call[c].op.version < MaxVersion
         /\ call[c].op.item \in Items
  BY <1>1, <1>2, OpType DEF Fit, Submitted
<1> QED
  BY <1>1, <1>2, <1>3 DEF Admitted, Old

LEMMA AddTaskKeeps ==
    ASSUME IInv, NEW c \in Calls, AddTask(c)
    PROVE  IInv'
<1> PICK k \in Keys : k = call[c].key
  BY AdmittedIs DEF AddTask
<1> PICK o \in Ops : o = call[c].op
  BY AdmittedIs DEF AddTask
<1>1. /\ lock = None /\ lock' = c /\ receipts[k] = None /\ call[c].confirmed
      /\ call[c].at \in {"ready", "wait"} /\ call' = Made(c) /\ o.kind = "add"
      /\ UNCHANGED <<item, series, created, durable, receipts, seen, epoch>>
      /\ added' = [added EXCEPT ![k] = @ + 1]
  BY AdmittedIs DEF AddTask
<1>2. \A i \in Items : item[i].version \in Int
  BY DEF IInv, RowsOK, Rows
<1>3. /\ added' \in [Keys -> Nat] /\ added'[k] > 0
      /\ \A l \in Keys : added'[l] >= added[l] /\ created[l] >= created[l]
  BY <1>1 DEF IInv, RowsOK
<1>4. RowsOK' /\ Grow
  BY <1>1, <1>2, <1>3 DEF IInv, RowsOK, Grow
<1>5. Told(k, o)'
  BY <1>1, <1>3 DEF Told
<1> QED
  BY <1>1, <1>4, <1>5, MadeKeeps

LEMMA CompleteTaskKeeps ==
    ASSUME IInv, NEW c \in Calls, CompleteTask(c)
    PROVE  IInv'
<1> PICK k \in Keys : k = call[c].key
  BY AdmittedIs DEF CompleteTask
<1> PICK o \in Ops : o = call[c].op
  BY AdmittedIs DEF CompleteTask
<1>1. /\ lock = None /\ lock' = c /\ receipts[k] = None /\ call[c].confirmed
      /\ call[c].at \in {"ready", "wait"} /\ call' = Made(c)
      /\ o.kind \in {"complete", "reopen"} /\ Current(o.item, o.version)
      /\ item' = Completed(o.item, o.kind = "complete")
      /\ UNCHANGED <<series, added, created, durable, receipts, seen, epoch>>
  BY AdmittedIs DEF CompleteTask
<1>2. o.item \in Items /\ o.version \in 1 .. MaxVersion /\ o.version < MaxVersion
  BY <1>1, AdmittedIs DEF CompleteTask
<1>3. RowsOK' /\ Grow /\ item'[o.item].version = o.version + 1
  BY <1>1, <1>2, CompletedGrows DEF IInv
<1>4. Told(k, o)'
  BY <1>1, <1>2, <1>3 DEF Told
<1> QED
  BY <1>1, <1>3, <1>4, MadeKeeps

LEMMA DeleteTaskKeeps ==
    ASSUME IInv, NEW c \in Calls, DeleteTask(c)
    PROVE  IInv'
<1> PICK k \in Keys : k = call[c].key
  BY AdmittedIs DEF DeleteTask
<1> PICK o \in Ops : o = call[c].op
  BY AdmittedIs DEF DeleteTask
<1>1. /\ lock = None /\ lock' = c /\ receipts[k] = None /\ call[c].confirmed
      /\ call[c].at \in {"ready", "wait"} /\ call' = Made(c) /\ o.kind = "delete"
      /\ UNCHANGED <<added, created, durable, receipts, seen, epoch>>
      /\ RemoveTasks({o.item})
  BY AdmittedIs DEF DeleteTask
<1>2. o.item \in Items
  BY <1>1, AdmittedIs DEF DeleteTask
<1>3. RowsOK' /\ Grow /\ ~item'[o.item].live
  <2> PICK gone \in SUBSET Items : gone = {o.item}
    BY <1>2
  <2> QED
    BY <1>1, GoneGrows DEF IInv, RemoveTasks
<1>4. Told(k, o)'
  BY <1>1, <1>3 DEF Told
<1> QED
  BY <1>1, <1>3, <1>4, MadeKeeps

LEMMA TaskRefusedKeeps ==
    ASSUME IInv, NEW c \in Calls, TaskRefused(c)
    PROVE  IInv'
<1>1. /\ call[c].at \in {"ready", "wait"} /\ call' = Replied(c, "refused")
      /\ UNCHANGED <<rows, receipts, lock, seen, epoch>>
  BY AdmittedIs DEF TaskRefused
<1> QED
  BY <1>1, PlainReply DEF Passes, Writes

\* Record as the lemmas say it.
LEMMA Recorded ==
    ASSUME IInv, NEW c \in Calls, NEW x \in {"success", "uncertain"}, Record(c, x),
           NEW k \in Keys, NEW o \in Ops, k = call[c].key, o = call[c].op,
           lock \in {None, c}, x = "success" => Told(k, o)'
    PROVE  Writes(c, k) /\ receipts'[k] # None
<1> DEFINE entry == [op |-> o, outcome |-> x]
<1>1. entry \in Entries /\ entry.op = o /\ entry.outcome = x
  BY DEF Entries
<1>2. receipts' = [receipts EXCEPT ![k] = entry]
  BY DEF Record
<1> HIDE DEF entry
<1> PICK e \in Entries : e = entry
  BY <1>1
<1>3. e.outcome = "success" => Told(k, e.op)'
  <2>1. e.op = o /\ e.outcome = x
    BY <1>1
  <2> QED
    BY <2>1
<1> QED
  BY <1>2, <1>3, NoneAssumption DEF Writes, IInv, Typed

LEMMA TaskAsWantedKeeps ==
    ASSUME IInv, NEW c \in Calls, TaskAsWanted(c)
    PROVE  IInv'
<1> PICK k \in Keys : k = call[c].key
  BY AdmittedIs DEF TaskAsWanted
<1> PICK o \in Ops : o = call[c].op
  BY AdmittedIs DEF TaskAsWanted
<1>1. /\ lock = None /\ call[c].at \in {"ready", "wait"} /\ call' = Replied(c, "success")
      /\ o.kind \in {"complete", "reopen"} /\ Current(o.item, o.version)
      /\ item[o.item].done = (o.kind = "complete")
      /\ Record(c, "success") /\ UNCHANGED <<rows, lock, seen, epoch>>
  BY AdmittedIs DEF TaskAsWanted
<1>2. Told(k, o)'
  BY <1>1 DEF Told, Current, rows
<1>3. Writes(c, k)
  BY <1>1, <1>2, Recorded
<1> QED
  BY <1>1, <1>2, <1>3, PlainReply DEF Passes

LEMMA StartMemoKeeps ==
    ASSUME IInv, NEW c \in Calls, StartMemo(c)
    PROVE  IInv'
<1> DEFINE row == [call[c] EXCEPT !.at = IF call[c].op.kind = "append" THEN "read" ELSE "write"]
<1>1. /\ call[c] \in CallRows /\ call[c].at \in {"ready", "wait"} /\ call[c].confirmed
      /\ lock = None /\ lock' = c /\ receipts[call[c].key] = None
      /\ call[c].op.kind \in {"append", "create"} /\ UNCHANGED <<rows, receipts, seen, epoch>>
  BY Self, AdmittedIs DEF StartMemo
<1>2. /\ row \in CallRows /\ row.at \in {"read", "write"}
      /\ row.key = call[c].key /\ row.op = call[c].op
      /\ row.effect = call[c].effect /\ row.reply = call[c].reply
      /\ row.epoch = call[c].epoch /\ row.confirmed
      /\ row.at = "write" => row.op.kind # "append"
  BY <1>1 DEF CallRows, Places, Inside
<1>3. call' = [call EXCEPT ![c] = row]
  BY <1>1 DEF StartMemo, CallRows
<1> HIDE DEF row
<1> QED
  BY <1>1, <1>2, <1>3, MoveKeeps DEF Passes

-----------------------------------------------------------------------------
(* Under the lock.                                                         *)

LEMMA InsideIs ==
    ASSUME IInv, NEW c \in Calls, call[c].at \in Inside
    PROVE  /\ lock = c /\ receipts[call[c].key] = None /\ call[c].confirmed
           /\ call[c].epoch = epoch /\ call[c].key \in Keys /\ call[c].op \in Ops
           /\ call[c] \in CallRows /\ Fit(c, call[c])
  BY Self DEF Inside, Fit, Placed, Honest

LEMMA MemoReadKeeps ==
    ASSUME IInv, NEW c \in Calls, MemoRead(c)
    PROVE  IInv'
<1>1. /\ call[c].at = "read" /\ call[c].op.kind \in {"append", "create"} /\ lock = c
      /\ receipts[call[c].key] = None /\ call[c].confirmed /\ call[c] \in CallRows
      /\ call[c].op \in Ops /\ call[c].key \in Keys /\ UNCHANGED <<seen, epoch>>
  BY InsideIs DEF MemoRead, Inside, Fit, Placed
<1>2. CASE /\ Current(Note, call[c].op.version)
           /\ call' = [call EXCEPT ![c] = [@ EXCEPT !.at = "write", !.base = item[Note].text]]
           /\ UNCHANGED <<rows, receipts, lock>>
  <2> DEFINE row == [call[c] EXCEPT !.at = "write", !.base = item[Note].text]
  <2>1. item[Note].text \in SUBSET (1 .. MaxVersion) /\ item[Note].text = 1 .. call[c].op.version
    BY <1>2 DEF IInv, RowsOK, Rows, Items, Current
  <2>2. /\ row \in CallRows /\ row.at = "write" /\ row.base = 1 .. call[c].op.version
        /\ row.key = call[c].key /\ row.op = call[c].op
        /\ row.effect = call[c].effect /\ row.reply = call[c].reply
        /\ row.epoch = call[c].epoch /\ row.confirmed
    BY <1>1, <2>1 DEF CallRows, Places, Inside
  <2>3. call' = [call EXCEPT ![c] = row]
    BY <1>2
  <2> HIDE DEF row
  <2> QED
    BY <1>1, <1>2, <2>2, <2>3, MoveKeeps DEF Passes
<1>3. CASE ~Current(Note, call[c].op.version) /\ Rejected(c)
  <2>1. /\ call' = Replied(c, "refused") /\ UNCHANGED <<rows, receipts, seen, epoch>>
        /\ Passes(c) /\ Writes(c, call[c].key)
    BY <1>1, <1>3 DEF Rejected, Passes, Writes
  <2> PICK k \in Keys : k = call[c].key
    BY <1>1
  <2> QED
    BY <1>1, <2>1, PlainReply
<1> QED
  BY <1>2, <1>3 DEF MemoRead

\* The transaction of the second thread, with a caller or without.
LEMMA CommitGrows ==
    ASSUME IInv, NEW c \in Calls, call[c].at \in {"write", "orphan"},
           NEW k \in Keys, NEW o \in Ops, k = call[c].key, o = call[c].op,
           NoteCommit(c) \/ CreateCommit(c)
    PROVE  RowsOK' /\ Grow /\ Told(k, o)'
<1>1. Fit(c, call[c])
  BY Self
<1>2. CASE NoteCommit(c)
  <2>1. /\ o.kind = "append" /\ Current(Note, o.version) /\ call[c].base = 1 .. o.version
        /\ o.version \in 1 .. MaxVersion /\ o.version < MaxVersion /\ o.item = Note
        /\ item' = Updated(Note, call[c].base)
        /\ UNCHANGED <<series, added, created, durable>>
    BY <1>1, <1>2, OpType DEF Fit, Submitted, Placed, NoteCommit
  <2>2. RowsOK' /\ Grow /\ item'[Note].version = o.version + 1
    BY <2>1, UpdatedGrows DEF IInv, Items
  <2> QED
    BY <2>1, <2>2 DEF Told
<1>3. CASE CreateCommit(c)
  <2>1. /\ o.kind = "create" /\ durable[k] = None
        /\ created' = [created EXCEPT ![k] = @ + 1]
        /\ durable' = [durable EXCEPT ![k] = "create"]
        /\ UNCHANGED <<item, series, added>>
    BY <1>3 DEF CreateCommit
  <2>2. created[k] = 0
    BY <2>1 DEF IInv, RowsOK
  <2>3. /\ created' \in [Keys -> Nat] /\ created'[k] = 1
        /\ \A l \in Keys : l # k => created'[l] = created[l] /\ durable'[l] = durable[l]
        /\ durable' \in [Keys -> {"create", None}] /\ durable'[k] = "create"
    BY <2>1, <2>2 DEF IInv, RowsOK
  <2>4. RowsOK'
    BY <2>1, <2>3, NoneAssumption DEF IInv, RowsOK
  <2>5. Grow
    <3>1. \A i \in Items : item[i].version \in Int
      BY DEF IInv, RowsOK, Rows
    <3>2. \A l \in Keys : added[l] \in Int /\ created[l] \in Int
      BY DEF IInv, RowsOK
    <3> QED
      BY <2>1, <2>2, <2>3, <3>1, <3>2 DEF Grow
  <2> QED
    BY <2>1, <2>3, <2>4, <2>5 DEF Told
<1> QED
  BY <1>2, <1>3

LEMMA MemoWriteKeeps ==
    ASSUME IInv, NEW c \in Calls, MemoWrite(c)
    PROVE  IInv'
<1>1. /\ call[c].at = "write" /\ call' = Made(c) /\ UNCHANGED <<gate, seen, epoch>>
      /\ lock = c /\ receipts[call[c].key] = None /\ call[c].confirmed
  BY InsideIs DEF MemoWrite, Inside
<1> PICK k \in Keys : k = call[c].key
  BY <1>1, InsideIs DEF Inside
<1> PICK o \in Ops : o = call[c].op
  BY <1>1, InsideIs DEF Inside
<1>2. RowsOK' /\ Grow /\ Told(k, o)'
  BY <1>1, CommitGrows DEF MemoWrite
<1> QED
  BY <1>1, <1>2, MadeKeeps DEF gate

LEMMA MemoStaleKeeps ==
    ASSUME IInv, NEW c \in Calls, MemoStale(c)
    PROVE  IInv'
<1>1. /\ call[c].at = "write" /\ lock = c /\ call' = Replied(c, "refused") /\ lock' = None
      /\ UNCHANGED <<rows, receipts, seen, epoch>>
  BY InsideIs DEF MemoStale, Inside, Rejected
<1> QED
  BY <1>1, PlainReply DEF Passes, Writes

LEMMA MemoDuplicateKeeps ==
    ASSUME IInv, NEW c \in Calls, MemoDuplicate(c)
    PROVE  IInv'
<1>1. /\ call[c].at = "write" /\ lock = c /\ call' = Replied(c, "success") /\ lock' = None
      /\ Record(c, "success") /\ UNCHANGED <<rows, seen, epoch>>
      /\ call[c].op.kind = "create" /\ durable[call[c].key] # None
  BY InsideIs DEF MemoDuplicate, Inside
<1> PICK k \in Keys : k = call[c].key
  BY <1>1, InsideIs DEF Inside
<1> PICK o \in Ops : o = call[c].op
  BY <1>1, InsideIs DEF Inside
<1>2. created[k] > 0
  BY <1>1 DEF IInv, RowsOK
<1>3. Told(k, o)'
  BY <1>1, <1>2 DEF Told, rows
<1>4. Writes(c, k)
  BY <1>1, <1>3, Recorded
<1> QED
  BY <1>1, <1>3, <1>4, PlainReply DEF Passes

LEMMA SucceedKeeps ==
    ASSUME IInv, NEW c \in Calls, Succeed(c)
    PROVE  IInv'
<1>1. /\ call[c].at = "announce" /\ lock = c /\ call' = Replied(c, "success") /\ lock' = None
      /\ Record(c, "success") /\ UNCHANGED <<rows, seen, epoch>>
  BY InsideIs DEF Succeed, Inside
<1> PICK k \in Keys : k = call[c].key
  BY <1>1, InsideIs DEF Inside
<1> PICK o \in Ops : o = call[c].op
  BY <1>1, InsideIs DEF Inside
<1>2. Told(k, o)
  BY <1>1, Self DEF Fit, Honest
<1>3. RowsOK' /\ Grow
  BY <1>1, UnchangedGrows DEF IInv
<1>4. Told(k, o)'
  BY <1>2, <1>3, ToldStable DEF IInv
<1>5. Writes(c, k) /\ receipts'[k] # None
  BY <1>1, <1>4, Recorded
<1> QED
  BY <1>1, <1>3, <1>4, <1>5, ReplyKeeps DEF Passes

LEMMA UncertainKeeps ==
    ASSUME IInv, NEW c \in Calls, Uncertain(c)
    PROVE  IInv'
<1>1. /\ call[c].at \in Inside /\ lock = c /\ call' = Replied(c, "uncertain") /\ lock' = None
      /\ Record(c, "uncertain") /\ UNCHANGED <<rows, seen, epoch>>
  BY InsideIs DEF Uncertain, Unknown
<1> PICK k \in Keys : k = call[c].key
  BY <1>1, InsideIs
<1> PICK o \in Ops : o = call[c].op
  BY <1>1, InsideIs
<1>2. RowsOK' /\ Grow
  BY <1>1, UnchangedGrows DEF IInv
<1>3. Writes(c, k) /\ receipts'[k] # None
  BY <1>1, Recorded
<1>4. call[c].at \notin {"new", "done", "lost"}
  BY <1>1 DEF Inside
<1> QED
  BY <1>1, <1>2, <1>3, <1>4, ReplyKeeps DEF Passes

\* A cancelled call leaves the receipt behind; its thread may still commit.
LEMMA CancelKeeps ==
    ASSUME IInv, NEW c \in Calls, Cancel(c)
    PROVE  IInv'
<1> DEFINE row == [call[c] EXCEPT !.reply = "cancelled",
                     !.at = IF call[c].at = "write" THEN "orphan" ELSE "done"]
<1>1. /\ call[c].at \in Inside /\ lock = c /\ lock' = None /\ call[c].confirmed
      /\ Record(c, "uncertain") /\ UNCHANGED <<rows, seen, epoch>>
      /\ call[c] \in CallRows /\ Fit(c, call[c]) /\ receipts[call[c].key] = None
      /\ call[c].epoch = epoch
  BY InsideIs DEF Cancel, Unknown
<1>2. /\ row \in CallRows /\ row.reply = "cancelled" /\ row.key = call[c].key
      /\ row.op = call[c].op /\ row.effect = call[c].effect /\ row.epoch = epoch
      /\ row.base = call[c].base /\ row.confirmed
      /\ row.at = IF call[c].at = "write" THEN "orphan" ELSE "done"
  BY <1>1 DEF CallRows, Places
<1>3. call' = [call EXCEPT ![c] = row]
  BY DEF Cancel
<1> HIDE DEF row
<1> PICK r \in CallRows : r = row
  BY <1>2
<1> PICK k \in Keys : k = call[c].key
  BY <1>1, InsideIs
<1> PICK o \in Ops : o = call[c].op
  BY <1>1, InsideIs
<1>4. RowsOK' /\ Grow /\ item' = item
  BY <1>1, UnchangedGrows DEF IInv, rows
<1>5. Writes(c, k) /\ receipts'[k] # None
  BY <1>1, Recorded
<1>6. r.key = k /\ r.op = o /\ r.at \in {"orphan", "done"}
  BY <1>2
<1>7. Submitted(r)'
  BY <1>1, <1>2, <1>4 DEF Fit, Submitted, Inside
<1>8. Placed(c, r)'
  <2>1. r.at = "orphan" => /\ r.op.kind \in {"append", "create"}
                           /\ r.op.kind = "append" => r.base = 1 .. r.op.version
    BY <1>1, <1>2 DEF Fit, Placed
  <2>2. r.epoch <= epoch'
    BY <1>1, <1>2 DEF Fit, Placed
  <2> QED
    BY <1>1, <1>2, <1>5, <1>6, <2>1, <2>2 DEF Placed, Inside
<1>9. Honest(c, r)'
  <2>1. call[c].at = "write" => call[c].effect = "none"
    BY <1>1 DEF Fit, Honest
  <2>2. receipts'[r.key] # None
    BY <1>5, <1>6
  <2> QED
    BY <1>2, <1>6, <2>1, <2>2 DEF Honest, Inside
<1>10. \A d \in Calls \ {c} : Apart(r, call[d]) /\ Apart(call[d], r)
  BY <1>1, <1>2, <1>6, ApartFresh
<1>11. Writes(c, r.key)
  BY <1>5, <1>6
<1> QED
  BY <1>1, <1>2, <1>3, <1>4, <1>7, <1>8, <1>9, <1>10, <1>11, CallFrame DEF Fit, Passes

LEMMA CancelWaitingKeeps ==
    ASSUME IInv, NEW c \in Calls, CancelWaiting(c)
    PROVE  IInv'
<1>1. /\ call[c].at = "wait" /\ call' = Replied(c, "cancelled")
      /\ UNCHANGED <<rows, receipts, lock, seen, epoch>>
  BY DEF CancelWaiting
<1> PICK k \in Keys : k = call[c].key
  BY <1>1, Self
<1> PICK o \in Ops : o = call[c].op
  BY <1>1, Self
<1>2. RowsOK' /\ Grow /\ call[c].effect # "made"
  BY <1>1, Self, UnchangedGrows DEF IInv, Fit, Honest
<1> QED
  BY <1>1, <1>2, ReplyKeeps DEF Passes, Writes

\* The thread without a caller ends: its receipt is there since the cancellation.
LEMMA OrphanKeeps ==
    ASSUME IInv, NEW c \in Calls, Orphan(c)
    PROVE  IInv'
<1>1. /\ call[c].at = "orphan" /\ UNCHANGED <<gate, seen, epoch>> /\ call[c].confirmed
      /\ call[c] \in CallRows /\ Fit(c, call[c]) /\ receipts[call[c].key] # None
      /\ call[c].epoch = epoch /\ receipts' = receipts /\ lock' = lock
  BY Self DEF Orphan, Fit, Placed, Honest, gate
<1> PICK k \in Keys : k = call[c].key
  BY <1>1, Self
<1> PICK o \in Ops : o = call[c].op
  BY <1>1, Self
<1>2. CASE /\ NoteCommit(c) \/ CreateCommit(c)
           /\ call' = [Replied(c, "cancelled") EXCEPT ![c].effect = "made"]
  <2> DEFINE row == [call[c] EXCEPT !.at = "done", !.reply = "cancelled", !.base = {},
                                    !.effect = "made"]
  <2>1. /\ row \in CallRows /\ row.reply = "cancelled" /\ row.key = k /\ row.at = "done"
        /\ row.op = o /\ row.effect = "made" /\ row.epoch = epoch /\ row.confirmed
    BY <1>1 DEF CallRows, Places
  <2>2. call' = [call EXCEPT ![c] = row]
    BY <1>1, <1>2 DEF Replied, IInv, Typed, CallRows
  <2> HIDE DEF row
  <2> PICK r \in CallRows : r = row
    BY <2>1
  <2>3. RowsOK' /\ Grow
    BY <1>1, <1>2, CommitGrows
  <2>4. Submitted(r)'
    <3>1. ASSUME o.kind \notin {"add", "create"}
          PROVE  o.version <= item'[o.item].version /\ o.version < MaxVersion
      <4>1. /\ o.version <= item[o.item].version /\ o.version < MaxVersion
            /\ o.item \in Items /\ o.version \in 1 .. MaxVersion
        BY <1>1, <3>1, OpType DEF Fit, Submitted
      <4>2. /\ item[o.item].version \in Int /\ item'[o.item].version \in Int
            /\ item'[o.item].version >= item[o.item].version
        BY <2>3, <4>1 DEF IInv, RowsOK, Rows, Grow
      <4> QED
        BY <4>1, <4>2
    <3> QED
      BY <2>1, <3>1 DEF Submitted
  <2>5. Placed(c, r)'
    BY <1>1, <2>1 DEF Placed, Fit, Inside
  <2>6. Honest(c, r)'
    BY <1>1, <2>1 DEF Honest, Inside
  <2>7. ASSUME NEW d \in Calls \ {c} PROVE Apart(r, call[d]) /\ Apart(call[d], r)
    <3>1. Apart(call[c], call[d]) /\ Apart(call[d], call[c])
      BY DEF IInv
    <3> QED
      BY <1>1, <2>1, <3>1 DEF Apart
  <2> QED
    BY <1>1, <2>1, <2>2, <2>3, <2>4, <2>5, <2>6, <2>7, CallFrame DEF Fit, Passes, Writes
<1>3. CASE call' = Replied(c, "cancelled") /\ UNCHANGED rows
  <2>1. RowsOK' /\ Grow
    BY <1>3, UnchangedGrows DEF IInv
  <2>2. receipts'[k] # None
    BY <1>1
  <2> QED
    BY <1>1, <1>3, <2>1, <2>2, ReplyKeeps DEF Passes, Writes
<1> QED
  BY <1>2, <1>3 DEF Orphan

-----------------------------------------------------------------------------
(* Screens, and the end of the process.                                    *)

\* Rows that grow break no call's word.
LEMMA ScreenFrame ==
    ASSUME IInv, RowsOK', Grow, Shows', UNCHANGED <<gate, call, epoch>>
    PROVE  IInv'
<1> USE DEF IInv
<1>1. call' = call /\ receipts' = receipts /\ lock' = lock /\ epoch' = epoch
  BY DEF gate
<1>2. Typed'
  BY <1>1 DEF Typed
<1>3. ASSUME NEW k \in Keys, receipts'[k] # None, receipts'[k].outcome = "success"
      PROVE  Told(k, receipts[k].op)'
  <2>1. Told(k, receipts[k].op) /\ receipts[k].op \in Ops
    BY <1>1, <1>3 DEF Typed, Entries
  <2>2. PICK o \in Ops : o = receipts[k].op
    BY <2>1
  <2>3. Told(k, o)'
    BY <2>1, <2>2, ToldStable
  <2>4. o = receipts'[k].op
    BY <1>1, <2>2
  <2> QED
    BY <2>3, <2>4
<1>4. ASSUME NEW d \in Calls PROVE Fit(d, call[d])'
  <2> PICK q \in CallRows : q = call[d]
    BY DEF Typed
  <2>0. call'[d] = q /\ Fit(d, q)
    BY <1>1
  <2>1. q.at # "new" => q.key \in Keys /\ q.op \in Ops
    BY <2>0 DEF Fit, Submitted
  <2>2. Submitted(q)'
    <3>1. ASSUME q.at # "new", q.op.kind \notin {"add", "create"}
          PROVE  q.op.version <= item'[q.op.item].version
      <4>1. q.op \in Ops /\ q.op.version <= item[q.op.item].version
        BY <2>0, <3>1 DEF Fit, Submitted
      <4>2. q.op.item \in Items /\ q.op.version \in 1 .. MaxVersion
        BY <3>1, <4>1, OpType
      <4>3. /\ item[q.op.item].version \in Int /\ item'[q.op.item].version \in Int
            /\ item'[q.op.item].version >= item[q.op.item].version
        BY <4>2 DEF RowsOK, Rows, Grow
      <4> QED
        BY <4>1, <4>2, <4>3
    <3> QED
      BY <2>0, <3>1 DEF Fit, Submitted
  <2>3. Placed(d, q)'
    BY <1>1, <2>0 DEF Fit, Placed
  <2>4. q.at # "new" /\ Told(q.key, q.op) => Told(q.key, q.op)'
    BY <2>1, ToldStable
  <2>5. Honest(d, q)'
    BY <1>1, <2>0, <2>4 DEF Fit, Honest
  <2> QED
    BY <2>0, <2>2, <2>3, <2>5 DEF Fit
<1>5. \A a, b \in Calls : a # b => Apart(call[a], call[b])'
  BY <1>1 DEF Apart
<1> QED
  BY <1>2, <1>3, <1>4, <1>5

LEMMA SeenOnly ==
    ASSUME IInv, NEW s \in Screens, Shown(s)
    PROVE  /\ Shows' /\ seen[s].id \in Items /\ seen[s].row \in Rows
           /\ seen[s].row.version \in 1 .. MaxVersion /\ seen[s].row.version < MaxVersion
           /\ seen[s].row.text = 1 .. seen[s].row.version
  BY DEF IInv, Shows, Shown, Rows

LEMMA ViewKeeps ==
    ASSUME IInv, NEW s \in Screens, NEW i \in Items, View(s, i)
    PROVE  IInv'
<1>1. UNCHANGED <<rows, gate, call, epoch>> /\ RowsOK' /\ Grow
  BY UnchangedGrows DEF View, IInv
<1>2. item[i] \in Rows /\ item[i].text = 1 .. item[i].version /\ item[i].version < MaxVersion
  BY DEF View, IInv, RowsOK
<1>3. ASSUME NEW z \in Screens, seen'[z] # None
      PROVE  /\ seen'[z].id \in Items /\ seen'[z].row \in Rows
             /\ seen'[z].row.version < MaxVersion
             /\ seen'[z].row.text = 1 .. seen'[z].row.version
  <2>1. seen'[z] = seen[z] \/ seen'[z] = [id |-> i, row |-> item[i]]
    BY DEF View
  <2> QED
    BY <1>2, <1>3, <2>1 DEF IInv, Shows
<1> QED
  BY <1>1, <1>3, ScreenFrame DEF Shows

LEMMA SaveKeeps ==
    ASSUME IInv, NEW s \in Screens, Save(s)
    PROVE  IInv'
<1> PICK i \in Items : i = seen[s].id
  BY SeenOnly DEF Save
<1> PICK v \in 1 .. MaxVersion : v = seen[s].row.version
  BY SeenOnly DEF Save
<1>1. /\ Shows' /\ v < MaxVersion /\ seen[s].row.text = 1 .. v
      /\ UNCHANGED <<series, added, created, durable, gate, call, epoch>>
  BY SeenOnly DEF Save
<1>2. RowsOK' /\ Grow
  <2>1. CASE Current(i, v)
    <3>1. item' = Updated(i, seen[s].row.text)
      BY <2>1 DEF Save
    <3> QED
      BY <1>1, <2>1, <3>1, UpdatedGrows DEF IInv
  <2>2. CASE ~Current(i, v)
    BY <1>1, <2>2, UnchangedGrows DEF Save, IInv, rows
  <2> QED
    BY <2>1, <2>2
<1> QED
  BY <1>1, <1>2, ScreenFrame

LEMMA ToggleKeeps ==
    ASSUME IInv, NEW s \in Screens, Toggle(s)
    PROVE  IInv'
<1> PICK i \in Items : i = seen[s].id
  BY SeenOnly DEF Toggle
<1> PICK v \in 1 .. MaxVersion : v = seen[s].row.version
  BY SeenOnly DEF Toggle
<1> PICK want \in BOOLEAN : want = ~seen[s].row.done
  BY SeenOnly DEF Toggle, Rows
<1>1. /\ Shows' /\ v < MaxVersion
      /\ UNCHANGED <<series, added, created, durable, gate, call, epoch>>
  BY SeenOnly DEF Toggle
<1>2. RowsOK' /\ Grow
  <2>1. CASE Current(i, v)
    <3>1. item' = Completed(i, want)
      BY <2>1 DEF Toggle
    <3> QED
      BY <1>1, <2>1, <3>1, CompletedGrows DEF IInv
  <2>2. CASE ~Current(i, v)
    BY <1>1, <2>2, UnchangedGrows DEF Toggle, IInv, rows
  <2> QED
    BY <2>1, <2>2
<1> QED
  BY <1>1, <1>2, ScreenFrame

LEMMA DeleteKeeps ==
    ASSUME IInv, NEW s \in Screens, NEW scope \in {"one", "future", "series"}, Delete(s, scope)
    PROVE  IInv'
<1> PICK i \in Items : i = seen[s].id
  BY SeenOnly DEF Delete
<1> PICK v \in 1 .. MaxVersion : v = seen[s].row.version
  BY SeenOnly DEF Delete
<1>1. Shows' /\ UNCHANGED <<added, created, durable, gate, call, epoch>>
  BY SeenOnly DEF Delete
<1>2. RowsOK' /\ Grow
  <2>1. CASE UNCHANGED <<item, series>>
    BY <1>1, <2>1, UnchangedGrows DEF IInv, rows
  <2>2. CASE i = Note /\ item' = Without({Note}) /\ UNCHANGED series
    <3>1. Tasks \ {Note} = Tasks /\ Note \in Items
      BY DEF Tasks, Note, Items
    <3>2. series' = (series /\ \E t \in Tasks \ {Note} : item[t].live)
      BY <2>2, <3>1 DEF IInv, RowsOK
    <3> QED
      BY <1>1, <2>2, <3>1, <3>2, GoneGrows DEF IInv
  <2>3. CASE i \in Tasks /\ RemoveTasks(InScope(i, scope))
    <3> PICK gone \in SUBSET Items : gone = InScope(i, scope)
      BY <2>3 DEF InScope, Items
    <3> QED
      BY <1>1, <2>3, GoneGrows DEF IInv, RemoveTasks
  <2> QED
    BY <2>1, <2>2, <2>3 DEF Delete
<1> QED
  BY <1>1, <1>2, ScreenFrame

LEMMA RestartKeeps ==
    ASSUME IInv, Restart
    PROVE  IInv'
<1> USE DEF IInv
<1>1. /\ UNCHANGED <<rows, seen>> /\ epoch' = epoch + 1 /\ lock' = None
      /\ receipts' = [k \in Keys |-> None] /\ epoch' \in 0 .. MaxRestarts
      /\ epoch \in 0 .. MaxRestarts
  BY BoundsAssumption DEF Restart, Typed
<1>2. RowsOK' /\ item' = item /\ added' = added /\ created' = created
  BY <1>1, UnchangedGrows DEF rows
<1>3. ASSUME NEW c \in Calls
      PROVE  /\ call'[c] \in CallRows /\ call'[c].at \in {"new", "done", "lost"}
             /\ call'[c].at = "new" <=> call[c].at = "new"
             /\ call[c].at = "new" \/ call[c].at = "done" => call'[c] = call[c]
             /\ call'[c].key = call[c].key /\ call'[c].op = call[c].op
             /\ call'[c].effect = call[c].effect /\ call'[c].reply = call[c].reply
             /\ call'[c].epoch = call[c].epoch /\ call'[c].confirmed = call[c].confirmed
             /\ call'[c].at = "lost" => call[c].at \notin {"new", "done"}
  <2>1. call'[c] = IF call[c].at \in {"new", "done"} THEN call[c]
                   ELSE [call[c] EXCEPT !.at = "lost"]
    BY DEF Restart
  <2>2. call[c] \in CallRows
    BY DEF Typed
  <2> QED
    BY <2>1, <2>2 DEF CallRows, Places
<1>4. Typed'
  <2>1. call' \in [Calls -> CallRows]
    BY <1>3 DEF Restart
  <2> QED
    BY <1>1, <2>1 DEF Typed
<1>5. Shows'
  BY <1>1 DEF Shows
<1>6. ASSUME NEW c \in Calls PROVE Fit(c, call[c])'
  <2> PICK q \in CallRows : q = call[c]
    BY DEF Typed
  <2> PICK r \in CallRows : r = call'[c]
    BY <1>3
  <2>1. Fit(c, q)
    OBVIOUS
  <2>2. Submitted(r)'
    BY <1>2, <1>3, <2>1 DEF Fit, Submitted
  <2>3. Placed(c, r)' /\ r.epoch # epoch'
    BY <1>1, <1>3, <2>1 DEF Fit, Placed, Inside, CallRows
  <2>4. Told(q.key, q.op) => Told(r.key, r.op)'
    <3>1. r.key = q.key /\ r.op = q.op
      BY <1>3
    <3> QED
      BY <1>2, <3>1 DEF Told
  <2>5. Honest(c, r)'
    BY <1>3, <2>1, <2>3, <2>4 DEF Fit, Honest, Inside, CallRows, Places
  <2> QED
    BY <2>2, <2>3, <2>5 DEF Fit
<1>7. ASSUME NEW a \in Calls, NEW b \in Calls, a # b PROVE Apart(call[a], call[b])'
  <2>1. Apart(call[a], call[b])
    BY <1>7
  <2> QED
    BY <1>3, <2>1 DEF Apart
<1> QED
  BY <1>1, <1>2, <1>4, <1>5, <1>6, <1>7

-----------------------------------------------------------------------------
LEMMA InitIInv == Init => IInv
<1> SUFFICES ASSUME Init PROVE IInv
  OBVIOUS
<1> USE BoundsAssumption, NoneAssumption DEF Init
<1>1. Blank \in CallRows
  BY DEF Blank, CallRows, Places
<1>2. Typed
  BY <1>1 DEF Typed
<1>3. RowsOK
  <2> DEFINE first == [live |-> TRUE, version |-> 1, done |-> FALSE, text |-> {1}]
  <2>1. first \in Rows /\ first.live /\ first.text = 1 .. first.version
    BY DEF Rows
  <2>2. item = [i \in Items |-> first]
    OBVIOUS
  <2> HIDE DEF first
  <2>3. item \in [Items -> Rows] /\ \A i \in Items : item[i] = first
    BY <2>1, <2>2
  <2>4. "monday" \in Tasks /\ Tasks \subseteq Items
    BY DEF Tasks, Items
  <2>5. series /\ \E t \in Tasks : item[t].live
    BY <2>1, <2>3, <2>4
  <2>6. \A i \in Items : item[i].live => item[i].text = 1 .. item[i].version
    BY <2>1, <2>3
  <2>7. /\ added \in [Keys -> Nat] /\ created \in [Keys -> Nat]
        /\ durable \in [Keys -> {"create", None}]
        /\ \A k \in Keys : created[k] <= 1 /\ (durable[k] = None <=> created[k] = 0)
    OBVIOUS
  <2> QED
    BY <2>3, <2>5, <2>6, <2>7 DEF RowsOK
<1>4. \A c \in Calls : call[c] = Blank
  OBVIOUS
<1>5. \A c \in Calls : Fit(c, call[c])
  BY <1>4 DEF Blank, Fit, Submitted, Placed, Honest, Inside
<1>6. \A c, d \in Calls : Apart(call[c], call[d])
  BY <1>4 DEF Blank, Apart
<1> QED
  BY <1>2, <1>3, <1>5, <1>6 DEF IInv, Shows

LEMMA NextIInv == IInv /\ [Next]_vars => IInv'
<1> SUFFICES ASSUME IInv, [Next]_vars PROVE IInv'
  OBVIOUS
<1>1. ASSUME NEW c \in Calls, Step(c) PROVE IInv'
  BY <1>1, UnauthorizedKeeps, WaitKeeps, DuplicateKeeps, NoCapacityKeeps, AddTaskKeeps,
     CompleteTaskKeeps, DeleteTaskKeeps, TaskRefusedKeeps, TaskAsWantedKeeps,
     StartMemoKeeps, MemoReadKeeps, MemoWriteKeeps, MemoStaleKeeps, MemoDuplicateKeeps,
     SucceedKeeps, OrphanKeeps DEF Step
<1>2. ASSUME NEW c \in Calls, NEW r \in Requests, Submit(c, r) PROVE IInv'
  BY <1>2, SubmitKeeps
<1>3. ASSUME NEW c \in Calls,
             Refuse(c) \/ Uncertain(c) \/ Cancel(c) \/ CancelWaiting(c)
      PROVE  IInv'
  BY <1>3, RefuseKeeps, UncertainKeeps, CancelKeeps, CancelWaitingKeeps
<1>4. CASE ByScreen
  BY <1>4, ViewKeeps, SaveKeeps, ToggleKeeps, DeleteKeeps DEF ByScreen
<1>5. CASE Restart
  BY <1>5, RestartKeeps
<1>6. CASE UNCHANGED vars
  <2>1. UNCHANGED <<rows, gate, call, seen, epoch>>
    BY <1>6 DEF vars, rows, gate
  <2>2. RowsOK' /\ Grow
    BY <2>1, UnchangedGrows DEF IInv
  <2>3. Shows'
    BY <2>1 DEF IInv, Shows
  <2> QED
    BY <2>1, <2>2, <2>3, ScreenFrame
<1> QED
  BY <1>1, <1>2, <1>3, <1>4, <1>5, <1>6 DEF Next

\* WidgetRegistry: whatever the calls, the screens and the threads do, the
\* tables, the lock and the receipts stay as IInv describes them.
THEOREM Invariant == Spec => []IInv
<1>1. Init => IInv
  BY InitIInv
<1>2. IInv /\ [Next]_vars => IInv'
  BY NextIInv
<1> QED
  BY <1>1, <1>2, PTL DEF Spec

\* update_note() and the task routes: no accepted edit is overwritten by one
\* who has not seen it, and a series lives as long as a task of it.
THEOREM Kept == Spec => []NoLostEdit
<1>1. IInv => NoLostEdit
  BY DEF IInv, Typed, RowsOK, CallRows, NoLostEdit, TypeOK
<1> QED
  BY <1>1, Invariant, PTL

\* execute() and its receipts, with those of the database: a key changes
\* something once in a process, and inserts one note for ever.
THEOREM Once == Spec => []ChangedOnce
<1>1. ASSUME IInv PROVE CreatedOnce
  BY <1>1 DEF IInv, RowsOK, CreatedOnce
<1>2. ASSUME IInv PROVE OncePerProcess
  <2>1. \A c \in Calls : call[c].effect = "made" => call[c].at # "new"
    BY <1>2 DEF IInv, Fit, Honest
  <2> QED
    BY <1>2, <2>1 DEF IInv, Apart, OncePerProcess
<1>3. IInv => ChangedOnce
  BY <1>1, <1>2 DEF ChangedOnce
<1> QED
  BY <1>3, Invariant, PTL

\* execute(): a refusal changed nothing, a success names a change that is there,
\* and whatever was changed had been confirmed.
THEOREM Truth == Spec => []ReplyIsTrue
<1>1. ASSUME IInv PROVE ReplyIsTrue
  <2> SUFFICES ASSUME NEW c \in Calls
               PROVE  LET o == call[c].op IN
                      /\ call[c].reply = "refused" => call[c].effect = "none"
                      /\ call[c].effect = "made" => call[c].confirmed
                      /\ call[c].reply = "success" =>
                           CASE o.kind = "add"    -> added[call[c].key] > 0
                             [] o.kind = "create" -> created[call[c].key] > 0
                             [] o.kind = "delete" -> ~item[o.item].live
                             [] OTHER -> \/ ~item[o.item].live
                                         \/ item[o.item].version > o.version
                                         \/ /\ o.kind # "append"
                                            /\ item[o.item].done = (o.kind = "complete")
    BY DEF ReplyIsTrue
  <2>1. Honest(c, call[c])
    BY <1>1 DEF IInv, Fit
  <2>2. call[c].reply = "success" => Told(call[c].key, call[c].op) /\ call[c].op \in Ops
    BY <1>1, <2>1, Self DEF Honest
  <2> QED
    BY <2>1, <2>2, OpType DEF Honest, Told
<1>2. IInv => ReplyIsTrue
  BY <1>1
<1> QED
  BY <1>2, Invariant, PTL
=============================================================================
