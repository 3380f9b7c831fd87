-------------------------- MODULE Conversation_proofs --------------------------
(***************************************************************************)
(* Proofs about what is said to the room: spoken requests about notes and  *)
(* tasks (SpokenNotes), and questions with their answers (Dialog), for any *)
(* number of rows, titles, requests, sessions and turns.                   *)
(*                                                                         *)
(* Spoken notes: what is remembered of a row stays true of that version of *)
(* it (Faithful), because every write renews the version; so a row that    *)
(* was chosen for its title (Meant) and still has its version is the row   *)
(* that was asked for and shown (Known, at each place of a request).       *)
(* Dialogs: each row names one parent and each parent one child (Linked,   *)
(* Apart), and every turn of a proof was said by the owner of the chain.   *)
(***************************************************************************)
EXTENDS SpokenNotes, Dialog, TLAPS

\* What may be remembered of a row, and of the note widget's own text.
Snaps == [of : {"row"}, id : Items, title : Titles, version : Nat, shared : BOOLEAN]
Walls == [of : {"wall"}, text : Texts \ {NoText}]
Acts  == {"read", "change", "create"}
Reqs  == [at : Places, words : Sayings \cup {None}, act : Acts \cup {None},
          slots : Slots, private : BOOLEAN, target : Snaps \cup {None},
          answer : Snaps \cup Walls \cup {None}]

\* A row of that version is the row that was read; its identity is not free again.
Faithful(rows, t) ==
    /\ rows[t.id].state # "free"
    /\ rows[t.id].state = "live" =>
          /\ t.version <= rows[t.id].version
          /\ t.version = rows[t.id].version =>
                t.title = rows[t.id].title /\ t.shared = rows[t.id].shared

\* A row the words mean.
Asked(w, t) ==
    \/ t.id = w.id
    \/ Bears(t.title, w.name)
    \/ w.kind = "task" /\ w.via = "model" /\ Bears(w.name, t.title)
Meant(rows, w, t) ==
    /\ t \in Snaps /\ t.id \in Kind(w.kind)
    /\ w.name # None => Asked(w, t)
    /\ Faithful(rows, t)

Asks(w, act) == act = w.act \/ (w.act = "unclear" /\ act = "read")

\* What is known of a request at each place.
Known(rows, q) ==
    /\ q.at \in {"new", "said"} => q.target = None
    /\ q.at \in {"new", "said", "found", "answered", "awaiting", "confirmed", "checked"} =>
          q.slots = "said"
    /\ q.at \in {"said", "found", "answered", "awaiting", "confirmed", "checked"} =>
          q.words \in Sayings
    /\ q.at = "found" =>
          Meant(rows, q.words, q.target) /\ Asks(q.words, q.act) /\ q.act \in {"read", "change"}
    /\ q.at = "answered" =>
          /\ q.words.act \in {"read", "unclear"}
          /\ Meant(rows, q.words, q.answer) \/ (q.words.name = None /\ q.answer \in Walls)
    /\ q.at = "awaiting" =>
          /\ q.words.act = q.act /\ q.act \in {"change", "create"}
          /\ q.act = "create" => q.target = None
    /\ q.at \in {"awaiting", "confirmed", "checked"} =>
          /\ q.act = "change" => Meant(rows, q.words, q.target)
          /\ q.act = "create" => q.words.name # None

IInv ==
    /\ TypeOK
    /\ req \in [Requests -> Reqs]
    /\ \A r \in Requests : Known(item, req[r])

-----------------------------------------------------------------------------
(* Rows and what is remembered of them.                                    *)

\* A row that is read is remembered as it is.
LEMMA SeenSnap ==
    ASSUME TypeOK, NEW i \in Live
    PROVE  /\ Seen(i) \in Snaps /\ Faithful(item, Seen(i)) /\ Seen(i).id = i /\ i \in Items
           /\ Seen(i).title = item[i].title
<1>1. i \in Items /\ item[i].state = "live" /\ item[i] \in Rows
  BY DEF Live, TypeOK
<1>2. item[i] \in Lives
  BY <1>1 DEF Rows, Free, Gone
<1> QED
  BY <1>1, <1>2 DEF Seen, Snaps, Faithful, Lives

\* What a change of a row may be: a free one is taken, a live one deleted or
\* renewed, and every write renews the version.
Moves(old, new) ==
    /\ old \in Rows /\ new \in Rows
    /\ \/ old.state = "free" /\ new.state = "live"
       \/ old.state = "live" /\ new = Gone
       \/ old.state = "live" /\ new \in Lives /\ old.version < new.version

\* Such a change keeps true what is remembered.
LEMMA FaithfulStays ==
    ASSUME NEW rows \in [Items -> Rows], NEW i \in Items, NEW x, Moves(rows[i], x)
    PROVE  /\ [rows EXCEPT ![i] = x] \in [Items -> Rows]
           /\ \A t \in Snaps : Faithful(rows, t) => Faithful([rows EXCEPT ![i] = x], t)
<1> SUFFICES ASSUME NEW t \in Snaps, Faithful(rows, t)
             PROVE  Faithful([rows EXCEPT ![i] = x], t)
  BY DEF Moves
<1>1. t.id \in Items /\ t.version \in Nat
  BY DEF Snaps
<1>2. CASE t.id # i
  BY <1>1, <1>2 DEF Faithful
<1>3. CASE t.id = i
  <2>1. [rows EXCEPT ![i] = x][t.id] = x
    BY <1>3
  <2>2. rows[i].state = "live"
    BY <1>3 DEF Faithful, Moves
  <2>3. CASE x = Gone
    <3>1. x.state = "gone"
      BY <2>3 DEF Gone, Free
    <3> QED
      BY <2>1, <3>1 DEF Faithful
  <2>4. CASE x \in Lives /\ rows[i].version < x.version
    <3>1. rows[i] \in Lives
      BY <2>2 DEF Rows, Free, Gone, Moves
    <3>2. t.version <= rows[i].version /\ rows[i].version \in Nat /\ x.version \in Nat
      BY <1>3, <2>2, <2>4, <3>1, BoundsAssumption DEF Faithful, Lives
    <3>3. t.version < x.version /\ x.state = "live"
      BY <1>1, <2>4, <3>2 DEF Lives
    <3> QED
      BY <1>1, <2>1, <2>4, <3>2, <3>3 DEF Faithful
  <2> QED
    BY <2>2, <2>3, <2>4 DEF Moves
<1> QED
  BY <1>2, <1>3

\* What is known of a request outlives a change of the rows.
LEMMA KnownStays ==
    ASSUME NEW old, NEW new, NEW q, Known(old, q),
           \A t \in Snaps : Faithful(old, t) => Faithful(new, t)
    PROVE  Known(new, q)
<1>1. \A w, t : Meant(old, w, t) => Meant(new, w, t)
  BY DEF Meant
<1> QED
  BY <1>1 DEF Known

\* A step keeps the invariant when it renews rows as they may be, and leaves
\* each request as it was or in a place it is known to be fit for.
LEMMA StepKeeps ==
    ASSUME IInv, item' \in [Items -> Rows], wall' \in Texts, placed' \subseteq Widgets,
           aged' \subseteq Requests, edits' \in 0 .. MaxEdits, req' \in [Requests -> Reqs],
           \A t \in Snaps : Faithful(item, t) => Faithful(item', t),
           \A r \in Requests : req'[r] = req[r] \/ Known(item', req'[r])
    PROVE  IInv'
<1>1. TypeOK'
  BY DEF TypeOK, Reqs
<1>2. \A r \in Requests : Known(item', req'[r])
  BY KnownStays DEF IInv
<1> QED
  BY <1>1, <1>2 DEF IInv

\* One request goes on and nothing else changes.
LEMMA GoesOn ==
    ASSUME IInv, NEW r \in Requests, NEW q \in Reqs, Known(item, q),
           req' = [req EXCEPT ![r] = q], UNCHANGED screens, aged' \subseteq Requests
    PROVE  IInv'
<1>1. UNCHANGED <<item, wall, placed, edits>>
  BY DEF screens
<1>2. req' \in [Requests -> Reqs]
  BY DEF IInv
<1>3. \A s \in Requests : req'[s] = req[s] \/ Known(item', req'[s])
  BY <1>1 DEF IInv
<1> QED
  BY <1>1, <1>2, <1>3, StepKeeps DEF IInv, TypeOK

\* A request that ended is known to be fit for that.
LEMMA Ended ==
    ASSUME NEW place \in {"clarify", "changed", "cancelled", "unknown"}
    PROVE  /\ [Blank EXCEPT !.at = place] \in Reqs
           /\ \A rows : Known(rows, [Blank EXCEPT !.at = place])
  BY DEF Blank, Reqs, Known, Slots, Places

\* One row changes and the request that changed it, if any, has ended.
LEMMA RowChanges ==
    ASSUME IInv, NEW i \in Items, NEW x, Moves(item[i], x),
           item' = [item EXCEPT ![i] = x], UNCHANGED <<wall, placed>>,
           edits' \in 0 .. MaxEdits, aged' \subseteq Requests,
           \/ UNCHANGED req
           \/ \E r \in Requests : req' = [req EXCEPT ![r] = [Blank EXCEPT !.at = "changed"]]
    PROVE  IInv'
<1>1. /\ item' \in [Items -> Rows]
      /\ \A t \in Snaps : Faithful(item, t) => Faithful(item', t)
  BY FaithfulStays DEF IInv, TypeOK
<1>2. req' \in [Requests -> Reqs]
  BY Ended DEF IInv
<1>3. \A s \in Requests : req'[s] = req[s] \/ Known(item', req'[s])
  BY Ended DEF IInv
<1> QED
  BY <1>1, <1>2, <1>3, StepKeeps DEF IInv, TypeOK

-----------------------------------------------------------------------------
(* Which row the words mean.                                               *)

\* What is proposed for a row, by the server or the model, is what was asked.
LEMMA ProposesAsked ==
    ASSUME NEW w \in Sayings, NEW act \in {"read", "change"}, NEW p \in Pointers,
           NEW slots \in Slots, Proposes(w, act, p, slots)
    PROVE  Asks(w, act) /\ slots # "invented"
<1>1. w \in Words
  BY SayingsAssumption
<1> QED
  BY <1>1 DEF Proposes, Planned, MemoPlan, FastRead, Frame, Grounded, Asks, Words, Slots

\* A candidate is a live row of the kind, and bears the title that was said.
LEMMA CandidateMeant ==
    ASSUME TypeOK, NEW w \in Sayings, NEW act \in {"read", "change"}, NEW p \in Pointers,
           NEW slots \in Slots, Proposes(w, act, p, slots), NEW i \in Candidates(w, p)
    PROVE  i \in Live /\ Meant(item, w, Seen(i))
<1>1. w \in Words
  BY SayingsAssumption
<1>2. CASE p \in Items
  <2>1. i = p /\ i \in Live
    BY <1>2 DEF Candidates
  <2>2. w.via = "model" /\ p = w.id /\ p \in Kind(w.kind)
    BY <1>1, <1>2, ConstantsAssumption DEF Proposes, Planned, Grounded, Words
  <2> QED
    BY <2>1, <2>2, SeenSnap DEF Meant, Asked
<1>3. CASE p \notin Items /\ w.name # None /\ w.via = "plan"
  <2>1. i \in ByTitle(w)
    BY <1>3 DEF Candidates
  <2>2. i \in Matching(w.name, Catalog(w.kind))
    BY <2>1 DEF ByTitle, TheOnly
  <2>3. i \in Catalog(w.kind) /\ Bears(item[i].title, w.name)
    BY <2>2 DEF Matching, Bears
  <2> QED
    BY <2>3, SeenSnap DEF Meant, Asked, Catalog
<1>4. CASE p \notin Items /\ w.name # None /\ w.via = "model"
  <2>1. w.kind = "task"
    BY <1>1, <1>4 DEF Proposes, Grounded, NameUnhandled, Words
  <2>2. i \in ByMention(w)
    BY <1>4 DEF Candidates
  <2>3. i \in Catalog(w.kind) /\ Bears(w.name, item[i].title)
    BY <2>2 DEF ByMention, TheOnly, Bears
  <2> QED
    BY <1>4, <2>1, <2>3, SeenSnap DEF Meant, Asked, Catalog
<1>5. CASE p \notin Items /\ w.name = None
  <2>1. w.kind = "note" /\ i \in ByReference(w)
    BY <1>5 DEF Candidates
  <2>2. i \in Catalog("note")
    BY <2>1 DEF ByReference, Newest, Default
  <2> QED
    BY <1>5, <2>1, <2>2, SeenSnap DEF Meant, Catalog
<1> QED
  BY <1>1, <1>2, <1>3, <1>4, <1>5 DEF Words

-----------------------------------------------------------------------------
(* The invariant of spoken notes.                                          *)

\* A request with other values of these kinds is a request.
LEMMA Renewing ==
    ASSUME NEW q \in Reqs, NEW at \in Places, NEW act \in Acts, NEW t \in Snaps,
           NEW slots \in Slots, NEW a \in Snaps \cup Walls \cup {None}, NEW b \in BOOLEAN
    PROVE  [q EXCEPT !.at = at, !.act = act, !.target = t, !.slots = slots,
                     !.answer = a, !.private = b] \in Reqs
  BY DEF Reqs

\* Whatever is private is so as a truth value.
LEMMA PrivateType == ASSUME NEW w, NEW act PROVE Private(w, act) \in BOOLEAN
  BY DEF Private

\* At the start nothing has been said.
LEMMA InitIInv == Init => IInv
<1> SUFFICES ASSUME Init PROVE IInv
  OBVIOUS
<1>1. Blank \in Reqs /\ \A rows : Known(rows, Blank)
  BY DEF Blank, Reqs, Known, Slots, Places
<1>2. TypeOK
  BY StartsAssumption, BoundsAssumption DEF Init, TypeOK, Blank, Places
<1> QED
  BY <1>1, <1>2 DEF Init, IInv

\* prepare()
LEMMA SayKeeps ==
    ASSUME IInv, NEW r \in Requests, NEW w \in Sayings, Say(r, w)
    PROVE  IInv'
<1> DEFINE b == Private(w, w.act)
           q == [req[r] EXCEPT !.at = "said", !.words = w, !.private = b]
<1>1. req' = [req EXCEPT ![r] = q] /\ UNCHANGED <<screens, aged>>
  BY DEF Say, IInv
<1>2. q \in Reqs
  <2>1. b \in BOOLEAN /\ req[r] \in Reqs
    BY PrivateType DEF IInv
  <2> HIDE DEF b
  <2> QED
    BY <2>1 DEF IInv, Reqs, Places
<1>3. q.at = "said" /\ q.words = w /\ q.target = None /\ q.slots = "said"
  BY DEF IInv, Reqs, Say, Known
<1> HIDE DEF q
<1>4. Known(item, q)
  BY <1>3 DEF Known
<1> QED
  BY <1>1, <1>2, <1>4, GoesOn DEF IInv, TypeOK

\* Ground: one row is chosen, and it is what was asked.
LEMMA GroundKeeps ==
    ASSUME IInv, NEW r \in Requests, Ground(r)
    PROVE  IInv'
<1>1. req[r].at = "said" /\ UNCHANGED <<screens, aged>>
  BY DEF Ground
<1>2. PICK act \in {"read", "change"}, p \in Pointers, slots \in Slots :
         /\ Proposes(req[r].words, act, p, slots)
         /\ \E i \in Candidates(req[r].words, p) : Found(r, act, i, slots)
  BY DEF Ground
<1>3. PICK i \in Candidates(req[r].words, p) : Found(r, act, i, slots)
  BY <1>2
<1> DEFINE w == req[r].words
<1>4. req[r] \in Reqs /\ w \in Sayings /\ req[r].target = None /\ req[r].slots = "said" /\ TypeOK
  BY <1>1 DEF IInv, Known
<1>5. Asks(w, act) /\ slots # "invented" /\ i \in Live /\ Meant(item, w, Seen(i)) /\ Seen(i) \in Snaps
  BY <1>2, <1>3, <1>4, ProposesAsked, CandidateMeant, SeenSnap
<1> DEFINE named == w.kind = "note" /\ w.name # None
           next == IF named THEN "found" ELSE IF act = "read" THEN "answered" ELSE "awaiting"
           fill == IF slots = "omitted" THEN "said" ELSE slots
           said == IF next = "answered" THEN Seen(i) ELSE req[r].answer
           q == [req[r] EXCEPT !.at = next, !.act = act, !.target = Seen(i),
                               !.slots = fill, !.answer = said, !.private = Private(w, act)]
<1>6. req' = [req EXCEPT ![r] = q]
  BY <1>3 DEF Found, IInv
<1>7. /\ next \in {"found", "answered", "awaiting"} /\ fill = "said"
      /\ next = "answered" => act = "read" /\ said = Seen(i)
      /\ next = "awaiting" => act = "change"
      /\ said \in Snaps \cup Walls \cup {None}
  BY <1>4, <1>5 DEF Slots, Reqs
<1>8. Private(w, act) \in BOOLEAN
  BY PrivateType
<1>9. Asks(w, act) /\ Meant(item, w, Seen(i)) /\ w \in Sayings
  BY <1>4, <1>5
<1> DEFINE seen == Seen(i)
           b == Private(w, act)
<1>10. seen \in Snaps
  BY <1>5
<1> HIDE DEF next, fill, said, seen, b
<1>11. q = [req[r] EXCEPT !.at = next, !.act = act, !.target = seen, !.slots = fill,
                          !.answer = said, !.private = b]
  BY DEF seen, b
<1>12. b \in BOOLEAN
  BY <1>8 DEF b
<1> HIDE DEF q
<1>13. q \in Reqs
  <2>1. next \in Places /\ act \in Acts /\ fill \in Slots
    BY <1>7 DEF Places, Acts, Slots
  <2> QED
    BY <1>4, <1>7, <1>10, <1>11, <1>12, <2>1, Renewing
<1>14. /\ q.at = next /\ q.act = act /\ q.target = seen /\ q.slots = "said"
       /\ q.answer = said /\ q.words = w
  BY <1>4, <1>7, <1>11 DEF Reqs
<1>15. Known(item, q)
  <2>1. Meant(item, q.words, q.target) /\ Asks(q.words, q.act) /\ q.words \in Sayings
    BY <1>9, <1>14 DEF seen
  <2>2. q.at = "answered" => Meant(item, q.words, q.answer) /\ q.words.act \in {"read", "unclear"}
    BY <1>7, <1>9, <1>14 DEF seen, Asks
  <2>3. q.at = "awaiting" => q.words.act = q.act /\ q.act = "change"
    BY <1>7, <1>9, <1>14 DEF Asks
  <2> QED
    BY <1>7, <1>14, <2>1, <2>2, <2>3 DEF Known
<1> QED
  BY <1>1, <1>6, <1>13, <1>15, GoesOn DEF IInv, TypeOK

\* The text of the note widget itself answers a request without a title.
LEMMA ReadWallKeeps ==
    ASSUME IInv, NEW r \in Requests, ReadWall(r)
    PROVE  IInv'
<1> DEFINE w == req[r].words
           q == [req[r] EXCEPT !.at = "answered", !.act = "read",
                               !.answer = SeenWall, !.private = FALSE]
<1>1. /\ req' = [req EXCEPT ![r] = q] /\ UNCHANGED <<screens, aged>>
      /\ req[r].at = "said" /\ w.kind = "note" /\ w.name = None /\ wall # NoText
  BY DEF ReadWall, IInv
<1>2. PICK p \in {"none", "current"} : Proposes(w, "read", p, "said")
  BY DEF ReadWall
<1>3. req[r] \in Reqs /\ w \in Sayings /\ req[r].target = None /\ req[r].slots = "said" /\ wall \in Texts
  BY <1>1 DEF IInv, Known, TypeOK
<1>4. w.act \in {"read", "unclear"}
  BY <1>2, <1>3, ProposesAsked DEF Asks, Pointers, Slots
<1>5. SeenWall \in Walls
  BY <1>1, <1>3 DEF SeenWall, Walls
<1>6. q \in Reqs
  BY <1>3, <1>5 DEF Reqs, Acts, Places
<1>7. q.at = "answered" /\ q.words = w /\ q.slots = "said" /\ q.answer = SeenWall
  BY <1>3 DEF Reqs
<1> HIDE DEF q
<1>8. Known(item, q)
  BY <1>1, <1>3, <1>4, <1>5, <1>7 DEF Known
<1> QED
  BY <1>1, <1>6, <1>8, GoesOn DEF IInv, TypeOK

\* A new note or task needs no row.
LEMMA GroundNewKeeps ==
    ASSUME IInv, NEW r \in Requests, GroundNew(r)
    PROVE  IInv'
<1> DEFINE w == req[r].words
<1>1. /\ req[r].at = "said" /\ w.name # None /\ UNCHANGED <<screens, aged>>
  BY DEF GroundNew
<1>2. PICK slots \in Slots :
         /\ Proposes(w, "create", "none", slots)
         /\ req' = [req EXCEPT ![r] = [req[r] EXCEPT !.at = "awaiting", !.act = "create",
                                !.slots = slots, !.private = Private(w, "create")]]
  BY DEF GroundNew, IInv
<1>3. req[r] \in Reqs /\ w \in Sayings /\ w \in Words /\ req[r].target = None
  BY <1>1, SayingsAssumption DEF IInv, Known
<1>4. w.act = "create" /\ slots = "said"
  BY <1>2, <1>3 DEF Proposes, Planned, MemoPlan, FastRead, Frame, Grounded, Words, Slots
<1> DEFINE b == Private(w, "create")
           q == [req[r] EXCEPT !.at = "awaiting", !.act = "create", !.slots = slots, !.private = b]
<1>5. b \in BOOLEAN
  BY PrivateType
<1>6. req' = [req EXCEPT ![r] = q]
  BY <1>2
<1> HIDE DEF b
<1>7. q \in Reqs
  BY <1>3, <1>5 DEF Reqs, Acts, Places
<1>8. q.at = "awaiting" /\ q.words = w /\ q.slots = slots /\ q.act = "create" /\ q.target = None
  BY <1>3 DEF Reqs
<1> HIDE DEF q
<1>9. Known(item, q)
  BY <1>1, <1>3, <1>4, <1>8 DEF Known
<1> QED
  BY <1>1, <1>6, <1>7, <1>9, GoesOn DEF IInv, TypeOK

\* A note that is read a second time still bears its title.
LEMMA ReadNamedKeeps ==
    ASSUME IInv, NEW r \in Requests, ReadNamed(r)
    PROVE  IInv'
<1> DEFINE w == req[r].words
           t == req[r].target
           i == t.id
           place == IF req[r].act = "read" THEN "answered" ELSE "awaiting"
           said == IF req[r].act = "read" THEN Seen(i) ELSE req[r].answer
           q == [req[r] EXCEPT !.at = place, !.answer = said]
<1>1. /\ req[r].at = "found" /\ i \in Live /\ SameRow(t, i) /\ UNCHANGED <<screens, aged>>
      /\ req' = [req EXCEPT ![r] = q]
  BY DEF ReadNamed, IInv
<1>2. /\ req[r] \in Reqs /\ w \in Sayings /\ req[r].slots = "said" /\ TypeOK
      /\ Meant(item, w, t) /\ Asks(w, req[r].act) /\ req[r].act \in {"read", "change"}
  BY <1>1 DEF IInv, Known
<1>3. Seen(i) \in Snaps /\ Faithful(item, Seen(i)) /\ Seen(i).id = i /\ Seen(i).title = t.title
  BY <1>1, <1>2, SeenSnap DEF SameRow
<1>4. Meant(item, w, Seen(i))
  BY <1>2, <1>3 DEF Meant, Asked
<1>5. q \in Reqs
  <2>1. place \in {"answered", "awaiting"} /\ said \in Snaps \cup Walls \cup {None}
    BY <1>2, <1>3 DEF Reqs
  <2> HIDE DEF place, said
  <2> QED
    BY <1>2, <2>1 DEF Reqs, Places
<1>6. /\ q.at = place /\ q.words = w /\ q.slots = "said" /\ q.act = req[r].act
      /\ q.target = t /\ q.answer = said
  BY <1>2 DEF Reqs
<1> HIDE DEF q
<1>7. Known(item, q)
  <2>1. CASE req[r].act = "read"
    <3>1. q.at = "answered" /\ q.answer = Seen(i) /\ w.act \in {"read", "unclear"}
      BY <2>1, <1>2, <1>6 DEF Asks
    <3> QED
      BY <3>1, <1>2, <1>4, <1>6 DEF Known
  <2>2. CASE req[r].act = "change"
    <3>1. q.at = "awaiting" /\ w.act = q.act /\ q.act = "change"
      BY <2>2, <1>2, <1>6 DEF Asks
    <3> QED
      BY <3>1, <1>2, <1>6 DEF Known
  <2> QED
    BY <1>2, <2>1, <2>2
<1> QED
  BY <1>1, <1>5, <1>7, GoesOn DEF IInv, TypeOK

\* The confirmation and the adapter's reading keep what was shown.
LEMMA ConfirmKeeps ==
    ASSUME IInv, NEW r \in Requests, Confirm(r) \/ Check(r)
    PROVE  IInv'
<1>1. PICK place \in {"confirmed", "checked"} :
         /\ req' = [req EXCEPT ![r] = [req[r] EXCEPT !.at = place]]
         /\ req[r].at \in {"awaiting", "confirmed"} /\ UNCHANGED <<screens, aged>>
  BY DEF Confirm, Check, To, IInv
<1> DEFINE q == [req[r] EXCEPT !.at = place]
<1>2. req[r] \in Reqs /\ Known(item, req[r])
  BY DEF IInv
<1>3. q \in Reqs
  BY <1>2 DEF Reqs, Places
<1>4. /\ q.at = place /\ q.words = req[r].words /\ q.slots = req[r].slots
      /\ q.act = req[r].act /\ q.target = req[r].target
  BY <1>2 DEF Reqs
<1> HIDE DEF q
<1>5. Known(item, q)
  BY <1>1, <1>2, <1>4 DEF Known
<1> QED
  BY <1>1, <1>3, <1>5, GoesOn DEF IInv, TypeOK, q

\* A version that is higher makes a renewed row.
LEMMA RenewedMoves ==
    ASSUME TypeOK, NEW i \in Live, item[i].version < MaxVersion
    PROVE  Moves(item[i], Renewed(i))
<1>1. item[i] \in Rows /\ item[i].state = "live"
  BY DEF Live, TypeOK
<1>2. item[i] \in Lives
  BY <1>1 DEF Rows, Free, Gone
<1>3. Renewed(i) \in Lives /\ item[i].version < Renewed(i).version
  BY <1>2, BoundsAssumption DEF Renewed, Lives
<1> QED
  BY <1>1, <1>3 DEF Moves, Rows

\* A row that has gone.
LEMMA GoneMoves == ASSUME TypeOK, NEW i \in Live PROVE Moves(item[i], Gone)
  BY DEF Live, TypeOK, Moves, Rows

\* A new row on a free identity.
LEMMA RowMoves ==
    ASSUME TypeOK, NEW i \in Items, item[i].state = "free", NEW t \in Titles, NEW b \in BOOLEAN
    PROVE  Moves(item[i], Row(t, b))
<1>1. Row(t, b) \in Lives
  BY BoundsAssumption DEF Row, Lives
<1> QED
  BY <1>1 DEF TypeOK, Moves, Rows, Lives

\* Writes by voice.
LEMMA WriteKeeps ==
    ASSUME IInv, NEW r \in Requests, WriteNote(r) \/ WriteTask(r) \/ Insert(r)
    PROVE  IInv'
<1>1. TypeOK /\ req[r] \in Reqs /\ Known(item, req[r]) /\ edits \in 0 .. MaxEdits
  BY DEF IInv, TypeOK
<1>2. /\ req' = [req EXCEPT ![r] = [Blank EXCEPT !.at = "changed"]] /\ aged' \subseteq Requests
      /\ UNCHANGED <<wall, placed, edits>>
  BY <1>1 DEF WriteNote, WriteTask, Written, Insert, Ends, TypeOK
<1>3. CASE WriteNote(r) \/ WriteTask(r)
  <2> DEFINE i == req[r].target.id
  <2>1. PICK x \in {Renewed(i), Gone} : Written(r, x)
    BY <1>3 DEF WriteNote, WriteTask
  <2>2. i \in Live /\ item' = [item EXCEPT ![i] = x] /\ (item[i].version < MaxVersion \/ x = Gone)
    BY <2>1 DEF Written, Current
  <2>3. Moves(item[i], x)
    BY <1>1, <2>1, <2>2, RenewedMoves, GoneMoves
  <2>4. i \in Items
    BY <2>2 DEF Live
  <2> HIDE DEF i
  <2> QED
    BY <1>1, <1>2, <2>2, <2>3, <2>4, RowChanges
<1>4. CASE Insert(r)
  <2>1. req[r].at = "confirmed" /\ req[r].act = "create"
    BY <1>4 DEF Insert
  <2>2. req[r].words.name \in Titles /\ req[r].words.kind \in {"note", "task"}
    BY <1>1, <2>1, SayingsAssumption DEF Known, Words
  <2>3. PICK i \in Kind(req[r].words.kind) :
           item[i].state = "free" /\ item' = [item EXCEPT ![i] = Row(req[r].words.name, FALSE)]
    BY <1>4 DEF Insert
  <2>4. i \in Items /\ Moves(item[i], Row(req[r].words.name, FALSE))
    BY <1>1, <2>2, <2>3, RowMoves DEF Kind, Items
  <2> QED
    BY <1>1, <1>2, <2>3, <2>4, RowChanges
<1> QED
  BY <1>3, <1>4

\* Requests that end without a change.
LEMMA EndKeeps ==
    ASSUME IInv, NEW r \in Requests, Clarify(r) \/ Cancel(r)
    PROVE  IInv'
<1>1. PICK place \in {"clarify", "cancelled"} :
         /\ req' = [req EXCEPT ![r] = [Blank EXCEPT !.at = place]]
         /\ aged' = aged \ {r} /\ UNCHANGED screens
  BY DEF Clarify, Cancel, Ends
<1>2. aged' \subseteq Requests
  BY <1>1 DEF IInv, TypeOK
<1> QED
  BY <1>1, <1>2, Ended, GoesOn

\* The clock and the end of the process.
LEMMA TimeKeeps ==
    ASSUME IInv, (\E r \in Requests : Age(r)) \/ Restart \/ UNCHANGED vars
    PROVE  IInv'
<1>1. UNCHANGED <<item, wall, placed, edits>>
  BY DEF Age, Restart, screens, vars
<1>2. aged' \subseteq Requests
  BY DEF Age, Restart, vars, IInv, TypeOK
<1>3. /\ req' \in [Requests -> Reqs]
      /\ \A r \in Requests : req'[r] = req[r] \/ Known(item', req'[r])
  <2>1. CASE Restart
    <3> DEFINE after(r) ==
          CASE req[r].at \in {"said", "found"} -> [Blank EXCEPT !.at = "cancelled"]
            [] req[r].at \in {"confirmed", "checked"} -> [Blank EXCEPT !.at = "unknown"]
            [] OTHER -> req[r]
    <3>1. req' = [r \in Requests |-> after(r)]
      BY <2>1 DEF Restart
    <3>2. ASSUME NEW r \in Requests
          PROVE  after(r) \in Reqs /\ (after(r) = req[r] \/ Known(item', after(r)))
      <4>1. req[r] \in Reqs
        BY DEF IInv
      <4>2. CASE req[r].at \in {"said", "found"}
        BY <4>2, Ended
      <4>3. CASE req[r].at \in {"confirmed", "checked"}
        BY <4>3, Ended
      <4>4. CASE req[r].at \notin {"said", "found", "confirmed", "checked"}
        BY <4>1, <4>4
      <4> QED
        BY <4>2, <4>3, <4>4
    <3> QED
      BY <3>1, <3>2
  <2>2. CASE UNCHANGED req
    BY <2>2 DEF IInv
  <2> QED
    BY <2>1, <2>2 DEF Age, vars
<1> QED
  BY <1>1, <1>2, <1>3, StepKeeps DEF IInv, TypeOK

\* What screens do.
LEMMA ScreenKeeps ==
    ASSUME IInv,
           \/ \E i \in Items, t \in Titles, b \in BOOLEAN : Create(i, t, b) \/ Edit(i, t, b)
           \/ \E i \in Items : Delete(i)
           \/ \E x \in Texts : SetWall(x)
           \/ \E ws \in SUBSET Widgets : Place(ws)
    PROVE  IInv'
<1>1. TypeOK /\ aged \subseteq Requests
  BY DEF IInv, TypeOK
<1>2. edits' \in 0 .. MaxEdits /\ UNCHANGED <<req, aged>>
  <2>1. Screen /\ UNCHANGED <<req, aged>>
    BY DEF Create, Edit, Delete, SetWall, Place
  <2> QED
    BY <1>1, <2>1, BoundsAssumption DEF TypeOK, Screen
<1>3. ASSUME NEW i \in Items, NEW t \in Titles, NEW b \in BOOLEAN, Create(i, t, b) PROVE IInv'
  <2> DEFINE shared == b /\ i \in Notes
  <2>1. shared \in BOOLEAN
    OBVIOUS
  <2>2. item[i].state = "free" /\ item' = [item EXCEPT ![i] = Row(t, shared)] /\ UNCHANGED <<wall, placed>>
    BY <1>3 DEF Create
  <2> HIDE DEF shared
  <2>3. Moves(item[i], Row(t, shared))
    BY <1>1, <2>1, <2>2, RowMoves
  <2> QED
    BY <1>1, <1>2, <2>2, <2>3, RowChanges
<1>4. ASSUME NEW i \in Items, NEW t \in Titles, NEW b \in BOOLEAN, Edit(i, t, b) PROVE IInv'
  <2> DEFINE shared == b /\ i \in Notes
             x == [item[i] EXCEPT !.title = t, !.version = @ + 1, !.shared = shared]
  <2>1. shared \in BOOLEAN
    OBVIOUS
  <2>2. /\ i \in Live /\ item[i].version < MaxVersion /\ UNCHANGED <<wall, placed>>
        /\ item' = [item EXCEPT ![i] = x]
    BY <1>1, <1>4 DEF Edit, TypeOK
  <2>3. item[i] \in Rows /\ item[i].state = "live"
    BY <1>1, <2>2 DEF Live, TypeOK
  <2>4. item[i] \in Lives
    BY <2>3 DEF Rows, Free, Gone
  <2> HIDE DEF shared
  <2> DEFINE v == item[i].version + 1
  <2>5. x \in Lives /\ item[i].version < x.version
    <3>1. v \in 1 .. MaxVersion /\ item[i].version < v
      BY <2>2, <2>4, BoundsAssumption DEF Lives
    <3>2. x = [item[i] EXCEPT !.title = t, !.version = v, !.shared = shared]
      OBVIOUS
    <3> HIDE DEF v, x
    <3>3. x \in Lives /\ x.version = v
      BY <2>1, <2>4, <3>1, <3>2 DEF Lives
    <3> QED
      BY <3>1, <3>3
  <2>6. Moves(item[i], x)
    BY <2>3, <2>5 DEF Moves, Rows
  <2> HIDE DEF x
  <2> QED
    BY <1>1, <1>2, <2>2, <2>6, RowChanges
<1>5. ASSUME NEW i \in Items, Delete(i) PROVE IInv'
  <2>1. i \in Live /\ item' = [item EXCEPT ![i] = Gone] /\ UNCHANGED <<wall, placed>>
    BY <1>5 DEF Delete
  <2> QED
    BY <1>1, <1>2, <2>1, GoneMoves, RowChanges
<1>6. CASE (\E x \in Texts : SetWall(x)) \/ \E ws \in SUBSET Widgets : Place(ws)
  <2>1. UNCHANGED <<item, req, aged>> /\ wall' \in Texts /\ placed' \subseteq Widgets
    BY <1>1, <1>6 DEF SetWall, Place, TypeOK
  <2> QED
    BY <1>1, <1>2, <2>1, StepKeeps DEF IInv, TypeOK
<1> QED
  BY <1>3, <1>4, <1>5, <1>6

\* Every step keeps the invariant.
LEMMA NextIInv == IInv /\ [Next]_vars => IInv'
<1> SUFFICES ASSUME IInv, [Next]_vars PROVE IInv'
  OBVIOUS
<1>1. ASSUME NEW r \in Requests, Steps(r) PROVE IInv'
  BY <1>1, SayKeeps, GroundKeeps, ReadWallKeeps, GroundNewKeeps, ReadNamedKeeps,
     ConfirmKeeps, WriteKeeps, EndKeeps, TimeKeeps DEF Steps
<1> QED
  BY <1>1, ScreenKeeps, TimeKeeps DEF Next

-----------------------------------------------------------------------------
(* The results about spoken notes.                                         *)

\* Whatever has been renamed, shared or deleted since, the display shows a note's
\* text only while the note widget shows it (memo_result_is_public()).
THEOREM Hidden == Spec => []NothingMoreShown
<1>1. IInv => NothingMoreShown
  <2> SUFFICES ASSUME IInv, NEW r \in Requests PROVE Shown(r) \subseteq OnNoteWidget
    BY DEF IInv, NothingMoreShown
  <2> DEFINE a == req[r].answer
  <2>1. CASE Shown(r) = {}
    BY <2>1
  <2>2. CASE Shown(r) # {}
    <3>1. /\ req[r].at = "answered" /\ req[r].words.kind = "note" /\ IsPublic(a)
          /\ Shown(r) = {IF a.of = "wall" THEN a.text ELSE <<a.id, a.version>>}
      BY <2>2 DEF Shown
    <3>2. Meant(item, req[r].words, a) \/ a \in Walls
      BY <3>1 DEF IInv, Known
    <3>3. CASE a \in Walls
      BY <3>1, <3>3 DEF Walls, IsPublic, OnNoteWidget
    <3>4. CASE Meant(item, req[r].words, a)
      <4>1. a.of = "row" /\ a.id \in Notes
        BY <3>1, <3>4 DEF Meant, Snaps, Kind
      <4>2. /\ "note" \in placed /\ a.id \in Live /\ item[a.id].shared
            /\ item[a.id].version = a.version
        BY <3>1, <4>1 DEF IsPublic
      <4> QED
        BY <3>1, <4>1, <4>2 DEF OnNoteWidget
    <3> QED
      BY <3>2, <3>3, <3>4
  <2> QED
    BY <2>1, <2>2
<1> QED
  BY <1>1, InitIInv, NextIInv, PTL DEF Spec

\* What is read, or put up for confirmation, is what the words asked for, when
\* it is read and not only when the titles were listed (memo_grounding.py).
THEOREM Meaning == Spec => []AnswersWhatWasAsked
<1>1. IInv => AnswersWhatWasAsked
  BY DEF IInv, Known, Meant, Asked, Snaps, Acts, AnswersWhatWasAsked
<1> QED
  BY <1>1, InitIInv, NextIInv, PTL DEF Spec

\* A row changes by voice only as it was shown and confirmed.
THEOREM AsShown == Spec => ChangesWhatWasShown
<1> DEFINE Shows == \A r \in Requests :
          req[r].at # "changed" /\ req'[r].at = "changed" /\ req[r].act = "change" =>
             LET t == req[r].target IN
             /\ req[r].at \in {"confirmed", "checked"}
             /\ t.id \in Live /\ Seen(t.id) = t
             /\ \A i \in Items \ {t.id} : item'[i] = item[i]
<1>1. IInv /\ [Next]_vars => Shows
  <2> SUFFICES ASSUME IInv, [Next]_vars, NEW r \in Requests, req[r].at # "changed",
                      req'[r].at = "changed", req[r].act = "change"
               PROVE  /\ req[r].at \in {"confirmed", "checked"}
                      /\ req[r].target.id \in Live /\ Seen(req[r].target.id) = req[r].target
                      /\ \A i \in Items \ {req[r].target.id} : item'[i] = item[i]
    OBVIOUS
  <2>1. req'[r] # req[r] /\ req \in [Requests -> Reqs]
    BY DEF IInv
  <2>2. PICK s \in Requests : Steps(s)
    BY <2>1 DEF Next, vars, Restart, Blank, Create, Edit, Delete, SetWall, Place
  <2>3. ASSUME Clarify(s) \/ Ground(s) \/ ReadWall(s) \/ GroundNew(s)
               \/ ReadNamed(s) \/ Confirm(s) \/ Check(s) \/ Cancel(s) \/ Age(s)
        PROVE  FALSE
    <3>1. CASE Clarify(s) \/ Cancel(s)
      BY <2>1, <3>1 DEF Clarify, Cancel, Ends, Blank
    <3>2. CASE Ground(s)
      <4>1. PICK act, i, slots : Found(s, act, i, slots)
        BY <3>2 DEF Ground
      <4>2. PICK place \in {"found", "answered", "awaiting"} :
               req'[s].at = place /\ \A u \in Requests \ {s} : req'[u] = req[u]
        <5> DEFINE named == req[s].words.kind = "note" /\ req[s].words.name # None
                   next == IF named THEN "found"
                           ELSE IF act = "read" THEN "answered" ELSE "awaiting"
        <5>1. req'[s].at = next /\ \A u \in Requests \ {s} : req'[u] = req[u]
          BY <2>1, <4>1 DEF Found, Reqs
        <5> QED
          BY <5>1
      <4> QED
        BY <2>1, <4>2
    <3>3. CASE ReadWall(s) \/ GroundNew(s) \/ ReadNamed(s)
      <4>1. req'[s].at \in {"answered", "awaiting"} /\ \A u \in Requests \ {s} : req'[u] = req[u]
        <5>1. CASE ReadWall(s)
          BY <2>1, <5>1 DEF ReadWall, Reqs
        <5>2. CASE GroundNew(s)
          BY <2>1, <5>2 DEF GroundNew, Reqs
        <5>3. CASE ReadNamed(s)
          <6> DEFINE place == IF req[s].act = "read" THEN "answered" ELSE "awaiting"
          <6>1. req'[s].at = place /\ \A u \in Requests \ {s} : req'[u] = req[u]
            BY <2>1, <5>3 DEF ReadNamed, Reqs
          <6> QED
            BY <6>1
        <5> QED
          BY <3>3, <5>1, <5>2, <5>3
      <4> QED
        BY <2>1, <4>1
    <3>4. CASE Confirm(s) \/ Check(s) \/ Age(s)
      BY <2>1, <3>4 DEF Confirm, Check, Age, To, Reqs
    <3> QED
      BY <2>3, <3>1, <3>2, <3>3, <3>4
  <2>4. ASSUME NEW w, Say(s, w) PROVE FALSE
    BY <2>1, <2>4 DEF Say, Reqs
  <2>5. CASE WriteNote(s) \/ WriteTask(s)
    <3>1. s = r
      BY <2>1, <2>5 DEF WriteNote, WriteTask, Written, Ends
    <3>2. req[r].at \in {"confirmed", "checked"} /\ \E x : Written(r, x)
      BY <2>5, <3>1 DEF WriteNote, WriteTask
    <3>3. req[r].target \in Snaps /\ Faithful(item, req[r].target) /\ Current(r)
      BY <3>2 DEF IInv, Known, Meant, Written
    <3>4. Seen(req[r].target.id) = req[r].target
      BY <3>3 DEF Snaps, Faithful, Current, Live, Seen
    <3>5. \A i \in Items \ {req[r].target.id} : item'[i] = item[i]
      BY <3>2 DEF Written, IInv, TypeOK
    <3> QED
      BY <3>2, <3>3, <3>4, <3>5 DEF Current
  <2>6. ASSUME Insert(s) PROVE FALSE
    BY <2>1, <2>6 DEF Insert, Ends
  <2> QED
    BY <2>2, <2>3, <2>4, <2>5, <2>6 DEF Steps
<1> QED
  BY <1>1, InitIInv, NextIInv, PTL DEF Spec, ChangesWhatWasShown

-----------------------------------------------------------------------------
(* Dialogs: their rows, states and proofs.                                 *)

\* What rows, turns, proofs and dialog states are made of.
Statuses == {"needs_clarification", "running", "cancelled", "awaiting_confirmation",
             "succeeded", "failed", "interrupted"}
Records == [status : Statuses, parent : Nat \cup {Nothing}, by : Owners \cup {Nothing}]
Turning == [id : Nat, text : Replies, at : Int]
Proofs == [root : Nat, at : Int, zone : Zones, lacks : Nat, steps : Seq(Turning)]
Phases == {"pending", "complete", "cancelled", "exhausted", "continued"}
States == [proof : Proofs, owner : Owners \cup {Nothing}, phase : Phases,
           next : Nat \cup {Nothing}]

\* The rows, and what a state says of its own proof.
Formed ==
    /\ row \in Seq(Records \cup {Nothing}) /\ state \in Seq(States \cup {Nothing})
    /\ Len(row) <= MaxRequests /\ Len(state) = Len(row)
    /\ \A r \in Recorded :
          /\ row[r] \in Records /\ state[r] \in States
          /\ row[r].parent \in (1 .. r - 1) \cup {Nothing}
          /\ Len(state[r].proof.steps) <= MaxTurns
          /\ state[r].phase # "continued" => state[r].phase = Phase(state[r].proof)
    /\ clock \in 0 .. MaxTime /\ zone \in Zones /\ history \subseteq Ids
    /\ draft \in [Owners -> [to : Nat, shown : States] \cup {Nothing}]

\* A chain of answers is in one hand: the parent of a row names it, and every
\* turn that is still there was said by the owner.
Linked(r) ==
    LET s == state[r] IN
    /\ row[r].parent \in Recorded =>
          /\ state[row[r].parent].phase = "continued"
          /\ state[row[r].parent].next = r
          /\ state[row[r].parent].owner = s.owner
    /\ row[r].parent # Nothing \/ s.proof.steps # <<>> => s.owner \in Owners
    /\ Ordered(s.proof)
    /\ \A i \in DOMAIN s.proof.steps :
          /\ s.proof.steps[i].id \in 1 .. r
          /\ s.proof.steps[i].id \in Recorded => row[s.proof.steps[i].id].by = s.owner

\* A question has one answer.
Apart == \A r, q \in Recorded :
            r # q /\ row[r].parent # Nothing => row[r].parent # row[q].parent

DialogInv == Formed /\ (\A r \in Recorded : Linked(r)) /\ Apart
-----------------------------------------------------------------------------
(* The proof of a dialog and its extension.                                *)

\* What Append() does.
LEMMA Appended ==
    ASSUME NEW S, NEW s \in Seq(S), NEW e \in S
    PROVE  /\ Append(s, e) \in Seq(S) /\ Len(Append(s, e)) = Len(s) + 1
           /\ \A i \in 1 .. Len(s) : Append(s, e)[i] = s[i]
           /\ Append(s, e)[Len(s) + 1] = e
  OBVIOUS

\* What replacing one element does.
LEMMA Replaced ==
    ASSUME NEW S, NEW s \in Seq(S), NEW i \in 1 .. Len(s), NEW e \in S
    PROVE  /\ [s EXCEPT ![i] = e] \in Seq(S) /\ Len([s EXCEPT ![i] = e]) = Len(s)
           /\ \A j \in 1 .. Len(s) : [s EXCEPT ![i] = e][j] = IF j = i THEN e ELSE s[j]
  OBVIOUS

\* A row's number is never "nothing".
LEMMA Numbers == \A i \in Ids : i # Nothing
  BY NothingAssumption DEF Ids

\* replay() finds one of four phases.
LEMMA PhaseType == ASSUME NEW p PROVE Phase(p) \in Phases \ {"continued"}
  BY DEF Phase, Phases

\* A complete proof lacks nothing and was not broken off.
LEMMA CompletePhase ==
    ASSUME NEW p, Phase(p) = "complete"
    PROVE  Missing(p) = 0 /\ \A i \in DOMAIN p.steps : p.steps[i].text # "cancel"
  BY DEF Phase

\* A question is put only while a turn is left.
LEMMA PendingPhase ==
    ASSUME NEW p \in Proofs, Phase(p) = "pending"
    PROVE  Len(p.steps) + 1 <= MaxTurns
  BY DialogBounds DEF Phase, Proofs

\* state_from() makes a state.
LEMMA StateType ==
    ASSUME NEW p \in Proofs, NEW o \in Owners \cup {Nothing}
    PROVE  /\ StateFrom(p, o) \in States /\ StateFrom(p, o).proof = p
           /\ StateFrom(p, o).owner = o /\ StateFrom(p, o).phase = Phase(p)
  BY PhaseType DEF StateFrom, States

\* An answer adds one turn, the row that will hold it, at the end of the proof.
LEMMA ExtendedType ==
    ASSUME Formed, NEW p \in Proofs, NEW text \in Replies
    PROVE  /\ Extended(p, text) \in Proofs
           /\ Len(Extended(p, text).steps) = Len(p.steps) + 1
           /\ \A i \in 1 .. Len(p.steps) : Extended(p, text).steps[i] = p.steps[i]
           /\ Extended(p, text).steps[Len(p.steps) + 1].id = Len(row) + 1
<1> DEFINE e == [id |-> Len(row) + 1, text |-> text, at |-> clock]
<1>1. e \in Turning
  BY DialogBounds DEF Formed, Turning
<1>2. p.steps \in Seq(Turning)
  BY DEF Proofs
<1>3. Extended(p, text) = [p EXCEPT !.steps = Append(p.steps, e)]
  BY DEF Extended
<1> HIDE DEF e
<1>4. /\ Append(p.steps, e) \in Seq(Turning) /\ Len(Append(p.steps, e)) = Len(p.steps) + 1
      /\ \A i \in 1 .. Len(p.steps) : Append(p.steps, e)[i] = p.steps[i]
      /\ Append(p.steps, e)[Len(p.steps) + 1] = e
  BY <1>1, <1>2, Appended
<1>5. e.id = Len(row) + 1
  BY DEF e
<1> QED
  BY <1>3, <1>4, <1>5 DEF Proofs

-----------------------------------------------------------------------------
(* The invariant of the dialogs.                                           *)

\* A step that keeps what remains of rows, links and states keeps the invariant.
LEMMA Same ==
    ASSUME DialogInv,
           row' \in Seq(Records \cup {Nothing}), state' \in Seq(States \cup {Nothing}),
           Len(row') = Len(row), Len(state') = Len(state),
           \A r \in Recorded' : /\ r \in Recorded /\ row'[r] \in Records
                            /\ row'[r].parent = row[r].parent /\ row'[r].by = row[r].by
                            /\ state'[r] = state[r],
           clock' \in 0 .. MaxTime, zone' \in Zones, history' \subseteq Ids,
           draft' \in [Owners -> [to : Nat, shown : States] \cup {Nothing}]
    PROVE  DialogInv'
<1>1. Ids' = Ids
  BY DEF Ids
<1>2. Formed'
  <2>1. ASSUME NEW r \in Recorded'
        PROVE  /\ row'[r] \in Records /\ state'[r] \in States
               /\ row'[r].parent \in (1 .. r - 1) \cup {Nothing}
               /\ Len(state'[r].proof.steps) <= MaxTurns
               /\ state'[r].phase # "continued" => state'[r].phase = Phase(state'[r].proof)
    BY <2>1 DEF DialogInv, Formed
  <2> QED
    BY <1>1, <2>1 DEF DialogInv, Formed, Phase, Missing, Filled
<1>3. ASSUME NEW r \in Recorded' PROVE Linked(r)'
  <2>1. r \in Recorded /\ Linked(r) /\ state[r] \in States /\ row[r] \in Records
    BY <1>3 DEF DialogInv, Formed
  <2>2. row'[r].parent \in Recorded' =>
          /\ state'[row'[r].parent].phase = "continued"
          /\ state'[row'[r].parent].next = r
          /\ state'[row'[r].parent].owner = state'[r].owner
    BY <2>1, <1>3 DEF Linked
  <2>3. row'[r].parent # Nothing \/ state'[r].proof.steps # <<>> => state'[r].owner \in Owners
    BY <2>1, <1>3 DEF Linked
  <2>4. Ordered(state'[r].proof)
    BY <2>1, <1>3 DEF Linked
  <2>5. ASSUME NEW i \in DOMAIN state'[r].proof.steps
        PROVE  /\ state'[r].proof.steps[i].id \in 1 .. r
               /\ state'[r].proof.steps[i].id \in Recorded' =>
                    row'[state'[r].proof.steps[i].id].by = state'[r].owner
    BY <2>1, <2>5, <1>3 DEF Linked
  <2> QED
    BY <2>2, <2>3, <2>4, <2>5 DEF Linked, Ordered, InTime
<1>4. Apart'
  BY DEF DialogInv, Apart
<1> QED
  BY <1>2, <1>3, <1>4 DEF DialogInv

\* No request, no dialog.
LEMMA InitDialogInv == DialogInit => DialogInv
<1> SUFFICES ASSUME DialogInit PROVE DialogInv
  OBVIOUS
<1>1. Ids = {} /\ Recorded = {}
  BY DEF DialogInit, Ids, Recorded
<1>2. Formed
  BY <1>1, DialogBounds DEF DialogInit, Formed, Zones
<1> QED
  BY <1>1, <1>2 DEF DialogInv, Apart

\* A root begins a chain of its own.
LEMMA AskKeeps ==
    ASSUME DialogInv, NEW owner \in Owners \cup {Nothing}, NEW lacks \in 1 .. MaxMissing,
           Ask(owner, lacks)
    PROVE  DialogInv'
<1> DEFINE n == Len(row) + 1
           p == [root |-> n, at |-> clock, zone |-> zone, lacks |-> lacks, steps |-> <<>>]
           new == [status |-> "needs_clarification", parent |-> Nothing, by |-> owner]
           s == StateFrom(p, owner)
<1>1. p \in Proofs /\ p.steps = <<>>
  BY DialogBounds DEF Proofs, DialogInv, Formed
<1>2. new \in Records /\ new.parent = Nothing
  BY DEF Records, Statuses
<1>3. s \in States /\ s.proof = p /\ s.owner = owner /\ s.phase = Phase(p)
  <2> HIDE DEF p
  <2> QED BY <1>1, StateType
<1>4. /\ row' = Append(row, new) /\ state' = Append(state, s)
      /\ Len(row) < MaxRoots /\ UNCHANGED <<clock, zone, draft, history>>
  BY DEF Ask
<1>5. row \in Seq(Records \cup {Nothing}) /\ state \in Seq(States \cup {Nothing}) /\ Len(state) = Len(row)
  BY DEF DialogInv, Formed
<1> HIDE DEF p, new, s
<1>6. /\ row' \in Seq(Records \cup {Nothing}) /\ Len(row') = n
      /\ \A i \in Ids : row'[i] = row[i]
      /\ row'[n] = new
  BY <1>2, <1>4, <1>5, Appended DEF Ids
<1>7. /\ state' \in Seq(States \cup {Nothing}) /\ Len(state') = n
      /\ \A i \in Ids : state'[i] = state[i]
      /\ state'[n] = s
  BY <1>3, <1>4, <1>5, Appended DEF Ids
<1>8. Ids' = Ids \cup {n} /\ Recorded' \subseteq Recorded \cup {n} /\ n \notin Ids /\ Recorded' \cap Ids = Recorded
  BY <1>5, <1>6 DEF Ids, Recorded
<1>9. Formed'
  <2>1. ASSUME NEW r \in Recorded'
        PROVE  /\ row'[r] \in Records /\ state'[r] \in States
               /\ row'[r].parent \in (1 .. r - 1) \cup {Nothing}
               /\ Len(state'[r].proof.steps) <= MaxTurns
               /\ state'[r].phase # "continued" => state'[r].phase = Phase(state'[r].proof)
    <3>1. CASE r = n
      BY <3>1, <1>1, <1>2, <1>3, <1>6, <1>7, DialogBounds
    <3>2. CASE r \in Recorded
      BY <3>2, <1>6, <1>7 DEF DialogInv, Formed, Recorded
    <3> QED
      BY <1>8, <3>1, <3>2
  <2>2. Len(row') <= MaxRequests
    BY <1>4, <1>5, <1>6, DialogBounds
  <2> QED
    BY <1>4, <1>6, <1>7, <1>8, <2>1, <2>2 DEF DialogInv, Formed, Phase, Missing, Filled
<1>10. ASSUME NEW r \in Recorded' PROVE Linked(r)'
  <2>1. CASE r = n
    <3>1. row'[r].parent \notin Recorded'
      BY <2>1, <1>2, <1>6, NothingAssumption DEF Recorded, Ids
    <3>2. Ordered(state'[r].proof)
      BY <2>1, <1>1, <1>3, <1>7 DEF Ordered
    <3> QED
      BY <2>1, <3>1, <3>2, <1>1, <1>2, <1>3, <1>6, <1>7 DEF Linked, Ordered, InTime
  <2>2. CASE r \in Recorded
    <3>1. Linked(r) /\ row'[r] = row[r] /\ state'[r] = state[r] /\ r \in Ids
          /\ row[r].parent \in (1 .. r - 1) \cup {Nothing}
      BY <2>2, <1>6, <1>7 DEF DialogInv, Formed, Recorded
    <3>2. n \notin Recorded \cup {row[r].parent} /\ n \notin 1 .. r
      BY <3>1, <1>5, <1>8, NothingAssumption DEF Ids
    <3>3. \A q \in Ids : q \in Recorded' => row'[q] = row[q] /\ state'[q] = state[q] /\ q \in Recorded
      BY <1>6, <1>7, <1>8
    <3>4. row'[r].parent \in Recorded' =>
            /\ state'[row'[r].parent].phase = "continued"
            /\ state'[row'[r].parent].next = r
            /\ state'[row'[r].parent].owner = state'[r].owner
      BY <3>1, <3>2, <3>3, <1>8 DEF Linked, Recorded
    <3>5. ASSUME NEW i \in DOMAIN state'[r].proof.steps
          PROVE  /\ state'[r].proof.steps[i].id \in 1 .. r
                 /\ state'[r].proof.steps[i].id \in Recorded' =>
                      row'[state'[r].proof.steps[i].id].by = state'[r].owner
      <4>1. state[r].proof.steps[i].id \in 1 .. r
        BY <3>1, <3>5 DEF Linked
      <4>2. state[r].proof.steps[i].id # n
        BY <4>1, <3>2
      <4> QED
        BY <3>1, <3>3, <3>5, <4>1, <4>2, <1>8 DEF Linked, Recorded
    <3> QED
      BY <3>1, <3>4, <3>5 DEF Linked, Ordered, InTime
  <2> QED
    BY <1>8, <2>1, <2>2
<1>11. Apart'
  BY <1>2, <1>6, <1>8 DEF DialogInv, Apart, Recorded
<1> QED
  BY <1>9, <1>10, <1>11 DEF DialogInv

\* One answer inserts a child and consumes the question it answers.
LEMMA ReplyKeeps ==
    ASSUME DialogInv, NEW o \in Owners, NEW text \in Replies, Reply(o, text)
    PROVE  DialogInv'
<1> DEFINE n == Len(row) + 1
           q == draft[o].to
           old == state[q].proof
           p == Extended(old, text)
           s == StateFrom(p, o)
           new == [status |-> CASE s.phase = "complete"  -> "running"
                                [] s.phase = "cancelled" -> "cancelled"
                                [] OTHER -> "needs_clarification",
                   parent |-> q, by |-> o]
           passed == [state[q] EXCEPT !.owner = o, !.phase = "continued", !.next = n]
<1>0. q \in Recorded
  BY DEF Reply, MayContinue
<1>1. /\ q \in Recorded /\ state[q].owner \in {Nothing, o} /\ state[q].phase = "pending"
      /\ Ordered(p) /\ Len(row) < MaxRequests
      /\ row' = Append(row, new) /\ state' = Append([state EXCEPT ![q] = passed], s)
      /\ UNCHANGED <<clock, zone, draft, history>>
  BY DEF Reply, MayContinue
<1>2. /\ row \in Seq(Records \cup {Nothing}) /\ state \in Seq(States \cup {Nothing})
      /\ Len(state) = Len(row) /\ Recorded \subseteq 1 .. Len(row)
  BY DEF DialogInv, Formed, Recorded, Ids
<1>3. /\ row[q] \in Records /\ state[q] \in States /\ Linked(q)
      /\ row[q].parent \in (1 .. q - 1) \cup {Nothing}
      /\ Phase(old) = "pending"
  BY <1>1 DEF DialogInv, Formed
<1>4. old \in Proofs
  BY <1>3 DEF States
<1>5. /\ p \in Proofs /\ Len(p.steps) = Len(old.steps) + 1
      /\ \A i \in 1 .. Len(old.steps) : p.steps[i] = old.steps[i]
      /\ p.steps[Len(old.steps) + 1].id = n
  BY <1>4, ExtendedType DEF DialogInv
<1>6. Len(p.steps) <= MaxTurns
  BY <1>3, <1>4, <1>5, PendingPhase
<1>7. s \in States /\ s.proof = p /\ s.owner = o /\ s.phase = Phase(p)
  <2> HIDE DEF p
  <2> QED
    BY <1>5, StateType
<1>8. new \in Records /\ new.parent = q /\ new.by = o
  <2> HIDE DEF s, q, p, n
  <2>1. q \in Nat
    BY <1>0, <1>2
  <2> QED
    BY <2>1 DEF Records, Statuses
<1>9. /\ passed \in States /\ passed.owner = o /\ passed.phase = "continued"
      /\ passed.next = n /\ passed.proof = old
  <2>1. n \in Nat
    BY <1>2
  <2> HIDE DEF n, q
  <2> QED
    BY <2>1, <1>3 DEF States, Phases
<1>10. /\ s.phase # "continued" /\ DOMAIN p.steps = 1 .. Len(old.steps) + 1
       /\ DOMAIN old.steps = 1 .. Len(old.steps) /\ Len(old.steps) \in Nat
  <2> HIDE DEF p, s, old
  <2>1. s.phase # "continued"
    BY <1>7, PhaseType
  <2>2. p.steps \in Seq(Turning) /\ old.steps \in Seq(Turning)
    BY <1>4, <1>5 DEF Proofs
  <2> QED
    BY <2>1, <2>2, <1>5
<1>11. Linked(q) /\ Ordered(p)
  BY <1>1, <1>3
<1>12. state[q].owner \in {Nothing, o} /\ q \in Recorded
  BY <1>1
<1> HIDE DEF n, p, s, new, passed
<1>13. /\ row' \in Seq(Records \cup {Nothing}) /\ Len(row') = n
       /\ \A i \in Ids : row'[i] = row[i]
       /\ row'[n] = new
  BY <1>1, <1>2, <1>8, Appended DEF Ids, n
<1>14. /\ [state EXCEPT ![q] = passed] \in Seq(States \cup {Nothing})
       /\ Len([state EXCEPT ![q] = passed]) = Len(state)
       /\ \A i \in Ids : [state EXCEPT ![q] = passed][i] = IF i = q THEN passed ELSE state[i]
  <2>1. q \in 1 .. Len(state)
    BY <1>1, <1>2
  <2> HIDE DEF q
  <2> QED
    BY <2>1, <1>2, <1>9, Replaced DEF Ids
<1>15. /\ state' \in Seq(States \cup {Nothing}) /\ Len(state') = n
       /\ \A i \in Ids : state'[i] = IF i = q THEN passed ELSE state[i]
       /\ state'[n] = s
  <2> DEFINE mid == [state EXCEPT ![q] = passed]
  <2>1. mid \in Seq(States \cup {Nothing}) /\ Len(mid) = Len(row) /\ state' = Append(mid, s)
    BY <1>1, <1>2, <1>14
  <2>2. \A i \in Ids : mid[i] = IF i = q THEN passed ELSE state[i]
    BY <1>14
  <2> HIDE DEF mid
  <2> QED
    BY <2>1, <2>2, <1>7, Appended DEF Ids, n
<1>16. /\ Ids' = Ids \cup {n} /\ Recorded' \subseteq Recorded \cup {n} /\ n \notin Ids
       /\ Recorded \subseteq Recorded' /\ Recorded \subseteq Ids /\ q \in Ids /\ q # n
       /\ n \in Nat /\ \A i \in Ids : i < n
  BY <1>1, <1>2, <1>13 DEF Ids, Recorded, n
<1>17. Formed'
  <2>1. ASSUME NEW r \in Recorded'
        PROVE  /\ row'[r] \in Records /\ state'[r] \in States
               /\ row'[r].parent \in (1 .. r - 1) \cup {Nothing}
               /\ Len(state'[r].proof.steps) <= MaxTurns
               /\ state'[r].phase # "continued" => state'[r].phase = Phase(state'[r].proof)
    <3>1. CASE r = n
      <4>1. q \in 1 .. n - 1
        <5> HIDE DEF q
        <5> QED
          BY <1>0, <1>2 DEF n
      <4> HIDE DEF q
      <4> QED
        BY <3>1, <4>1, <1>6, <1>7, <1>8, <1>13, <1>15
    <3>2. CASE r \in Recorded /\ r # q
      BY <3>2, <1>13, <1>15, <1>16 DEF DialogInv, Formed
    <3>3. CASE r = q
      <4>1. Len(old.steps) <= MaxTurns
        BY <1>12 DEF DialogInv, Formed
      <4> QED
        BY <3>3, <4>1, <1>3, <1>9, <1>13, <1>15, <1>16
    <3> QED
      BY <1>16, <3>1, <3>2, <3>3
  <2>2. Len(row') <= MaxRequests
    BY <1>1, <1>2, <1>13, DialogBounds DEF n
  <2> QED
    BY <1>1, <1>13, <1>15, <1>16, <2>1, <2>2 DEF DialogInv, Formed, Phase, Missing, Filled
<1>18. \A r \in Recorded : row[r].parent # q
  <2> SUFFICES ASSUME NEW r \in Recorded, row[r].parent = q PROVE FALSE
    OBVIOUS
  <2> QED
    BY <1>1, <1>12 DEF DialogInv, Linked
\* The question had one session at most, which is the one that answers it.
<1>19. \/ state[q].owner = o
       \/ row[q].parent = Nothing /\ old.steps = <<>>
  BY <1>11, <1>12, NothingAssumption DEF Linked
<1>20. ASSUME NEW r \in Recorded' PROVE Linked(r)'
  <2>1. CASE r = n
    <3>1. ASSUME NEW i \in DOMAIN p.steps
          PROVE  p.steps[i].id \in 1 .. n /\ (p.steps[i].id \in Recorded' => row'[p.steps[i].id].by = o)
      <4>1. CASE i = Len(old.steps) + 1
        <5>1. p.steps[i].id = n /\ row'[n].by = o
          BY <4>1, <1>5, <1>8, <1>13
        <5>2. n \in 1 .. n
          BY <1>2 DEF n
        <5> QED
          BY <5>1, <5>2
      <4>2. CASE i \in DOMAIN old.steps
        <5>1. p.steps[i] = old.steps[i] /\ old.steps # <<>>
          BY <4>2, <1>5, <1>10
        <5>2. state[q].owner = o
          BY <5>1, <1>19
        <5>3. old.steps[i].id \in 1 .. q /\ (old.steps[i].id \in Recorded => row[old.steps[i].id].by = o)
          BY <4>2, <5>2, <1>11 DEF Linked
        <5>4. old.steps[i].id \in Ids /\ old.steps[i].id \in 1 .. n
          BY <5>3, <1>16 DEF Ids
        <5>5. p.steps[i].id \in Recorded' => row'[p.steps[i].id].by = o
          BY <5>1, <5>3, <5>4, <1>13, <1>16
        <5> QED
          BY <5>1, <5>4, <5>5
      <4>3. i = Len(old.steps) + 1 \/ i \in DOMAIN old.steps
        <5> HIDE DEF old
        <5> QED
          BY <3>1, <1>10
      <4> QED
        BY <4>1, <4>2, <4>3
    <3>2. /\ state'[q].phase = "continued" /\ state'[q].next = n /\ state'[q].owner = o
      BY <1>9, <1>15, <1>16
    <3>3. row'[r].parent = q /\ state'[r] = s
      BY <2>1, <1>8, <1>13, <1>15
    <3>4. Ordered(state'[r].proof)
      BY <3>3, <1>7, <1>11
    <3> QED
      BY <2>1, <3>1, <3>2, <3>3, <3>4, <1>7 DEF Linked, Ordered, InTime
  <2>2. CASE r \in Recorded
    <3>1. Linked(r) /\ row'[r] = row[r] /\ r \in Ids /\ state'[r].proof = state[r].proof
          /\ row[r].parent \in (1 .. r - 1) \cup {Nothing} /\ row[r].parent # q
      BY <2>2, <1>9, <1>13, <1>15, <1>16, <1>18 DEF DialogInv, Formed
    <3>2. n # row[r].parent
      BY <3>1, <1>16, NothingAssumption DEF Ids
    <3>3. \A t \in Ids : t \in Recorded' => row'[t] = row[t] /\ t \in Recorded
      BY <1>13, <1>16
    <3>4. state'[r].owner = state[r].owner \/ (r = q /\ row[q].parent = Nothing /\ old.steps = <<>>)
      BY <3>1, <1>9, <1>15, <1>19
    <3>5. row'[r].parent \in Recorded' =>
            /\ state'[row'[r].parent].phase = "continued"
            /\ state'[row'[r].parent].next = r
            /\ state'[row'[r].parent].owner = state'[r].owner
      <4> SUFFICES ASSUME row[r].parent \in Recorded'
                   PROVE  /\ state'[row[r].parent].phase = "continued"
                          /\ state'[row[r].parent].next = r
                          /\ state'[row[r].parent].owner = state'[r].owner
        BY <3>1
      <4>1. row[r].parent \in Recorded /\ state'[row[r].parent] = state[row[r].parent]
        <5> DEFINE parent == row[r].parent
        <5>1. parent \in Recorded /\ parent \in Ids /\ parent # q
          BY <3>1, <3>2, <1>16
        <5> HIDE DEF parent
        <5>2. state'[parent] = state[parent]
          BY <5>1, <1>15
        <5> QED
          BY <5>1, <5>2 DEF parent
      <4>2. row[r].parent # Nothing
        <5> DEFINE parent == row[r].parent
        <5>1. parent \in Ids
          BY <4>1, <1>16
        <5> HIDE DEF parent
        <5>2. parent # Nothing
          BY <5>1, Numbers
        <5> QED
          BY <5>2 DEF parent
      <4>3. state'[r].owner = state[r].owner
        BY <3>4, <4>2
      <4>4. /\ state[row[r].parent].phase = "continued" /\ state[row[r].parent].next = r
            /\ state[row[r].parent].owner = state[r].owner
        BY <3>1, <4>1 DEF Linked
      <4> QED
        BY <4>1, <4>3, <4>4
    <3>6. row'[r].parent # Nothing \/ state'[r].proof.steps # <<>> => state'[r].owner \in Owners
      BY <3>1, <1>9, <1>15, <3>4 DEF Linked
    <3>7. ASSUME NEW i \in DOMAIN state'[r].proof.steps
          PROVE  /\ state'[r].proof.steps[i].id \in 1 .. r
                 /\ state'[r].proof.steps[i].id \in Recorded' =>
                      row'[state'[r].proof.steps[i].id].by = state'[r].owner
      <4>1. state'[r].owner = state[r].owner
        BY <3>1, <3>4, <3>7, <1>10
      <4>2. state[r].proof.steps[i].id \in 1 .. r
        BY <3>1, <3>7 DEF Linked
      <4>3. state[r].proof.steps[i].id \in Ids
        BY <3>1, <4>2 DEF Ids
      <4> QED
        BY <3>1, <3>3, <3>7, <4>1, <4>2, <4>3 DEF Linked
    <3>8. Ordered(state'[r].proof)
      BY <3>1 DEF Linked
    <3> QED
      BY <3>5, <3>6, <3>7, <3>8 DEF Linked, Ordered, InTime
  <2> QED
    BY <1>16, <2>1, <2>2
<1>21. Apart'
  <2> SUFFICES ASSUME NEW r \in Recorded', NEW t \in Recorded', r # t, row'[r].parent # Nothing
               PROVE  row'[r].parent # row'[t].parent
    BY DEF Apart
  <2> QED
    BY <1>8, <1>13, <1>16, <1>18 DEF DialogInv, Apart
<1> QED
  BY <1>17, <1>20, <1>21 DEF DialogInv

\* A change of one row's status.
LEMMA StatusKeeps ==
    ASSUME DialogInv, NEW r \in Recorded, NEW s \in Statuses, SetStatus(r, s),
           UNCHANGED <<state, clock, zone, draft>>, history' \subseteq history \cup {r}
    PROVE  DialogInv'
<1> DEFINE e == [row[r] EXCEPT !.status = s]
<1>1. row[r] \in Records /\ row \in Seq(Records \cup {Nothing}) /\ r \in 1 .. Len(row)
  BY DEF DialogInv, Formed, Recorded, Ids
<1>2. e \in Records /\ e.parent = row[r].parent /\ e.by = row[r].by
  BY <1>1 DEF Records
<1>3. row' = [row EXCEPT ![r] = e]
  BY DEF SetStatus
<1> HIDE DEF e
<1>4. /\ row' \in Seq(Records \cup {Nothing}) /\ Len(row') = Len(row)
      /\ \A j \in 1 .. Len(row) : row'[j] = IF j = r THEN e ELSE row[j]
  BY <1>1, <1>2, <1>3, Replaced
<1>5. ASSUME NEW q \in Recorded'
      PROVE  /\ q \in Recorded /\ row'[q] \in Records
             /\ row'[q].parent = row[q].parent /\ row'[q].by = row[q].by
             /\ state'[q] = state[q]
  BY <1>2, <1>4 DEF Recorded, Ids, DialogInv, Formed
<1>6. history' \subseteq Ids
  BY <1>1 DEF DialogInv, Formed, Ids
<1>7. /\ state' \in Seq(States \cup {Nothing}) /\ Len(state') = Len(state)
      /\ clock' \in 0 .. MaxTime /\ zone' \in Zones
      /\ draft' \in [Owners -> [to : Nat, shown : States] \cup {Nothing}]
  BY DEF DialogInv, Formed
<1> QED
  BY <1>4, <1>5, <1>6, <1>7, Same

\* Steps that insert no row.
LEMMA OtherKeeps ==
    ASSUME DialogInv,
           \/ \E o \in Owners : (\E p \in Ids : Compose(o, p)) \/ Forget(o)
           \/ \E r \in Ids : DeleteRequest(r)
           \/ HubRestarts \/ Tick \/ SetBack \/ SetZone \/ UNCHANGED dialog
    PROVE  DialogInv'
<1> USE DEF DialogInv
<1>1. /\ row \in Seq(Records \cup {Nothing}) /\ state \in Seq(States \cup {Nothing})
      /\ Len(state) = Len(row) /\ clock \in 0 .. MaxTime /\ zone \in Zones
      /\ history \subseteq Ids /\ draft \in [Owners -> [to : Nat, shown : States] \cup {Nothing}]
      /\ \A r \in Recorded : row[r] \in Records /\ state[r] \in States
  BY DEF Formed
<1>2. CASE \E o \in Owners : (\E p \in Ids : Compose(o, p)) \/ Forget(o)
  <2>1. UNCHANGED <<row, state, clock, zone, history>>
    BY <1>2 DEF Compose, Forget
  <2>2. draft' \in [Owners -> [to : Nat, shown : States] \cup {Nothing}]
    <3>1. PICK o \in Owners : (\E p \in Ids : Compose(o, p)) \/ Forget(o)
      BY <1>2
    <3>2. CASE Forget(o)
      BY <1>1, <3>2 DEF Forget
    <3>3. ASSUME NEW p \in Ids, Compose(o, p)
          PROVE  draft' \in [Owners -> [to : Nat, shown : States] \cup {Nothing}]
      <4>1. [to |-> p, shown |-> state[p]] \in [to : Nat, shown : States]
        BY <1>1, <3>3 DEF Compose, Ids
      <4> QED
        BY <1>1, <3>3, <4>1 DEF Compose
    <3> QED
      BY <3>1, <3>2, <3>3
  <2>3. Recorded' = Recorded /\ Ids' = Ids
    BY <2>1 DEF Recorded, Ids
  <2> QED
    BY <1>1, <2>1, <2>2, <2>3, Same
<1>3. ASSUME NEW r \in Ids, DeleteRequest(r) PROVE DialogInv'
  <2>1. /\ row' = [row EXCEPT ![r] = Nothing] /\ state' = [state EXCEPT ![r] = Nothing]
        /\ UNCHANGED <<clock, zone, draft, history>>
    BY <1>3 DEF DeleteRequest, Lost
  <2>2. /\ row' \in Seq(Records \cup {Nothing}) /\ Len(row') = Len(row)
        /\ \A j \in 1 .. Len(row) : row'[j] = IF j = r THEN Nothing ELSE row[j]
    BY <1>1, <2>1, Replaced DEF Ids
  <2>3. /\ state' \in Seq(States \cup {Nothing}) /\ Len(state') = Len(state)
        /\ \A j \in 1 .. Len(state) : state'[j] = IF j = r THEN Nothing ELSE state[j]
    BY <1>1, <2>1, Replaced DEF Ids
  <2>4. Ids' = Ids /\ Recorded' = Recorded \ {r}
    BY <2>2 DEF Ids, Recorded
  <2> QED
    BY <1>1, <2>1, <2>2, <2>3, <2>4, Same DEF Ids, Recorded
<1>4. CASE HubRestarts
  <2> DEFINE after(r) == IF r \in Recorded /\ row[r].status = "running"
                         THEN [row[r] EXCEPT !.status = "interrupted"] ELSE row[r]
  <2>1. row' = [r \in 1 .. Len(row) |-> after(r)] /\ UNCHANGED <<state, clock, zone, draft, history>>
    BY <1>4 DEF HubRestarts, Ids
  <2>2. ASSUME NEW r \in 1 .. Len(row)
        PROVE  /\ after(r) \in Records \cup {Nothing}
               /\ after(r) # Nothing => r \in Recorded
               /\ r \in Recorded => /\ after(r) \in Records /\ after(r).parent = row[r].parent
                                /\ after(r).by = row[r].by
    <3>1. CASE r \in Recorded
      BY <1>1, <3>1 DEF Records, Statuses
    <3>2. CASE r \notin Recorded
      BY <1>1, <3>2 DEF Recorded, Ids
    <3> QED
      BY <3>1, <3>2
  <2> HIDE DEF after
  <2>3. row' \in Seq(Records \cup {Nothing}) /\ Len(row') = Len(row)
    BY <1>1, <2>1, <2>2
  <2>4. \A r \in 1 .. Len(row) : row'[r] = after(r)
    BY <2>1
  <2>5. Ids' = Ids /\ Recorded' \subseteq Recorded
    BY <2>2, <2>3, <2>4 DEF Ids, Recorded
  <2> QED
    BY <1>1, <2>1, <2>2, <2>3, <2>4, <2>5, Same DEF Ids, Recorded
<1>5. CASE Tick \/ SetBack \/ SetZone \/ UNCHANGED dialog
  <2>1. UNCHANGED <<row, state, draft, history>>
    BY <1>5 DEF Tick, SetBack, SetZone, dialog
  <2>2. clock' \in 0 .. MaxTime /\ zone' \in Zones
    BY <1>1, <1>5, DialogBounds DEF Tick, SetBack, SetZone, dialog
  <2>3. Recorded' = Recorded /\ Ids' = Ids
    BY <2>1 DEF Recorded, Ids
  <2> QED
    BY <1>1, <2>1, <2>2, <2>3, Same
<1> QED
  BY <1>2, <1>3, <1>4, <1>5

\* Every step keeps the invariant.
LEMMA NextDialogInv == DialogInv /\ [DialogNext]_dialog => DialogInv'
<1> SUFFICES ASSUME DialogInv, [DialogNext]_dialog PROVE DialogInv'
  OBVIOUS
<1>1. ASSUME NEW o \in Owners, NEW text \in Replies, Reply(o, text) PROVE DialogInv'
  BY <1>1, ReplyKeeps
<1>2. ASSUME NEW o \in Owners \cup {Nothing}, NEW lacks \in 1 .. MaxMissing, Ask(o, lacks)
      PROVE  DialogInv'
  BY <1>2, AskKeeps
<1>3. ASSUME NEW r \in Ids, Stage(r) \/ ConfirmProposal(r) \/ CancelRequest(r) PROVE DialogInv'
  <2>1. r \in Recorded
    BY <1>3 DEF Stage, ConfirmProposal, CancelRequest
  <2>2. PICK s \in Statuses : SetStatus(r, s)
    BY <1>3 DEF Stage, ConfirmProposal, CancelRequest, Statuses
  <2>3. UNCHANGED <<state, clock, zone, draft>> /\ history' \subseteq history \cup {r}
    BY <1>3 DEF Stage, ConfirmProposal, CancelRequest
  <2> QED
    BY <2>1, <2>2, <2>3, StatusKeeps
<1> QED
  BY <1>1, <1>2, <1>3, OtherKeeps DEF DialogNext

\* OneContinuation is part of the invariant.
LEMMA DialogInvOne == DialogInv => OneContinuation
<1> SUFFICES ASSUME DialogInv PROVE OneContinuation
  OBVIOUS
<1>1. DialogTypeOK
  BY DEF DialogInv, Formed, DialogTypeOK, Records, States, Phases
<1> QED
  BY <1>1 DEF DialogInv, Formed, Linked, Apart, OneContinuation

\* Of two answers to one question, from one session or two, repeated or not, one
\* continues the dialog, which stays in one hand and ends at MaxTurns; for any
\* number of requests and sessions and any movement of the clock.
THEOREM Continued == DialogSpec => []OneContinuation
  BY InitDialogInv, NextDialogInv, DialogInvOne, PTL DEF DialogSpec

\* What a dialog carries out was said in full, by its owner, in order and in
\* time, and every turn is still on record.
THEOREM Said == DialogSpec => OnlyWhatWasSaid
<1>1. DialogInv /\ [DialogNext]_dialog => SaidInFull
  <2> SUFFICES ASSUME DialogInv, [DialogNext]_dialog, NEW r \in history' \ history
      PROVE  LET p == state[r].proof IN
             /\ Missing(p) = 0 /\ \A i \in DOMAIN p.steps : p.steps[i].text # "cancel"
             /\ Sourced(p) /\ Ordered(p)
             /\ \A i \in DOMAIN p.steps : row[p.steps[i].id].by = state[r].owner
    BY DEF SaidInFull
  <2>1. ConfirmProposal(r) /\ r \in Recorded
    BY DEF DialogNext, dialog, Ask, Compose, Reply, Forget, Stage, ConfirmProposal, CancelRequest,
           DeleteRequest, HubRestarts, Tick, SetBack, SetZone
  <2>2. Phase(state[r].proof) = "complete" /\ Sourced(state[r].proof)
    BY <2>1 DEF ConfirmProposal, DialogInv, Formed
  <2>3. Linked(r) /\ state[r].proof.steps \in Seq(Turning) /\ state[r].proof.root \in Nat
    BY <2>1 DEF DialogInv, Formed, States, Proofs
  <2>4. ASSUME NEW i \in DOMAIN state[r].proof.steps
        PROVE  row[state[r].proof.steps[i].id].by = state[r].owner
    <3> DEFINE st == state[r].proof.steps
               ids == [j \in DOMAIN st |-> st[j].id]
    <3>1. ids \in Seq(Nat) /\ Len(ids) = Len(st) /\ Len(st) \in Nat /\ DOMAIN st = 1 .. Len(st)
      <4>1. \A j \in DOMAIN st : st[j].id \in Nat
        <5> HIDE DEF st
        <5>1. \A j \in DOMAIN st : st[j] \in Turning
          BY <2>3 DEF st
        <5> QED
          BY <5>1 DEF Turning
      <4>2. Len(st) \in Nat /\ DOMAIN st = 1 .. Len(st)
        BY <2>3
      <4> HIDE DEF st
      <4>3. ids = [j \in 1 .. Len(st) |-> st[j].id]
        BY <4>2
      <4> QED
        BY <4>1, <4>2, <4>3
    <3>2. ids[i] = st[i].id
      BY <2>4
    <3> HIDE DEF ids
    <3>3. i + 1 \in DOMAIN (<<state[r].proof.root>> \o ids)
          /\ (<<state[r].proof.root>> \o ids)[i + 1] = ids[i]
      BY <2>3, <2>4, <3>1
    <3>4. Turns(state[r].proof) = <<state[r].proof.root>> \o ids
      BY DEF Turns, ids
    <3>5. st[i].id \in Recorded
      BY <2>2, <3>2, <3>3, <3>4 DEF Sourced
    <3> QED
      BY <2>3, <2>4, <3>5 DEF Linked
  <2> QED
    BY <2>2, <2>3, <2>4, CompletePhase DEF Linked
<1> QED
  BY <1>1, InitDialogInv, NextDialogInv, PTL DEF DialogSpec, OnlyWhatWasSaid
=============================================================================
