----------------------------- MODULE SpokenNotes -----------------------------
(***************************************************************************)
(* How a spoken request finds the note or the task it is about, while      *)
(* screens go on editing: plans made by the server or proposed by the      *)
(* model, the catalogue of titles, the second reading of a named note, the *)
(* administrator's confirmation, the adapter's own check - and what a      *)
(* shared display may show of the answer afterwards.  A row's version      *)
(* stands for its text, which every write renews.                          *)
(***************************************************************************)
EXTENDS Integers, FiniteSets

CONSTANTS Notes, Tasks,  \* identities; a deleted one is not used again
          Titles,        \* what rows are called, and what is said
          Within,        \* <<a, b>>: a occurs in b and is not all of it
          Texts,         \* texts of the note widget itself; NoText is empty
          NoText,
          Requests,
          Sayings,       \* the requests' words
          Starts,        \* the rows a run begins with
          MaxVersion,    \* bound: no row is edited at this version
          MaxEdits,      \* bound: edits made on screens
          None

Items == Notes \cup Tasks
Words == [kind : {"note", "task"}, act : {"read", "change", "create", "unclear"},
          via : {"plan", "model"}, name : Titles \cup {None},
          id : Items \cup {None}, latest : BOOLEAN]

ASSUME SayingsAssumption == Sayings \subseteq Words
ASSUME WithinAssumption == Within \subseteq Titles \X Titles
ASSUME BoundsAssumption == MaxVersion \in Nat \ {0} /\ MaxEdits \in Nat
ASSUME ConstantsAssumption ==
    /\ NoText \in Texts /\ Notes \cap Tasks = {} /\ None \notin Items \cup Titles
    /\ {"none", "current", "last"} \cap Items = {}

VARIABLES
    item,      \* the rows of hub_notes and tasks
    wall,      \* the text kept in the note widget itself
    placed,    \* the widgets on the shared layout
    req,       \* the requests
    aged,      \* requests whose reference time or preview has lapsed
    edits      \* number of edits on screens

vars == <<item, wall, placed, req, aged, edits>>
screens == <<item, wall, placed, edits>>

Widgets == {"note", "llm-response"}
Places == {"new", "said", "found", "awaiting", "confirmed", "checked",
           "answered", "changed", "clarify", "cancelled", "unknown"}
Running == {"said", "found", "confirmed", "checked"}

Row(title, shared) ==
    [state |-> "live", title |-> title, version |-> 1, shared |-> shared]
Free == [state |-> "free", title |-> None, version |-> 0, shared |-> FALSE]
Lives == [state : {"live"}, title : Titles, version : 1 .. MaxVersion, shared : BOOLEAN]
Gone == [Free EXCEPT !.state = "gone"]
Rows == {Free, Gone} \cup Lives
ASSUME StartsAssumption == Starts \subseteq [Items -> Rows]

Live == {i \in Items : item[i].state = "live"}

\* What is remembered of a row that was read, resolved_target and tool_result.
Seen(i) == [of |-> "row", id |-> i, title |-> item[i].title,
            version |-> item[i].version, shared |-> item[i].shared]
SeenWall == [of |-> "wall", text |-> wall]

Blank == [at |-> "new", words |-> None, act |-> None, slots |-> "said",
          private |-> FALSE, target |-> None, answer |-> None]

-----------------------------------------------------------------------------
(* Which row the words mean.                                               *)

\* Every row, private ones too, so that no title looks unique by omission.
Kind(k) == IF k = "note" THEN Notes ELSE Tasks
Catalog(k) == Kind(k) \cap Live

\* Exact titles first; otherwise the titles that contain the one said.
Matching(name, S) ==
    LET exact == {i \in S : item[i].title = name}
    IN  IF exact # {} THEN exact
        ELSE {i \in S : <<name, item[i].title>> \in Within}
TheOnly(S) == IF Cardinality(S) = 1 THEN S ELSE {}
ByTitle(w) == TheOnly(Matching(w.name, Catalog(w.kind)))

\* The model names no task: the one title that occurs in what was said.
ByMention(w) ==
    TheOnly({i \in Catalog(w.kind) : \/ item[i].title = w.name
                                     \/ <<item[i].title, w.name>> \in Within})

\* "Current" is the widget's own text, or the first shared note in an order
\* (pinned, updated_at) that is left open; "last" is the newest note.
Default == IF "note" \in placed /\ wall = NoText
           THEN {i \in Catalog("note") : item[i].shared} ELSE {}
Newest == Catalog("note")
ByReference(w) == IF w.latest THEN Newest ELSE Default

\* What the proposal points at: nothing, an identity, or a reference.
Pointers == {"none", "current", "last"} \cup Items
\* What it puts into title, text, date and time.
Slots == {"said", "omitted", "invented"}
\* Mutant of Grounded: any identity of the kind will do.
GroundedNothing(w, act, p, slots) == p \in Items => p \in Kind(w.kind)

\* A title spoken for a note is never replaced by the default note, and only
\* parse_memo may look for it among the others.
NameUnhandled(w, act) == w.kind = "note" /\ w.name # None /\ act # "create"

\* What a model proposes is held against the words: the action, title, text,
\* date and time, an identity that was said, the reference.  What it omits
\* the server fills in for a read only.
Grounded(w, act, p, slots) ==
    /\ slots = "said" \/ (slots = "omitted" /\ act # "create")
    /\ act = w.act \/ (w.act = "unclear" /\ act = "read")
    /\ CASE p \in Items  -> p = w.id /\ p \in Kind(w.kind)
         [] p = "none"    -> TRUE
         [] p = "current" -> w.kind = "note" /\ ~w.latest
         [] p = "last"    -> w.kind = "note" /\ w.latest
    /\ ~NameUnhandled(w, act)

\* The server's own plans: a note by its title, for one action; the current
\* or the last note, to be read; a task, by the frame of the sentence.
MemoPlan(w, act) == w.kind = "note" /\ w.name # None /\ act = w.act
FastRead(w, act) == w.kind = "note" /\ w.name = None /\ act = "read" /\ w.act = "read"
Frame(w, act) == w.kind = "task" /\ act = w.act

\* direct(): a plan is made from the words again and compared with the stored one.
Planned(w, act, p, slots) ==
    /\ p = "none" /\ slots = "said"
    /\ MemoPlan(w, act) \/ FastRead(w, act) \/ Frame(w, act)

Proposes(w, act, p, slots) ==
    IF w.via = "plan" THEN Planned(w, act, p, slots)
    ELSE Grounded(w, act, p, slots)

Candidates(w, p) ==
    CASE p \in Items -> {p} \cap Live
      [] p \notin Items /\ w.name # None ->
            IF w.via = "plan" THEN ByTitle(w) ELSE ByMention(w)
      [] p \notin Items /\ w.name = None /\ w.kind = "note" -> ByReference(w)
      [] OTHER -> {}

-----------------------------------------------------------------------------
(* A request.                                                              *)

Init ==
    /\ item \in Starts
    /\ wall \in Texts
    /\ placed = Widgets
    /\ req = [r \in Requests |-> Blank]
    /\ aged = {}
    /\ edits = 0

To(r, place) == [req EXCEPT ![r].at = place]

\* Nothing more is done with, or shown of, a request that ends this way.
Ends(r, place) ==
    /\ req' = [req EXCEPT ![r] = [Blank EXCEPT !.at = place]]
    /\ aged' = aged \ {r}

\* What is hidden from the displays whatever becomes of it.
Private(w, act) == w.kind = "note" /\ act # "read"

\* prepare()
Say(r, w) ==
    /\ req[r].at = "new"
    /\ req' = [req EXCEPT ![r].at = "said", ![r].words = w,
                          ![r].private = Private(w, w.act)]
    /\ UNCHANGED <<screens, aged>>

\* Not safe to act on, stale, refused by the schema or by ground(), no row
\* or several, a read that failed, a version that is not current any more.
Clarify(r) ==
    /\ req[r].at \in Running
    /\ Ends(r, "clarify")
    /\ UNCHANGED screens

\* A note named by its title is read a second time before anything is said
\* of it or asked; every other row is taken as it was found.
Found(r, act, i, slots) ==
    LET w == req[r].words
        named == w.kind = "note" /\ w.name # None
        next == IF named THEN "found" ELSE IF act = "read" THEN "answered" ELSE "awaiting"
    IN  req' = [req EXCEPT ![r].at = next, ![r].act = act, ![r].target = Seen(i),
                           ![r].slots = IF slots = "omitted" THEN "said" ELSE slots,
                           ![r].answer = IF next = "answered" THEN Seen(i) ELSE @,
                           ![r].private = Private(w, act)]

\* One transaction chooses the row.
Ground(r) ==
    /\ req[r].at = "said" /\ r \notin aged
    /\ \E act \in {"read", "change"}, p \in Pointers, slots \in Slots :
          LET w == req[r].words IN
          /\ Proposes(w, act, p, slots)
          /\ \E i \in Candidates(w, p) : Found(r, act, i, slots)
    /\ UNCHANGED <<screens, aged>>

\* The text in the note widget can be read, never changed by voice.
ReadWall(r) ==
    /\ req[r].at = "said" /\ r \notin aged
    /\ LET w == req[r].words IN
          /\ w.kind = "note" /\ w.name = None /\ ~w.latest
          /\ \E p \in {"none", "current"} : Proposes(w, "read", p, "said")
    /\ "note" \in placed /\ wall # NoText
    /\ req' = [req EXCEPT ![r].at = "answered", ![r].act = "read",
                          ![r].answer = SeenWall, ![r].private = FALSE]
    /\ UNCHANGED <<screens, aged>>

\* A new note or task needs no row; its title and text were said.
GroundNew(r) ==
    /\ req[r].at = "said" /\ r \notin aged
    /\ req[r].words.name # None
    /\ \E slots \in Slots :
          /\ Proposes(req[r].words, "create", "none", slots)
          /\ req' = [req EXCEPT ![r].at = "awaiting", ![r].act = "create",
                                ![r].slots = slots,
                                ![r].private = Private(req[r].words, "create")]
    /\ UNCHANGED <<screens, aged>>

\* Mutant of SameRow: the identity is enough.
AnyRow(seen, i) == seen.id = i

\* catalog_matches_response
SameRow(seen, i) == seen.title = item[i].title /\ seen.version = item[i].version

ReadNamed(r) ==
    LET i == req[r].target.id IN
    /\ req[r].at = "found" /\ i \in Live
    /\ SameRow(req[r].target, i)
    /\ req' = [req EXCEPT
          ![r].at = IF req[r].act = "read" THEN "answered" ELSE "awaiting",
          ![r].answer = IF req[r].act = "read" THEN Seen(i) ELSE @]
    /\ UNCHANGED <<screens, aged>>

Confirm(r) ==
    /\ req[r].at = "awaiting" /\ r \notin aged
    /\ req' = To(r, "confirmed")
    /\ UNCHANGED <<screens, aged>>

\* Mutant of Current: the version is not compared.
StillThere(r) == req[r].target.id \in Live

\* The version in the request is the one the preview was made from.
Current(r) == LET t == req[r].target IN t.id \in Live /\ item[t.id].version = t.version

\* MemoAdapter reads the note and compares versions before it writes.
Check(r) ==
    /\ req[r].at = "confirmed" /\ req[r].act = "change"
    /\ req[r].target.id \in Notes
    /\ Current(r)
    /\ req' = To(r, "checked")
    /\ UNCHANGED <<screens, aged>>

Renewed(i) == [item[i] EXCEPT !.version = @ + 1]

Written(r, row) ==
    LET i == req[r].target.id IN
    /\ Current(r)
    /\ item[i].version < MaxVersion \/ row = Gone
    /\ item' = [item EXCEPT ![i] = row]
    /\ Ends(r, "changed")
    /\ UNCHANGED <<wall, placed, edits>>

\* The write compares again, in its own transaction.
WriteNote(r) == req[r].at = "checked" /\ Written(r, Renewed(req[r].target.id))

\* A task's version is compared only where it is completed or deleted.
WriteTask(r) ==
    /\ req[r].at = "confirmed" /\ req[r].act = "change"
    /\ req[r].target.id \in Tasks
    /\ \E row \in {Renewed(req[r].target.id), Gone} : Written(r, row)

\* A note made by voice has the title that was said, and is not shared.
Insert(r) ==
    /\ req[r].at = "confirmed" /\ req[r].act = "create"
    /\ \E i \in Kind(req[r].words.kind) :
          /\ item[i].state = "free"
          /\ item' = [item EXCEPT ![i] = Row(req[r].words.name, FALSE)]
    /\ Ends(r, "changed")
    /\ UNCHANGED <<wall, placed, edits>>

\* Cancelled by the administrator; an execution that has begun is not.
Cancel(r) ==
    /\ req[r].at \in {"said", "found", "awaiting"}
    /\ Ends(r, "cancelled")
    /\ UNCHANGED screens

\* 15 minutes, another date or time zone; 10 minutes for a preview.
Age(r) ==
    /\ req[r].at \in {"said", "awaiting"} /\ r \notin aged
    /\ aged' = aged \cup {r}
    /\ UNCHANGED <<screens, req>>

\* The process ends: what was being read is lost, what was being executed
\* has an unknown outcome, and a preview goes on waiting.
Restart ==
    /\ \E r \in Requests : req[r].at \in Running
    /\ req' = [r \in Requests |->
          CASE req[r].at \in {"said", "found"} -> [Blank EXCEPT !.at = "cancelled"]
            [] req[r].at \in {"confirmed", "checked"} -> [Blank EXCEPT !.at = "unknown"]
            [] OTHER -> req[r]]
    /\ aged' = {r \in aged : req[r].at = "awaiting"}
    /\ UNCHANGED screens

-----------------------------------------------------------------------------
(* The screens.                                                            *)

Screen == edits < MaxEdits /\ edits' = edits + 1

Create(i, t, shared) ==
    /\ Screen
    /\ item[i].state = "free"
    /\ item' = [item EXCEPT ![i] = Row(t, shared /\ i \in Notes)]
    /\ UNCHANGED <<wall, placed, req, aged>>

\* Every edit writes title and sharing, and renews the version.
Edit(i, t, shared) ==
    /\ Screen
    /\ i \in Live /\ item[i].version < MaxVersion
    /\ item' = [item EXCEPT ![i].title = t, ![i].version = @ + 1,
                            ![i].shared = shared /\ i \in Notes]
    /\ UNCHANGED <<wall, placed, req, aged>>

Delete(i) ==
    /\ Screen
    /\ i \in Live
    /\ item' = [item EXCEPT ![i] = Gone]
    /\ UNCHANGED <<wall, placed, req, aged>>

SetWall(x) ==
    /\ Screen
    /\ x # wall /\ wall' = x
    /\ UNCHANGED <<item, placed, req, aged>>

Place(ws) ==
    /\ Screen
    /\ ws # placed /\ placed' = ws
    /\ UNCHANGED <<item, wall, req, aged>>

Steps(r) ==
    \/ \E w \in Sayings : Say(r, w)
    \/ Clarify(r) \/ Ground(r) \/ ReadWall(r) \/ GroundNew(r) \/ ReadNamed(r)
    \/ Confirm(r) \/ Check(r) \/ WriteNote(r) \/ WriteTask(r) \/ Insert(r)
    \/ Cancel(r) \/ Age(r)

Next ==
    \/ \E r \in Requests : Steps(r)
    \/ Restart
    \/ \E i \in Items, t \in Titles, b \in BOOLEAN : Create(i, t, b) \/ Edit(i, t, b)
    \/ \E i \in Items : Delete(i)
    \/ \E x \in Texts : SetWall(x)
    \/ \E ws \in SUBSET Widgets : Place(ws)

Spec == Init /\ [][Next]_vars

-----------------------------------------------------------------------------
(* What a shared display sees.                                             *)

\* LifeService.display() and the note widget's data: the note widget's texts.
OnNoteWidget ==
    IF "note" \notin placed THEN {}
    ELSE {<<i, item[i].version>> : i \in {n \in Notes \cap Live : item[n].shared}}
         \cup ({wall} \ {NoText})

\* Mutants of IsPublic: what was remembered decides; any version will do.
IsPublicBySnapshot(a) ==
    a # None /\ "note" \in placed /\ (a.of = "row" => a.shared)
IsPublicAnyVersion(a) ==
    /\ a # None /\ "note" \in placed
    /\ a.of = "row" => a.shared /\ a.id \in Live /\ item[a.id].shared

\* memo_result_is_public
IsPublic(a) ==
    /\ a # None /\ "note" \in placed
    /\ CASE a.of = "row"  -> /\ a.shared
                             /\ a.id \in Live /\ item[a.id].shared
                             /\ item[a.id].version = a.version
         [] a.of = "wall" -> a.text = wall

\* The reply widget lists what has been taken up while it is placed.
Listed(r) == "llm-response" \in placed /\ req[r].at # "new"

\* llm_display.entry: the note text the reply widget is given for a request.
Shown(r) ==
    IF /\ Listed(r) /\ req[r].at = "answered"
       /\ req[r].words.kind = "note" /\ ~req[r].private /\ IsPublic(req[r].answer)
    THEN {IF req[r].answer.of = "wall" THEN req[r].answer.text
          ELSE <<req[r].answer.id, req[r].answer.version>>}
    ELSE {}

-----------------------------------------------------------------------------
(* Properties.                                                             *)

TypeOK ==
    /\ item \in [Items -> Rows]
    /\ wall \in Texts
    /\ placed \subseteq Widgets
    /\ \A r \in Requests : req[r].at \in Places
    /\ aged \subseteq Requests
    /\ edits \in 0 .. MaxEdits

\* Whatever has been renamed, shared or deleted meanwhile, the reply widget
\* shows a note's text only while the note widget shows the same text.
NothingMoreShown ==
    /\ TypeOK
    /\ \A r \in Requests : Shown(r) \subseteq OnNoteWidget

\* A row asked for by its title has that title, or one that contains it (or,
\* for a task the model names no row for, one that occurs in what was said)
\* - at the moment it is read, not only when the titles were listed.  A row
\* is taken by its identity only if that was said, and words that do not ask
\* for a change are never put up for confirmation as one, nor is a title, a
\* text, a date or a time that nobody said.
Bears(title, name) == title = name \/ <<name, title>> \in Within
AnswersWhatWasAsked ==
    \A r \in Requests :
       LET w == req[r].words
           a == IF req[r].at = "answered" THEN req[r].answer ELSE req[r].target
       IN  /\ req[r].at \in {"answered", "awaiting"} /\ a # None /\ w.name # None =>
                 /\ a.of = "row"
                 /\ \/ a.id = w.id
                    \/ Bears(a.title, w.name)
                    \/ w.kind = "task" /\ w.via = "model" /\ Bears(w.name, a.title)
           /\ req[r].at = "answered" => w.act \in {"read", "unclear"}
           /\ req[r].at = "awaiting" => w.act = req[r].act /\ req[r].slots = "said"

\* A row changes by voice only if it still is what the administrator was
\* shown and confirmed: the same row, by the same title, at that version.
ChangesWhatWasShown ==
    [][\A r \in Requests :
          req[r].at # "changed" /\ req'[r].at = "changed" /\ req[r].act = "change" =>
             LET t == req[r].target IN
             /\ req[r].at \in {"confirmed", "checked"}
             /\ t.id \in Live /\ Seen(t.id) = t
             /\ \A i \in Items \ {t.id} : item'[i] = item[i]]_vars
=============================================================================
