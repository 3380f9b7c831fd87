---------------------------- MODULE MCSpokenNotes ----------------------------
\* Two notes, two tasks, titles of which one contains the other, and one
\* request of every family: by title, by default, by recency, by identity.
EXTENDS SpokenNotes, TLC

CONSTANTS n1, n2, t1, t2, memo, memos

MCNotes == {n1, n2}
MCTasks == {t1, t2}
MCTitles == {memo, memos}
MCWithin == {<<memo, memos>>}

W(kind, act, via, name, id, latest) ==
    [kind |-> kind, act |-> act, via |-> via, name |-> name, id |-> id,
     latest |-> latest]

MCSayings ==
    {W("note", "read", "plan", memos, None, FALSE),
     W("note", "change", "plan", memo, None, FALSE),
     W("note", "read", "plan", None, None, TRUE),
     W("note", "unclear", "model", None, None, FALSE),
     W("note", "change", "model", None, n1, FALSE),
     W("note", "create", "model", memo, None, FALSE),
     W("task", "change", "plan", memo, None, FALSE),
     W("task", "change", "model", memos, t1, FALSE)}

Alike == Permutations(Requests)

MCStarts ==
    {(n1 :> Row(memo, FALSE)) @@ (n2 :> b) @@ (t1 :> Row(memo, FALSE))
        @@ (t2 :> Free) : b \in {Free, Row(memos, TRUE)}}
=============================================================================
