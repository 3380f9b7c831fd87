SPECIFICATION Spec
CONSTANTS
    n1 = n1
    n2 = n2
    t1 = t1
    t2 = t2
    memo = memo
    memos = memos
    Notes <- MCNotes
    Tasks <- MCTasks
    Titles <- MCTitles
    Within <- MCWithin
    Texts = {none, hello}
    NoText = none
    Requests = {r1, r2}
    Sayings <- MCSayings
    Starts <- MCStarts
    MaxVersion = 3
    MaxEdits = 2
    None = None
INVARIANTS NothingMoreShown AnswersWhatWasAsked
PROPERTIES ChangesWhatWasShown
SYMMETRY Alike
CHECK_DEADLOCK FALSE
