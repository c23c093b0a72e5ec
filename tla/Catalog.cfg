SPECIFICATION ContentSpec
CONSTANTS
    c1 = c1
    c2 = c2
    l1 = l1
    l2 = l2
    None = None
    Blank = " "
    Fold <- MCFold
    Courses = {c1, c2}
    Learners = {l1}
    Bounds <- MCBounds
    BlockForms <- MCBlockForms
    Responses <- MCResponses
INVARIANTS TypeOK ReadsWholeVersion StoredQuizIsLastSaved StaleSheetEarnsNothing ScoreMatchesKey PassedByPercentage StoredQuestionIsAnswerable ContentHangsTogether AuditTellsWhatHappened LastEventTellsStatus
PROPERTY ContentGoesWithItsHome
CHECK_DEADLOCK FALSE
