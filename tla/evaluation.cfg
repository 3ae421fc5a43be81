SPECIFICATION Spec
CONSTANTS
    Commands = {c1, c2, c3}
    r1 = r1
    r2 = r2
    f1 = f1
    f2 = f2
    Runs = {r1, r2}
    Findings = {f1, f2}
    RunOf <- MCRunOf
    Generator <- MCGenerator
    Contents = {old, new}
    Unlocated = unlocated
    Questions = {q1, q2}
    MaxRevisions = 1
    MaxReviews = 2
    Measurers = {m1, m2}
    Labels = {l1}
    Modes = {hybrid, lexical}
    MaxVersions = 2
    MaxCommands = 4
SYMMETRY MCSymmetry
INVARIANTS
    CountsAreExact
    SavedWorkStands
    NumbersOfSameQuestions
CHECK_DEADLOCK FALSE
