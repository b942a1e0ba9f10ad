CONSTANTS
    Composes = {c1, c2}
    ByWindow = {c1}
    MaxAnswers = 1
SPECIFICATION Spec
INVARIANT ContinueIsServed
CHECK_DEADLOCK FALSE
