\* One event whose reducer fails.
CONSTANTS
    Limit = 2
    MaxSteps = 3
SPECIFICATION FairSpec
PROPERTIES FailureIsRepaired
CHECK_DEADLOCK FALSE
