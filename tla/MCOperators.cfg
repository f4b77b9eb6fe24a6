CONSTANTS
    UNDEF = UNDEF
    Numbers <- MCNumbers
SPECIFICATION Spec
INVARIANTS RangeMeetsContract ShivNamesNormalise
\* Every call terminates; once its result is computed nothing is left to do.
CHECK_DEADLOCK FALSE
