CONSTANTS
    Words <- MCWords
    Cut <- MCCut
    Rest <- MCRest
    Files <- MCFiles
SPECIFICATION Spec
CHECK_DEADLOCK FALSE
INVARIANT
    LongWordsToo
