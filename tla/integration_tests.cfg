SPECIFICATION TestsSpec
CONSTANTS
    Revisions = {1, 2}
INVARIANTS TestedIsPinned
