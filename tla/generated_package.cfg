SPECIFICATION Spec
CONSTANTS
    Revisions = {1, 2}
    Histories <- MCHistories
    OldFile = "old.py"
INVARIANTS UpdateRepairs OneMeaning
PROPERTIES CheckIsHonest
