CONSTANTS
    s1 = s1
    s2 = s2
    SecRules = {s1}
    Specs <- MCReorder
    BadSpecs = {}
    Ranges = {}
    DefaultRange <- MCDefaultRange
    Edits = {"create", "spec"}
    MaxEdits = 3
    MaxStale = 1
SPECIFICATION Spec
INVARIANTS RuleIDsUnique
CHECK_DEADLOCK FALSE
