CONSTANTS
    s1 = s1
    s2 = s2
    SecRules = {s1}
    Specs <- MCGrowing
    BadSpecs = {}
    Ranges <- MCShrunkRange
    DefaultRange <- MCDefaultRange
    Edits = {"create", "spec", "range"}
    MaxEdits = 4
    MaxStale = 1
SPECIFICATION Spec
PROPERTIES GrantInRange
CHECK_DEADLOCK FALSE
