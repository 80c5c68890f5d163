CONSTANTS
    r1 = r1
    r2 = r2
    Replicas = {r1, r2}
    Providers = {"Istio"}
    Edits = {"delete", "lease"}
    MaxEdits = 2
SYMMETRY MCSymmetry
SPECIFICATION Spec
INVARIANTS IdleDropped
CHECK_DEADLOCK FALSE
