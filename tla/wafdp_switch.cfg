CONSTANTS
    r1 = r1
    r2 = r2
    Replicas = {r1, r2}
    Providers = {"EnvoyGateway", "Istio"}
    Edits = {"provider"}
    MaxEdits = 1
SYMMETRY MCSymmetry
SPECIFICATION Spec
INVARIANTS IdleIndexed
CHECK_DEADLOCK FALSE
