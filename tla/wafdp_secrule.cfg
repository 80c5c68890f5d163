CONSTANTS
    r1 = r1
    r2 = r2
    Replicas = {r1}
    Providers = {"Istio"}
    Edits = {"secrule"}
    MaxEdits = 2
SPECIFICATION FairSpec
PROPERTIES EventuallyServed
CHECK_DEADLOCK FALSE
