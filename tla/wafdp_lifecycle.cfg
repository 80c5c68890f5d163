CONSTANTS
    r1 = r1
    r2 = r2
    Replicas = {r1}
    Providers = {"EnvoyGateway", "Istio"}
    Edits = {"waf", "delete", "provider", "ruleset", "fail"}
    MaxEdits = 2
SPECIFICATION FairSpec
INVARIANTS TypeOK SlotGuarded IdleServes IdleDropped
PROPERTIES FailClosed EventuallyServed EventuallySlotted EventuallyReady EventuallyGone
CHECK_DEADLOCK FALSE
