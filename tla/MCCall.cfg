\* Two users who may also call each other at once, or call again.
CONSTANTS
    User = {ann, bob}
    Nobody = Nobody
    MaxCalls = 2
SPECIFICATION FairSpec
INVARIANTS TypeOK ButtonsFitState FirstCallAgrees FirstCallIsAgreed
PROPERTIES NobodyStaysAlone
CHECK_DEADLOCK FALSE
