\* Three events with two delays.
SPECIFICATION FairSpec
CONSTANTS
    None = None
    Ids = {e1, e2, e3}
    Delays = {1, 3}
    MaxTime = 5
INVARIANT LatenessBounded
PROPERTIES ThreadResponds
