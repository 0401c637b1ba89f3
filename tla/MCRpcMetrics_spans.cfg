\* Three spans, two observers on one factory, a cache for two names
CONSTANTS
    Observers = {o1, o2}
    Spans = {s1, s2, s3}
    Names <- MCNames
    Codes <- MCCodes
    MaxNames = 2
    Backends = {"prometheus", "expvar"}
SPECIFICATION Spec
INVARIANTS TypeOK Bounded NoClash OthersWhenFull CountedOnce
SYMMETRY Symmetry
\* every span ends once
CHECK_DEADLOCK FALSE
