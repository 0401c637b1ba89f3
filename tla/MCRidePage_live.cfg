\* One ride whose polls overlap, or whose notifications go missing
CONSTANTS
    Writers = {1}
    Polls = {p1, p2}
    MaxStored = 3
    Locations = {42}
    MaxDisturbed = 1
    MaxRides = 1
    p2 = p2
    d1 = d1
    d2 = d2
    Drivers = {d1}
    ETA <- MCETA
    NaN = NaN
    Undefined = Undefined
SPECIFICATION FairSpec
INVARIANTS NoGap ExactlyOnce NeverTwice
PROPERTIES EventuallyShown DriverArrives
CHECK_DEADLOCK FALSE
CONSTRAINT LiveBound
