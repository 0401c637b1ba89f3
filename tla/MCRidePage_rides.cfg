\* A page, its form, its rides and their notifications
CONSTANTS
    Writers = {1, 2}
    Polls = {p1, p2}
    MaxStored = 5
    Locations = {1, 42, 123}
    MaxDisturbed = 2
    MaxRides = 2
    p2 = p2
    d1 = d1
    d2 = d2
    Drivers = {d1, d2}
    ETA <- MCETA
    NaN = NaN
    Undefined = Undefined
SPECIFICATION Spec
INVARIANTS TypeOK KnownLocations LogsComplete FirstDriverShown RowsOnce SixthRow
CHECK_DEADLOCK FALSE
CONSTRAINT RidesBound
