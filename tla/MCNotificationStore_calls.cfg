\* Two sessions: overlapping, failing and expiring writers in the one, the
\* writers of one dispatch request after the other in the other
CONSTANTS
    Sessions = {racing, serial}
    SerialSessions = {serial}
    IDs = {"route", "dispatched"}
    Bodies = {"early", "late"}
    Callers = {w1, w2}
SPECIFICATION Spec
INVARIANTS TypeOK UniqueIDs OwnSession
PROPERTY ImplementsLog
