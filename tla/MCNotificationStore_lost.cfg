\* Two services store a notification for the same session at once
CONSTANTS
    Sessions = {s1}
    SerialSessions = {}
    IDs = {"dispatching", "location"}
    Bodies = {"text"}
    Callers = {w1, w2}
SPECIFICATION Spec
PROPERTY KeepsStored
