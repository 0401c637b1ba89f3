CONSTANTS
    Writers = {w1}
    Polls = {p1}
    MaxStored = 2
SPECIFICATION PollSpec
PROPERTY CursorReset
