\* Five calls of Consume, any of which may fail; a signal at any time
CONSTANT MaxChannels = 5
SPECIFICATION FairSpec
INVARIANTS TypeOK NeverClosedTwice ServesAfterSetup ClosesLast
PROPERTIES ShutsDown ServesUnlessFailed
\* the process ends
CHECK_DEADLOCK FALSE
