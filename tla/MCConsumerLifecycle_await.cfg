CONSTANT MaxChannels = 2
SPECIFICATION FairSpec
PROPERTY AwaitsSetup
CHECK_DEADLOCK FALSE
