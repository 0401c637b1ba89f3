\* Two partitions that share the simulator and two workers
CONSTANTS
    Claims = {c1, c2}
    Drivers = 2
    Freqs <- MCFreqs
    Workers = {w1, w2}
    ETAs = {1, 2}
    Error = Error
    Pending = Pending
SPECIFICATION FairSpec
INVARIANTS TypeOK LookupSucceeds
PROPERTIES EveryXCalls ImplementsBest DispatchReturns
