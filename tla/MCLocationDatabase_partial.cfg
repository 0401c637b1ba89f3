\* A creation during the setup, and nothing fails: the seed stays incomplete
CONSTANTS
    Requests = {r1, r2}
    Seed <- MCSeed
    Names <- MCNames
    IDs = {1}
SPECIFICATION Spec
INVARIANTS SeedSurvivesCreate
CHECK_DEADLOCK FALSE
