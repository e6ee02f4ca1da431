SPECIFICATION Spec
CONSTANTS
    Proc = {p1, p2}
    NDev = 2
    Policy = 200
    Default = 50
    MaxFaults = 1
INVARIANTS
    ObservedByOne
    PolicyKeptByOne
PROPERTIES
    SurvivorHeals
