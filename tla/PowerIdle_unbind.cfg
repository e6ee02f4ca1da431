SPECIFICATION Spec
CONSTANTS
    Proc = {p1}
    NDev = 2
    Policy = 20
    Default = 50
    MaxFaults = 1
INVARIANTS
    PolicyUnchanged
