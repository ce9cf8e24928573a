CONSTANTS
    Clients = {c1, c2}
    IoLoops = {io1, io2}
    Starters = {"base", "t1", "t2"}
    StartCalls = 2
    IdMod = 3
    Uses <- TwoStarters
SPECIFICATION Spec
INVARIANTS
    StartHarmless
CHECK_DEADLOCK FALSE
