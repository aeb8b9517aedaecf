CONSTANTS
    Agents = {a1, a2}
    MaxLog = 3
    MaxExports = 2
SPECIFICATION Spec
INVARIANTS
    CompleteIsGenuine
    BornIsFirst
CHECK_DEADLOCK FALSE
