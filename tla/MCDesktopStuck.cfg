SPECIFICATION Spec
CONSTANTS
    Window = window
    Updater = updater
    Preparer = preparer
    Nobody = nobody
    Capacity = 2
    Faults = {}
    MaxRequests = 2
    MaxConnects = 2
INVARIANTS
    NobodyStuck
