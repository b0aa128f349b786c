SPECIFICATION Spec
CONSTANTS
    MaxRows = 4
    MaxNow = 2
    MaxEvents = 1
    Limit = 2
    Newest = 2
INVARIANTS TypeOK WalkIsComplete 
CONSTRAINT Apart
