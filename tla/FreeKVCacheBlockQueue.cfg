CONSTANT NumBlocks = 5
SPECIFICATION Spec
INVARIANT ListInSync
PROPERTY ImplementsQueue
