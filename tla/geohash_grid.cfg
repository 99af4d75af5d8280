CONSTANTS
    MaxLength = 3
SPECIFICATION Spec
INVARIANTS
    WalkFollowsGrid
    NeighborsSurround
