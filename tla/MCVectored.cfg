SPECIFICATION Spec
CONSTANTS
    VecLens <- MCVecLens
    MaxFaults = 1
INVARIANT WholeVector
CHECK_DEADLOCK FALSE
