SPECIFICATION Spec
CONSTANTS
    MaxLeds = 2
    Bits = 2
    Memories = {2, 4, 6, 8, 10, 12, 14, 16, 24}
INVARIANTS WholeFrames AllOrNothing
