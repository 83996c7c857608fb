SPECIFICATION Spec
CONSTANTS
    Flux <- MCFlux
    Delais = {0, 1}
    FrameMax = 20
    ChunkMax = 7
    BufferMax = 26
    Arguments = {5, 247, 248}
    CapaciteRequete = 259
INVARIANT TypeOK
INVARIANT ChunksDoNotMatter
INVARIANT NoiseCostsNoFrame
INVARIANT TimeoutIsTrue
INVARIANT RequestsLeaveWhole
