SPECIFICATION Spec
CONSTANTS
    Pcs <- TwoPcs
    Pages = {p, q}
    Untracked = {}
    Exits = {0}
    MaxTbs = 3
    RefMax = 1
    Succ <- OtherPc
    Beyond <- NextPage
    Guests <- AllGuests
    MaxVersion = 1
SYMMETRY PageSymmetry
CHECK_DEADLOCK FALSE
INVARIANTS
    FenceOrdersFetch
    RunsCurrentPc
    PatchedJumpsKnown
    LiveBlocksTracked
    RunsMappedPageIfFenced
PROPERTIES
    DispatchCoherentIfPlain
