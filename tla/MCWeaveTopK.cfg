SPECIFICATION Spec
CONSTANTS
    Corpora <- MCCorpora
    BlockSize = 2
    PageBlocks = 2
    MantissaBits = 0
    PosRoom = 0
    WandCutoff = 4
    MaxDoc = 4
INVARIANTS ScoresTrue CompleteBelowK FuseExact VecExact LexExact
PROPERTY AlwaysForward
