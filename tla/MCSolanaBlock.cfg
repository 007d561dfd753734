SPECIFICATION Spec
CONSTANTS
    Blocks <- MCBlocks
    Misread <- MCMisread
INVARIANTS
    ReplyAccountsForBlock
    InstructionsAttributable
    DexCategoryOfListedProgram
    CheckedTransfersReported
    PanicNeedsUnusualBlock
CHECK_DEADLOCK FALSE
