SPECIFICATION Spec
CONSTANTS
    Descs <- MCDescs
    Insts <- MCInsts
    Word = 1024
    ByteBits = 4
    Rest = 40
    Syms <- MCSyms
    ArgTypes <- MCArgTypes
    Base <- MCBase
    PrimBits = 2
    Funcs <- MCFuncs
    Scopes <- MCScopes
    Names <- MCNames
    Conds <- MCConds
    Exprs <- MCExprs
    MaxStmts = 4
    MaxEvals = 4
    Args <- MCArgs
    MaxLive = 6
    MemoLists <- MCMemos
INVARIANTS LayoutExact PathExact CodeMeansSource ArgsSurvive MemoExact
CHECK_DEADLOCK FALSE
