CONSTANTS
    Files <- TheFiles
    WordMax = 4095
    Word32Max = 63
    U32 = 1
    U64 = 2
    ScalarSize <- TheScalars
    TensorType <- TheTensorTypes
    Matmul <- TheMatmul
    MaxDims = 3
    MaxNest = 2
    MinSize = 8
    DefaultAlign = 8
    JunkKv <- TheJunkKv
    JunkValues <- TheJunkValues
    JunkTensors <- TheJunkTensors
    MayFail = TRUE
SPECIFICATION FairSpec
INVARIANTS TensorsInFile OwnedIsHeld 
PROPERTY LoadReturns
CHECK_DEADLOCK FALSE
