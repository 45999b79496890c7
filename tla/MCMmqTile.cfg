SPECIFICATION Spec
CONSTANTS
    Warps = 2
    WideFrom = 16
    Products <- MCProducts
INVARIANT TileIsProduct
CHECK_DEADLOCK FALSE
