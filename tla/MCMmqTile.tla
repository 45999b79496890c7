------------------------------ MODULE MCMmqTile ------------------------------
(* Two warps of a quarter of the rows; tiles of one and of two minitiles,  *)
(* some with rows or columns that do not exist.                            *)
EXTENDS MmqTile

Tile(type, x, columns, first, imax, start, blocks, fixup) ==
    [type |-> type, x |-> x, columns |-> columns, first |-> first, imax |-> imax,
     start |-> start, blocks |-> blocks, fixup |-> fixup]

MCProducts == {
    Tile("Q4_K", 8, 8, 0, 31, 0, 2, FALSE),   Tile("Q4_K", 16, 19, 16, 20, 1, 1, FALSE),
    Tile("Q6_K", 8, 12, 8, 9, 0, 1, FALSE),   Tile("Q6_K", 16, 16, 0, 40, 1, 1, FALSE),
    Tile("Q4_K", 16, 12, 0, 13, 0, 1, TRUE),  Tile("Q6_K", 8, 7, 0, 63, 1, 1, TRUE)}
=============================================================================
