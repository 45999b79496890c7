-------------------------------- MODULE MmqTile --------------------------------
(***************************************************************************)
(* mul_mat_q_process_tile() (mmq/mmq.cuh) for Q4_K and Q6_K weights: the   *)
(* warps of a block load a tile of the weights and one of the activations  *)
(* to shared memory, multiply them with the tensor cores, and write the    *)
(* sums back.  A value is where it came from: which bits of which byte of  *)
(* a block of weights, which value of which column of the activations.     *)
(* The branches are those of the build (sm_121a).                          *)
(***************************************************************************)
EXTENDS Integers, Sequences, FiniteSets

CONSTANTS
    Warps,      \* nwarps, 8
    WideFrom,   \* columns from which a warp has two minitiles of rows, 48
    Products    \* the products that are looked at: see ProductOK

WarpSet == 0 .. Warps - 1
Lanes == 0 .. 31                  \* threadIdx.x
Rows == 16 * Warps                \* mmq_y
Steps(n, by) == {i \in 0 .. n - 1 : i % by = 0}

\* type; x: mmq_x; columns: ncols_y; first: the tile's first column; imax:
\* tile_x_max_i; start, blocks: its k range; fixup: is it a part of a tile?
ProductOK(p) ==
    /\ p.type \in {"Q4_K", "Q6_K"} /\ p.x \in Nat \ {0} /\ p.x % 8 = 0
    /\ p.columns \in Nat \ {0} /\ p.first \in 0 .. p.columns - 1
    /\ p.imax \in Nat /\ p.start \in Nat /\ p.blocks \in Nat \ {0} /\ p.fixup \in BOOLEAN

ASSUME TileAssumption ==
    /\ Warps \in Nat \ {0} /\ Warps % 2 = 0 /\ WideFrom \in Nat
    /\ \A p \in Products : ProductOK(p)

VARIABLES
    p,        \* the product
    at,       \* how many steps each warp has done
    tileX,    \* the block of weights each warp's share of tile_x holds
    tileY,    \* the same of tile_y, and the half of the block
    seen,     \* of each warp: what was in the tiles at its products
    wrote     \* the warps that have written their sums

vars == <<p, at, tileX, tileY, seen, wrote>>

-----------------------------------------------------------------------------
(* What the tiles hold.                                                    *)

\* unpack_scales_q45_K(), byte l: its low four bits, and its upper two.
Unpack(ksc, l) ==
    <<<<4 * ((ksc % 2) + IF ksc = 0 THEN 0 ELSE 1) + l, IF ksc = 3 THEN 4 ELSE 0>>,
      <<4 * (ksc \div 2) + l, 4 + 2 * (ksc % 2)>>>>

\* Rows that do not exist are those of the last one.
RowOf(pr, i) == IF i < pr.imax THEN i ELSE pr.imax

\* Every write to tile_x: row, column, warp, and the values.
LoadQ4(pr) ==
    {<<RowOf(pr, i0 + w), 16 * (t \div 8) + (t % 8) + 8 * n, w,
       [b \in 0 .. 3 |-> [low |-> <<4 * t + b, 4 * n>>, high |-> <<>>]]>> :
         w \in WarpSet, i0 \in Steps(Rows, Warps), t \in Lanes, n \in 0 .. 1}
    \cup
    {<<RowOf(pr, (i0 + 16 * w + (t \div 2)) % Rows), 64 + 4 * (t % 2) + l, w,
       <<Unpack(t % 2, l), Unpack((t % 2) + 2, l)>>>> :
         w \in WarpSet, i0 \in Steps(Rows, 16 * Warps), t \in Lanes, l \in 0 .. 3}

LoadQ6(pr) ==
    {<<RowOf(pr, i0 + w), 2 * t - (t % 16) + 16 * n, w,
       [b \in 0 .. 3 |-> [low  |-> <<4 * t + b, 4 * n>>,
                          high |-> <<4 * (8 * (t \div 16) + (t % 8)) + b,
                                     4 * n + 2 * ((t \div 8) % 2)>>]]>> :
         w \in WarpSet, i0 \in Steps(Rows, Warps), t \in Lanes, n \in 0 .. 1}
    \cup {<<RowOf(pr, (i0 + 32 * w + t) % Rows), 64, w, "d">> :
            w \in WarpSet, i0 \in Steps(Rows, 32 * Warps), t \in Lanes}
    \cup {<<RowOf(pr, (i0 + 8 * w + (t \div 4)) % Rows), 65 + (t % 4), w, [b \in 0 .. 3 |-> 4 * (t % 4) + b]>> :
            w \in WarpSet, i0 \in Steps(Rows, 8 * Warps), t \in Lanes}

\* Of each cell of tile_x, the warps that write it and what they write.
TileX == [pr \in Products |->
    LET writes == IF pr.type = "Q4_K" THEN LoadQ4(pr) ELSE LoadQ6(pr)
    IN [i \in 0 .. Rows - 1 |->
           LET row == {u \in writes : u[1] = i}
           IN [c \in 0 .. 75 |-> {<<u[3], u[4]>> : u \in {u \in row : u[2] = c}}]]]

\* quantize_mmq_q8_1(): the thread of the values i0 .. i0 + 3 of a column writes
\* them, and, one of eight, the scale and the sum of 32 values.
Block(pr, col, i0) == (i0 \div 128) * pr.columns + col
Quantized(pr, b) ==
    LET threads == {t \in (0 .. pr.columns - 1) \X Steps(256 * (pr.start + pr.blocks), 4) :
                      Block(pr, t[1], t[2]) = b}
    IN [s \in 0 .. 35 |->
           {<<t[1], "value", t[2]>> : t \in {t \in threads : s = 4 + ((t[2] % 128) \div 4)}}
           \cup {<<t[1], "scale", t[2]>> : t \in {t \in threads : t[2] % 32 = 0 /\ s = (t[2] % 128) \div 32}}]
Activations == [pr \in Products |->
    [b \in 0 .. 2 * (pr.start + pr.blocks) * pr.columns - 1 |-> Quantized(pr, b)]]

\* by0[l]: the columns' blocks lie one behind the other, and behind the
\* product's last are those of the next half block, or nothing.
LoadedY(v, l) ==
    LET a == 36 * (p.columns * (2 * v[1] + v[2]) + p.first) + l
    IN IF a \div 36 \in DOMAIN Activations[p] THEN Activations[p][a \div 36][a % 36] ELSE {}

\* What a warp reads that finds the tiles as in see.
ReadX(see, i, c) == {<<see.x[u[1]], u[2]>> : u \in TileX[p][i][c]}
ReadY(see, j, s) ==
    LET l == 36 * j + s IN LoadedY(see.y[(l \div 32) % Warps], l)

-----------------------------------------------------------------------------
(* A warp's product of the tiles.                                          *)

\* The registers of the operands and of the result of an mma: which lane has
\* which element, and in which register.
HeldA(r, c) == <<4 * (r % 8) + (c % 4), (r \div 8) + 2 * (c \div 4)>>
HeldB(q, c) == <<4 * q + (c % 4), c \div 4>>
HeldC(t, l) == <<(t \div 4) + 8 * (l \div 2), 2 * (t % 4) + (l % 2)>>

\* ldmatrix: register m of lane t is in the row that lane 8m + t/4 names.
LdMatrix(t, m, width) ==
    LET from == 8 * m + (t \div 4) IN <<from % 16, (from \div 16) * (width \div 2) + (t % 4)>>
LoadGeneric(t, l) == <<t \div 4, 4 * l + (t % 4)>>

\* tile<16, 8>: get_i and get_j.
GetI(t, l) == 8 * (l \div 2) + (t \div 4)
GetJ(t, l) == 2 * (t % 4) + (l % 2)

Minitiles(pr) == IF pr.x >= WideFrom THEN 2 ELSE 1      \* ntx
FirstRow(w) == (w \div Minitiles(p)) * 16 * Minitiles(p)
FirstColumn(w) == 8 * (w % Minitiles(p))
MmaWidth == IF p.type = "Q4_K" THEN 8 ELSE 4

\* The scale of row i for the values from int kk of half h.
ScaleX(see, i, h, kk) ==
    IF p.type = "Q4_K" THEN <<ReadX(see, i, 64 + 4 * h + (kk \div 8))>>
    ELSE <<{<<u[1], u[2][(kk % 16) \div 4]>> : u \in ReadX(see, i, 65 + 2 * h + (kk \div 16))},
           ReadX(see, i, 64)>>

\* The sums of a warp: the columns from j0, the rows of minitile n, lane t, register l.
SumsOf(w) == Steps(p.x, 8 * Minitiles(p)) \X (0 .. Minitiles(p) - 1) \X Lanes \X (0 .. 3)

\* The products of four values each that a sum takes at half h.
Multiplied(w, s, see, h) ==
    LET j0 == s[1]  n == s[2]  t == s[3]  l == s[4]
        rows == FirstRow(w) + 16 * n
        columns == j0 + FirstColumn(w)
        A(c) == LET m == HeldA(HeldC(t, l)[1], c) IN LdMatrix(m[1], m[2], MmaWidth)
        B(c) == LET m == HeldB(HeldC(t, l)[2], c) IN LoadGeneric(m[1], m[2])
    IN {<<ReadX(see, rows + A(c)[1], 32 * h + kk + A(c)[2]),
          ScaleX(see, rows + GetI(t, 2 * (l \div 2)), h, kk),
          ReadY(see, columns + B(c)[1], 4 + kk + B(c)[2]),
          ReadY(see, columns + GetJ(t, l % 2), kk \div 8)>> :
            kk \in Steps(32, MmaWidth), c \in 0 .. MmaWidth - 1}

\* mmq_write_back_mma(): a part of a tile is written whole.
LastRow == IF p.fixup THEN Rows ELSE p.imax
LastColumn == IF p.fixup THEN p.x ELSE p.columns - p.first - 1
Output(w, s) == <<FirstRow(w) + 16 * s[2] + GetI(s[3], s[4]),
                  s[1] + FirstColumn(w) + GetJ(s[3], s[4])>>
Written(w) == {s \in SumsOf(w) : Output(w, s)[1] <= LastRow /\ Output(w, s)[2] <= LastColumn}

-----------------------------------------------------------------------------
(* The steps of the warps.                                                 *)

\* MUTANT: no barrier between the first product and the second half's load.
BodyUnsynced == <<"x", "y", "sync", "dot", "y", "sync", "dot", "sync">>
Body == <<"x", "y", "sync", "dot", "sync", "y", "sync", "dot", "sync">>

InLoop(w) == at[w] < Len(Body) * p.blocks
Goes(w, step) == InLoop(w) /\ Body[(at[w] % Len(Body)) + 1] = step
Kb0(w) == p.start + (at[w] \div Len(Body))
\* Which half: the second from the second load of tile_y.
Half(w) == IF at[w] % Len(Body) < Len(Body) \div 2 THEN 0 ELSE 1
Advance(w) == at' = [at EXCEPT ![w] = @ + 1]

Init ==
    /\ p \in Products
    /\ at = [w \in WarpSet |-> 0] /\ wrote = {}
    /\ tileX = [w \in WarpSet |-> -1] /\ tileY = [w \in WarpSet |-> <<-1, 0>>]
    /\ seen = [w \in WarpSet |-> <<>>]

LoadX(w) ==
    /\ Goes(w, "x") /\ Advance(w)
    /\ tileX' = [tileX EXCEPT ![w] = Kb0(w)]
    /\ UNCHANGED <<p, tileY, seen, wrote>>

LoadY(w) ==
    /\ Goes(w, "y") /\ Advance(w)
    /\ tileY' = [tileY EXCEPT ![w] = <<Kb0(w), Half(w)>>]
    /\ UNCHANGED <<p, tileX, seen, wrote>>

Dot(w) ==
    /\ Goes(w, "dot") /\ Advance(w)
    /\ seen' = [seen EXCEPT ![w] = @ \o <<[x |-> tileX, y |-> tileY]>>]
    /\ UNCHANGED <<p, tileX, tileY, wrote>>

SyncThreads ==
    /\ \A w \in WarpSet : Goes(w, "sync")
    /\ at' = [w \in WarpSet |-> at[w] + 1]
    /\ UNCHANGED <<p, tileX, tileY, seen, wrote>>

WriteBack(w) ==
    /\ ~InLoop(w) /\ w \notin wrote
    /\ wrote' = wrote \cup {w}
    /\ UNCHANGED <<p, at, tileX, tileY, seen>>

Next == SyncThreads \/ \E w \in WarpSet : LoadX(w) \/ LoadY(w) \/ Dot(w) \/ WriteBack(w)
Spec == Init /\ [][Next]_vars

-----------------------------------------------------------------------------
(* The product as q3_quant.c defines the weights.                          *)

\* dequant_q4() and dequant_q6(): the bits of weight k of a block.
Weight(k) ==
    IF p.type = "Q4_K"
    THEN [low |-> <<32 * (k \div 64) + (k % 32), 4 * ((k \div 32) % 2)>>, high |-> <<>>]
    ELSE LET quarter == (k % 128) \div 32
         IN [low  |-> <<64 * (k \div 128) + 32 * (quarter % 2) + (k % 32), 4 * (quarter \div 2)>>,
             high |-> <<32 * (k \div 128) + (k % 32), 2 * quarter>>]

\* scale_min_q4(): the bits of scale and minimum; for Q6_K the scale's byte, and d.
ScaleMin(i) ==
    IF i < 4 THEN <<<<<<i, 0>>, <<i, 4>>>>, <<<<i + 4, 0>>, <<i + 4, 4>>>>>>
    ELSE <<<<<<i + 4, 0>>, <<i - 4, 6>>>>, <<<<i + 4, 4>>, <<i, 6>>>>>>
Scale(kb, k) ==
    IF p.type = "Q4_K" THEN <<{<<kb, ScaleMin(k \div 32)>>}>>
    ELSE <<{<<kb, 8 * (k \div 128) + 2 * ((k % 128) \div 32) + ((k % 32) \div 16)>>}, {<<kb, "d">>}>>

\* The product of row and column: of each four weights with four values of the
\* column, under the scales of both.
Product(col) ==
    {<<{<<kb, [b \in 0 .. 3 |-> Weight(k + b)]>>}, Scale(kb, k),
       {<<col, "value", 256 * kb + k>>}, {<<col, "scale", 256 * kb + k - (k % 32)>>}>> :
         kb \in p.start .. p.start + p.blocks - 1, k \in Steps(256, 4)}

\* When the block is done, each of its outputs within the product has been
\* written once, none beside it, and is the sum over the tile's k range of
\* every weight of its row, as the CPU's reference reads the block, times the
\* activation it belongs to, each once and under its own scales: no warp has
\* read a tile that another was still, or already again, writing.
TileIsProduct ==
    wrote = WarpSet =>
        LET written == UNION {{w} \X Written(w) : w \in WarpSet}
            rows == 0 .. (IF LastRow < Rows THEN LastRow ELSE Rows - 1)
            columns == 0 .. (IF LastColumn < p.x THEN LastColumn ELSE p.x - 1)
            existing == {u \in written : /\ Output(u[1], u[2])[1] <= p.imax
                                         /\ Output(u[1], u[2])[2] < p.columns - p.first}
            sum(u) == UNION {Multiplied(u[1], u[2], seen[u[1]][d], 1 - (d % 2)) : d \in DOMAIN seen[u[1]]}
        IN /\ {Output(u[1], u[2]) : u \in written} = rows \X columns
           /\ Cardinality(written) = Cardinality(rows) * Cardinality(columns)
           /\ \A u \in existing : sum(u) = Product(p.first + Output(u[1], u[2])[2])
=============================================================================
