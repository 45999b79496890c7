------------------------------- MODULE StreamK -------------------------------
(***************************************************************************)
(* One quantized matrix product on the device: mul_mat_q_case() of         *)
(* cuda/mmq/mmq.cuh, as q3_mmq.cu calls it.  The output is cut into tiles, *)
(* each of which is a sum over the blocks of the contraction.  All of      *)
(* these, tile behind tile, are dealt out to the thread blocks of one      *)
(* kernel in equal shares (stream-K).  A tile that is cut between two      *)
(* shares is written by the thread block that has its end; the others      *)
(* leave their part in a scratch buffer, from where a second kernel adds   *)
(* it.  What is summed is modelled by its index: block k of tile t is      *)
(* t * blocks + k.                                                         *)
(***************************************************************************)
EXTENDS Integers, FiniteSets

CONSTANTS
    Products,      \* the products: rows, columns, blocks of a row, and the
                   \* multiprocessors of the device
    Widths,        \* the tile widths mmq_x that mul_mat_q_case() may choose
    TileY,         \* mmq_y, the rows of a tile
    Step           \* blocks_per_iter, the blocks that one iteration sums

\* A row is a whole number of iterations: with Q4_K and Q6_K, ITER_K is the
\* size of one block.
ASSUME StreamKAssumption ==
    /\ Products \subseteq [rows : Nat \ {0}, cols : Nat \ {0}, blocks : Nat \ {0}, sms : Nat \ {0}]
    /\ Widths # {} /\ Widths \subseteq Nat \ {0}
    /\ TileY \in Nat \ {0} /\ Step \in Nat \ {0}
    /\ \A p \in Products : p.blocks % Step = 0

VARIABLES
    product,   \* the arguments of the launch
    phase,     \* the kernel that runs: "tiles", "fixup", or "done"
    next,      \* kbc of each thread block of the first kernel
    scratch,   \* tmp_fixup: the part that each thread block left
    fix,       \* the thread blocks of the fixup kernel: where they read, and sum
    dst        \* the output: what each tile is the sum of

streamVars == <<product, phase, next, scratch, fix, dst>>

-----------------------------------------------------------------------------
(* launch_mul_mat_q()                                                      *)

CeilDiv(a, b) == (a + b - 1) \div b

\* mul_mat_q_case(): the narrowest of those that need the fewest tiles.
Width(p) == CHOOSE w \in Widths : \A v \in Widths \ {w} :
                \/ CeilDiv(p.cols, w) < CeilDiv(p.cols, v)
                \/ CeilDiv(p.cols, w) = CeilDiv(p.cols, v) /\ w < v

TilesX(p) == CeilDiv(p.cols, Width(p))
TilesY(p) == CeilDiv(p.rows, TileY)
Tiles(p) == TilesX(p) * TilesY(p)

\* One thread block per tile when that keeps the device busy.
Grid(p) == IF (100 * Tiles(p)) \div (p.sms * CeilDiv(Tiles(p), p.sms)) >= 90 THEN Tiles(p)
           ELSE p.sms
\* MUTANT: only fewer tiles than thread blocks need it.
FixupLess(p) == Tiles(p) < Grid(p)
FixupNeeded(p) == Tiles(p) % Grid(p) # 0

Blocks(p) == 0 .. Grid(p) - 1
TileOf(p, k) == k \div p.blocks
Summands(p, t) == t * p.blocks .. (t + 1) * p.blocks - 1

\* The elements of the output that a tile holds: its write-back is cut at the
\* last row and the last column.
Cells(p, t) ==
    LET it == t \div TilesX(p)  jt == t % TilesX(p) IN
    {c \in (it * TileY .. (it + 1) * TileY - 1) \X (jt * Width(p) .. (jt + 1) * Width(p) - 1) :
        c[1] < p.rows /\ c[2] < p.cols}

\* MUTANT: the shares are of one size, and what is left over is nobody's.
ShareEqual(p, b) ==
    LET k == b * ((Tiles(p) * p.blocks) \div Grid(p))
    IN k - ((k % p.blocks) % Step)
\* Where the share of thread block b begins: on a whole iteration.
Share(p, b) ==
    LET k == (b * (Tiles(p) * p.blocks)) \div Grid(p)
    IN k - ((k % p.blocks) % Step)

\* The launch: the output was set to zero before, and so is the scratch.
Launched ==
    /\ phase = "tiles"
    /\ next = [b \in Blocks(product) |-> Share(product, b)]
    /\ scratch = [b \in Blocks(product) |-> {}]
    /\ fix = [b \in Blocks(product) |-> [at |-> "start"]]
    /\ dst = [t \in 0 .. Tiles(product) - 1 |-> {}]

StreamInit == product \in Products /\ Launched

-----------------------------------------------------------------------------
(* mul_mat_q()                                                             *)

\* mul_mat_q_process_tile(): whole iterations, up to stop.
Summed(from, stop) == UNION {k .. k + Step - 1 : k \in {k \in from .. stop - 1 : (k - from) % Step = 0}}

TileEnd(p, k) == (TileOf(p, k) + 1) * p.blocks

\* A share that goes to the end of the tile writes it.
WriteTile(b) ==
    LET k == next[b] IN
    /\ phase = "tiles" /\ k < Share(product, b + 1) /\ TileEnd(product, k) <= Share(product, b + 1)
    /\ dst' = [dst EXCEPT ![TileOf(product, k)] = Summed(k, TileEnd(product, k))]
    /\ next' = [next EXCEPT ![b] = TileEnd(product, k)]
    /\ UNCHANGED <<product, phase, scratch, fix>>

\* The last part of a share is left for the fixup.
LeavePart(b) ==
    LET k == next[b] IN
    /\ phase = "tiles" /\ k < Share(product, b + 1) /\ TileEnd(product, k) > Share(product, b + 1)
    /\ scratch' = [scratch EXCEPT ![b] = Summed(k, Share(product, b + 1))]
    /\ next' = [next EXCEPT ![b] = Share(product, b + 1)]
    /\ UNCHANGED <<product, phase, fix, dst>>

\* The second kernel follows in the stream.
Fixup ==
    /\ phase = "tiles" /\ \A b \in Blocks(product) : next[b] >= Share(product, b + 1)
    /\ phase' = IF FixupNeeded(product) THEN "fixup" ELSE "done"
    /\ UNCHANGED <<product, next, scratch, fix, dst>>

-----------------------------------------------------------------------------
(* mul_mat_q_stream_k_fixup()                                              *)

\* MUTANT: a share that ends in the middle of its first tile is taken for one
\* that wrote it.
WroteOnlyAnEndLoose(p, b) == Share(p, b) # Share(p, b + 1) /\ Share(p, b) % p.blocks # 0
\* The share has the end of a tile, and not its beginning.
WroteOnlyAnEnd(p, b) ==
    LET from == Share(p, b)  stop == Share(p, b + 1) IN
    /\ from # stop /\ from % p.blocks # 0
    /\ ~(TileOf(p, from) = TileOf(p, stop) /\ stop % p.blocks # 0)

FixStart(b) ==
    /\ phase = "fixup" /\ fix[b].at = "start"
    /\ fix' = [fix EXCEPT ![b] =
                  IF WroteOnlyAnEnd(product, b)
                  THEN [at |-> "sum", from |-> b - 1, stop |-> Share(product, b), sum |-> {}]
                  ELSE [at |-> "end"]]
    /\ UNCHANGED <<product, phase, next, scratch, dst>>

\* The part that begins at k is the tile's first one.
PartBegins(p, k, first) == k % p.blocks = 0 \/ TileOf(p, k) < TileOf(p, first)

Passed(b) == [fix[b] EXCEPT !.from = @ - 1, !.stop = Share(product, fix[b].from)]

\* One round: the part of the thread block before, if it had any.
FixRead(b) ==
    /\ phase = "fixup" /\ fix[b].at = "sum"
    /\ LET from == fix[b].from  k == Share(product, from)
           sum == fix[b].sum \cup scratch[from]
       IN fix' = [fix EXCEPT ![b] =
                     IF k = fix[b].stop THEN Passed(b)
                     ELSE IF PartBegins(product, k, Share(product, b))
                     THEN [at |-> "add", from |-> from, sum |-> sum]
                     ELSE [at |-> "sum", from |-> from - 1, stop |-> k, sum |-> sum]]
    /\ UNCHANGED <<product, phase, next, scratch, dst>>

FixAdd(b) ==
    /\ phase = "fixup" /\ fix[b].at = "add"
    /\ dst' = [dst EXCEPT ![TileOf(product, Share(product, b))] = @ \cup fix[b].sum]
    /\ fix' = [fix EXCEPT ![b] = [at |-> "end"]]
    /\ UNCHANGED <<product, phase, next, scratch>>

FixEnd ==
    /\ phase = "fixup" /\ \A b \in Blocks(product) : fix[b].at = "end" /\ phase' = "done"
    /\ UNCHANGED <<product, next, scratch, fix, dst>>

-----------------------------------------------------------------------------

StreamStep(b) == WriteTile(b) \/ LeavePart(b) \/ FixStart(b) \/ FixRead(b) \/ FixAdd(b)
StreamNext == (\E b \in Blocks(product) : StreamStep(b)) \/ Fixup \/ FixEnd

\* The device runs every thread block to its end.
StreamSpec == StreamInit /\ [][StreamNext]_streamVars /\ WF_streamVars(StreamNext)

-----------------------------------------------------------------------------
(* Properties.                                                             *)

\* Every element of the output is in one tile, and that tile is the sum of
\* all of its blocks, whatever the shape of the matrix and of the device.
ProductIsWhole ==
    phase = "done" =>
        \A c \in (0 .. product.rows - 1) \X (0 .. product.cols - 1) :
            \E t \in DOMAIN dst :
                /\ {u \in DOMAIN dst : c \in Cells(product, u)} = {t}
                /\ dst[t] = Summands(product, t)

\* No block is added twice, and what is added was left by thread blocks that
\* exist: "All CUDA blocks that get here must have a previous block that
\* needs a fixup".
AddedOnce ==
    \A b \in DOMAIN fix :
        /\ fix[b].at = "sum" => fix[b].from >= 0 /\ fix[b].sum \cap scratch[fix[b].from] = {}
        /\ fix[b].at = "add" => fix[b].sum \cap dst[TileOf(product, Share(product, b))] = {}

\* A product that is said to need no scratch leaves no part in it, and one
\* that does has as many thread blocks as the arena was sized for: "either 0,
\* i.e. no fixup, or block_nums == nsm".
ScratchOnlyIfNeeded ==
    IF FixupNeeded(product) THEN Grid(product) = product.sms
    ELSE \A b \in DOMAIN scratch : scratch[b] = {}
=============================================================================
