------------------------------ MODULE Tromino ------------------------------
(***************************************************************************)
(* tromino.c: a board of 2^k by 2^k cells with a hole is covered with      *)
(* L-shaped tiles of three cells.                                          *)
(***************************************************************************)
EXTENDS Integers, FiniteSets

CONSTANT MaxK \* bound: the largest k

ASSUME MaxKAssumption == MaxK \in Nat

hole == -5

VARIABLES trominoPc, \* start, done, exit or overflow
          tiles      \* the number of the tile on each cell

trominoVars == <<trominoPc, tiles>>

TrominoInit == /\ trominoPc = "start"
               /\ tiles = <<>>

\* pow(2, k)
Side[k \in Nat] == IF k = 0 THEN 1 ELSE 2 * Side[k - 1]

Places == Int \X Int

\* The part of a board that begins at start.
Part(start, size) == (start[1]..(start[1] + size - 1)) \X (start[2]..(start[2] + size - 1))
Board(size) == Part(<<0, 0>>, size)

\* tiles and insert_count of a board: the number of the last call is the number of its tile.
Tilings(cells) == [tiles : [cells -> Int], insert_count : Nat]

Tile(board, start, at) ==
    [board EXCEPT !.tiles = [c \in DOMAIN @ |-> IF c \in Part(start, 2) /\ c # at THEN board.insert_count ELSE @[c]]]

\* One quarter.  Without the hole, it gets one at the middle, under a tile of this call.
Quarter(cover, count, start, half, at, board, down, right) ==
    LET corner == <<start[1] + down * half, start[2] + right * half>>
        inner == <<start[1] + half - 1 + down, start[2] + half - 1 + right>>
    IN  IF at \in Part(corner, half) THEN cover[board, corner, at]
        ELSE cover[[board EXCEPT !.tiles[inner] = count], corner, inner]

\* The four quarters, one after the other.
Quarters(cover, count, start, half, at, board) ==
    LET Next(b, down, right) == Quarter(cover, count, start, half, at, b, down, right)
    IN  Next(Next(Next(Next(board, 0, 0), 0, 1), 1, 0), 1, 1)

\* Of a part that is halved h times until its size is 2: what a call makes of the
\* board, where the part begins and where its hole is.
do_tromino(cells) ==
    LET cover[h \in Nat] ==
          [call \in Tilings(cells) \X Places \X Places |->
             LET board == [call[1] EXCEPT !.insert_count = @ + 1]
             IN  IF h = 0 THEN Tile(board, call[2], call[3])
                 ELSE Quarters(cover[h - 1], board.insert_count, call[2], Side[h], call[3], board)]
    IN  cover

create_tromino(size, at) ==
    [tiles |-> [c \in Board(size) |-> IF c = at THEN hole ELSE 0], insert_count |-> 0]

trominoTile(k, at) ==
    do_tromino(Board(Side[k]))[k - 1][create_tromino(Side[k], at), <<0, 0>>, at].tiles

\* main.  A board of a single cell is halved for ever, until the stack is used up.
MainTromino(k, at) ==
    /\ trominoPc = "start"
    /\ IF at \notin Board(Side[k])
       THEN trominoPc' = "exit" /\ UNCHANGED tiles
       ELSE IF k = 0
       THEN trominoPc' = "overflow" /\ UNCHANGED tiles
       ELSE trominoPc' = "done" /\ tiles' = trominoTile(k, at)

TrominoNext == trominoPc = "start" /\ \E k \in 0..MaxK, x, y \in 0..Side[MaxK] : MainTromino(k, <<x, y>>)

TrominoSpec == TrominoInit /\ [][TrominoNext]_trominoVars

----------------------------------------------------------------------------
Cells(n) == {c \in DOMAIN tiles : tiles[c] = n}

\* Every cell but the hole is covered, and each tile is an L: three of the four
\* cells of a square of two by two.
TilesAreTrominoes ==
    trominoPc = "done" =>
        /\ Cardinality(Cells(hole)) = 1
        /\ \A c \in DOMAIN tiles :
             tiles[c] # hole =>
                /\ tiles[c] > 0
                /\ Cardinality(Cells(tiles[c])) = 3
                /\ \E corner \in DOMAIN tiles : \A d \in Cells(tiles[c]) :
                       d[1] - corner[1] \in {0, 1} /\ d[2] - corner[2] \in {0, 1}
=============================================================================
