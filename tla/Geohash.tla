------------------------------ MODULE Geohash ------------------------------
(***************************************************************************)
(* Geohash cells and their neighbours (core/geo.py), against the grid that *)
(* the cells of one length form.  A geohash is a sequence of digits; digit *)
(* i is the character _BASE32[i].  Nothing here is stateful: the variables *)
(* hold a cell and its place on the grid, and _adjacent walks the cell     *)
(* over it.                                                                *)
(***************************************************************************)
EXTENDS Integers, Sequences

CONSTANT MaxLength

ASSUME GeohashAssumption == MaxLength \in Nat \ {0}

VARIABLES cell, row, col    \* rows count from the south pole, columns eastwards

Digit == 0 .. 31
Cell == Seq(Digit) \ {<<>>}
Direction == {"n", "s", "e", "w"}

\* The four strings of _NEIGHBOR and the four of _BORDER; each serves two
\* directions, which change places between odd and even lengths.
Up    == <<21, 0, 23, 2, 1, 4, 3, 6, 29, 8, 31, 10, 9, 12, 11, 14,
           5, 16, 7, 18, 17, 20, 19, 22, 13, 24, 15, 26, 25, 28, 27, 30>>
Right == <<10, 11, 0, 1, 14, 15, 4, 5, 2, 3, 8, 9, 6, 7, 12, 13,
           26, 27, 16, 17, 30, 31, 20, 21, 18, 19, 24, 25, 22, 23, 28, 29>>
Down  == <<1, 4, 3, 6, 5, 16, 7, 18, 9, 12, 11, 14, 13, 24, 15, 26,
           17, 20, 19, 22, 21, 0, 23, 2, 25, 28, 27, 30, 29, 8, 31, 10>>
Left  == <<2, 3, 8, 9, 6, 7, 12, 13, 10, 11, 0, 1, 14, 15, 4, 5,
           18, 19, 24, 25, 22, 23, 28, 29, 26, 27, 16, 17, 30, 31, 20, 21>>

Neighbor(direction, type) ==
    LET table == [n |-> <<Up, Right>>, s |-> <<Down, Left>>,
                  e |-> <<Right, Up>>, w |-> <<Left, Down>>]
    IN  table[direction][type + 1]

\* Mutant of Border: the lengths confused.
BorderOfOther(direction, type) ==
    LET table == [n |-> <<{10, 11, 14, 15, 26, 27, 30, 31}, {21, 23, 29, 31}>>,
                  s |-> <<{0, 1, 4, 5, 16, 17, 20, 21}, {0, 2, 8, 10}>>,
                  e |-> <<{21, 23, 29, 31}, {10, 11, 14, 15, 26, 27, 30, 31}>>,
                  w |-> <<{0, 2, 8, 10}, {0, 1, 4, 5, 16, 17, 20, 21}>>]
    IN  table[direction][type + 1]

Border(direction, type) ==
    LET table == [n |-> <<{21, 23, 29, 31}, {10, 11, 14, 15, 26, 27, 30, 31}>>,
                  s |-> <<{0, 2, 8, 10}, {0, 1, 4, 5, 16, 17, 20, 21}>>,
                  e |-> <<{10, 11, 14, 15, 26, 27, 30, 31}, {21, 23, 29, 31}>>,
                  w |-> <<{0, 1, 4, 5, 16, 17, 20, 21}, {0, 2, 8, 10}>>]
    IN  table[direction][type + 1]

\* str.index: where a digit is in a table.
Place(table, digit) == (CHOOSE i \in 1 .. 32 : table[i] = digit) - 1

\* _adjacent: the last digit is replaced; at the border of the parent cell, the
\* parent's neighbour becomes the parent.
adjacent[geohash \in Cell] ==
    [direction \in Direction |->
        LET last   == geohash[Len(geohash)]
            parent == SubSeq(geohash, 1, Len(geohash) - 1)
            type   == Len(geohash) % 2
            above  == IF last \in Border(direction, type) /\ parent # <<>>
                      THEN adjacent[parent][direction] ELSE parent
        IN  Append(above, Place(Neighbor(direction, type), last))]

\* Mutant of Neighbors: each diagonal found from the wrong side.
NeighborsTwisted(geohash) ==
    LET n == adjacent[geohash]["n"]
        s == adjacent[geohash]["s"]
        e == adjacent[geohash]["e"]
        w == adjacent[geohash]["w"]
    IN  <<n, s, e, w, adjacent[n]["w"], adjacent[n]["e"], adjacent[s]["w"], adjacent[s]["e"]>>

\* geohash_neighbors
Neighbors(geohash) ==
    LET n == adjacent[geohash]["n"]
        s == adjacent[geohash]["s"]
        e == adjacent[geohash]["e"]
        w == adjacent[geohash]["w"]
    IN  <<n, s, e, w, adjacent[n]["e"], adjacent[n]["w"], adjacent[s]["e"], adjacent[s]["w"]>>

-----------------------------------------------------------------------------
(* The grid: pygeohash.encode as the interleaving of row and column bits. *)

\* Five bits: three of one axis around two of the other.
Interleave(major, minor) ==
    16 * (major \div 4) + 8 * (minor \div 2) + 4 * ((major \div 2) % 2)
      + 2 * (minor % 2) + (major % 2)

Coordinates == Nat \X Nat   \* a row and a column

\* A digit in an odd place holds three bits of the longitude and two of the
\* latitude, one in an even place the reverse.
encode[length \in Nat] ==
    [at \in Coordinates |->
        LET r == at[1]
            c == at[2]
        IN  IF length = 0 THEN <<>>
            ELSE IF length % 2 = 1
                 THEN Append(encode[length - 1][<<r \div 4, c \div 8>>], Interleave(c % 8, r % 4))
                 ELSE Append(encode[length - 1][<<r \div 8, c \div 4>>], Interleave(r % 8, c % 4))]

\* Each digit divides a cell into as many rows and columns as its bits tell apart.
rows[length \in Nat] ==
    IF length = 0 THEN 1 ELSE rows[length - 1] * (IF length % 2 = 1 THEN 4 ELSE 8)

cols[length \in Nat] ==
    IF length = 0 THEN 1 ELSE cols[length - 1] * (IF length % 2 = 1 THEN 8 ELSE 4)

\* The cell that lies north rows and east columns away; the grid is closed at
\* the antimeridian, and _adjacent closes it at the poles too.
CellAt(north, east) ==
    LET n == Len(cell) IN
    encode[n][<<(row + north) % rows[n], (col + east) % cols[n]>>]

-----------------------------------------------------------------------------
Init ==
    /\ \E n \in 1 .. MaxLength : cell = encode[n][<<0, 0>>]
    /\ row = 0
    /\ col = 0

Walk(direction, north, east) ==
    /\ cell' = adjacent[cell][direction]
    /\ row' = (row + north) % rows[Len(cell)]
    /\ col' = (col + east) % cols[Len(cell)]

Next ==
    \/ Walk("n", 1, 0)
    \/ Walk("s", -1, 0)
    \/ Walk("e", 0, 1)
    \/ Walk("w", 0, -1)

Spec == Init /\ [][Next]_<<cell, row, col>>

-----------------------------------------------------------------------------
\* Wherever _adjacent leads, step by step, it is the cell of that place: no
\* entry of its tables, and no crossing of a parent's border, goes astray.
WalkFollowsGrid == cell = CellAt(0, 0)

\* geohash_neighbors returns the eight cells around a cell, across the borders
\* of every parent and across the antimeridian.
NeighborsSurround ==
    Neighbors(cell) = <<CellAt(1, 0), CellAt(-1, 0), CellAt(0, 1), CellAt(0, -1),
                        CellAt(1, 1), CellAt(1, -1), CellAt(-1, 1), CellAt(-1, -1)>>
=============================================================================
