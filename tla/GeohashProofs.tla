--------------------------- MODULE GeohashProofs ---------------------------
(***************************************************************************)
(* The tables of core/geo.py are right for cells of every length: the walk *)
(* of _adjacent stays on the grid, and geohash_neighbors surrounds a cell. *)
(*                                                                         *)
(* encode, rows, cols and adjacent are recursive functions.  What they     *)
(* compute is proved by induction on the length, and the induction from    *)
(* the natural numbers being well-founded: the least length for which a    *)
(* statement fails is neither zero nor the next after one for which it     *)
(* holds.                                                                  *)
(***************************************************************************)
EXTENDS Geohash, WellFoundedInduction, TLAPS

-----------------------------------------------------------------------------
(* Induction, and functions defined by it. *)

LEMMA LeastNatural ==
  ASSUME NEW T \in SUBSET Nat, T # {}
  PROVE  \E m \in T : \A n \in T : m <= n
<1>1. PICK m \in T : \A n \in T : <<n, m>> \notin OpToRel(<, Nat)
  BY NatLessThanWellFounded, WFMin
<1>2. ASSUME NEW n \in T PROVE m <= n
  <2>1. m \in Nat /\ n \in Nat /\ ~(n < m)
    BY <1>1 DEF OpToRel
  <2> QED  BY <2>1
<1> QED  BY <1>2

LEMMA Induction ==
  ASSUME NEW T, 0 \in T, \A n \in Nat : n \in T => n + 1 \in T
  PROVE  Nat \subseteq T
<1> DEFINE U == Nat \ T
<1>1. SUFFICES ASSUME U # {} PROVE FALSE
  OBVIOUS
<1>2. PICK m \in U : \A n \in U : m <= n
  BY <1>1, LeastNatural
<1>3. m # 0 /\ m - 1 \in Nat /\ m - 1 \notin U
  BY <1>2
<1> QED  BY <1>2, <1>3

\* g is a function up to n that starts with a and goes on by step.
Begun(g, n, S, a, step) ==
    /\ g \in [0 .. n -> S]
    /\ g[0] = a
    /\ \A i \in 0 .. n - 1 : g[i + 1] = step[i][g[i]]

LEMMA BegunOnce ==
  ASSUME NEW S, NEW a \in S, NEW step \in [Nat -> [S -> S]],
         NEW m \in Nat, NEW n \in Nat, m <= n,
         NEW g, Begun(g, m, S, a, step), NEW h, Begun(h, n, S, a, step)
  PROVE  \A i \in 0 .. m : g[i] = h[i]
<1> DEFINE Same == {i \in Nat : i <= m => g[i] = h[i]}
<1>1. 0 \in Same
  BY DEF Begun
<1>2. ASSUME NEW i \in Nat, i \in Same PROVE i + 1 \in Same
  <2>1. CASE i + 1 <= m
    <3>1. i \in 0 .. m - 1 /\ i \in 0 .. n - 1 /\ g[i] = h[i]
      BY <1>2, <2>1
    <3> QED  BY <3>1 DEF Begun
  <2>2. CASE ~(i + 1 <= m)
    BY <2>2
  <2> QED  BY <2>1, <2>2
<1>3. Nat \subseteq Same
  <2> HIDE DEF Same
  <2> QED  BY <1>1, <1>2, Induction
<1> QED  BY <1>3

LEMMA BegunGoesOn ==
  ASSUME NEW S, NEW a \in S, NEW step \in [Nat -> [S -> S]],
         NEW n \in Nat, NEW g, Begun(g, n, S, a, step)
  PROVE  \E h : Begun(h, n + 1, S, a, step)
<1> DEFINE h == [i \in 0 .. n + 1 |-> IF i <= n THEN g[i] ELSE step[n][g[n]]]
<1>1. g \in [0 .. n -> S] /\ g[0] = a /\ n \in 0 .. n
  BY DEF Begun
<1>2. g[n] \in S /\ step[n][g[n]] \in S
  BY <1>1
<1>3. h \in [0 .. n + 1 -> S] /\ h[0] = a
  BY <1>1, <1>2
<1>4. ASSUME NEW i \in 0 .. n PROVE h[i + 1] = step[i][h[i]]
  <2>1. CASE i = n
    BY <2>1
  <2>2. CASE i # n
    <3>1. i \in 0 .. n - 1 /\ i + 1 \in 0 .. n
      BY <2>2
    <3> QED  BY <3>1 DEF Begun
  <2> QED  BY <2>1, <2>2
<1>5. \A i \in 0 .. (n + 1) - 1 : h[i + 1] = step[i][h[i]]
  <2>1. (n + 1) - 1 = n
    OBVIOUS
  <2> HIDE DEF h
  <2> QED  BY <1>4, <2>1
<1>6. Begun(h, n + 1, S, a, step)
  <2> HIDE DEF h
  <2> QED  BY <1>3, <1>5 DEF Begun
<1> QED  BY <1>6

\* f starts with a and goes on by step.
Iterates(f, S, a, step) ==
    /\ f \in [Nat -> S]
    /\ f[0] = a
    /\ \A n \in Nat : f[n + 1] = step[n][f[n]]

\* Definition by recursion on the natural numbers.
LEMMA Recursion ==
  ASSUME NEW S, NEW a \in S, NEW step \in [Nat -> [S -> S]]
  PROVE  \E f : Iterates(f, S, a, step)
<1> DEFINE Ends == {n \in Nat : \E g : Begun(g, n, S, a, step)}
           G(n) == CHOOSE g : Begun(g, n, S, a, step)
           f == [n \in Nat |-> G(n)[n]]
<1>1. Nat \subseteq Ends
  <2>1. 0 \in Ends
    <3>1. Begun([i \in 0 .. 0 |-> a], 0, S, a, step)
      BY DEF Begun
    <3> QED  BY <3>1
  <2>2. ASSUME NEW n \in Nat, n \in Ends PROVE n + 1 \in Ends
    BY <2>2, BegunGoesOn
  <2> HIDE DEF Ends
  <2> QED  BY <2>1, <2>2, Induction
<1>2. ASSUME NEW n \in Nat PROVE Begun(G(n), n, S, a, step)
  BY <1>1
<1> HIDE DEF G
<1>3. ASSUME NEW n \in Nat PROVE G(n) \in [0 .. n -> S] /\ n \in 0 .. n
  BY <1>2 DEF Begun
<1>4. f \in [Nat -> S]
  BY <1>3
<1>5. f[0] = a
  BY <1>2 DEF Begun
<1>6. ASSUME NEW n \in Nat PROVE f[n + 1] = step[n][f[n]]
  <2>1. n + 1 \in Nat /\ n <= n + 1 /\ n \in 0 .. n /\ n \in 0 .. (n + 1) - 1
    OBVIOUS
  <2>2. Begun(G(n), n, S, a, step) /\ Begun(G(n + 1), n + 1, S, a, step)
    BY <1>2, <2>1
  <2>3. G(n)[n] = G(n + 1)[n]
    BY <2>1, <2>2, BegunOnce
  <2>4. G(n + 1)[n + 1] = step[n][G(n + 1)[n]]
    BY <2>1, <2>2 DEF Begun
  <2> QED  BY <2>1, <2>3, <2>4
<1>7. Iterates(f, S, a, step)
  <2> HIDE DEF f
  <2> QED  BY <1>4, <1>5, <1>6 DEF Iterates
<1> QED  BY <1>7

-----------------------------------------------------------------------------
(* The tables. *)

\* The next and the previous of size places in a circle.
Later(k, size) == IF k + 1 = size THEN 0 ELSE k + 1
Earlier(k, size) == IF k = 0 THEN size - 1 ELSE k - 1

LEMMA UpDown == \A d \in Digit : /\ Up[d + 1] \in Digit /\ Down[d + 1] \in Digit
                                 /\ Up[Down[d + 1] + 1] = d /\ Down[Up[d + 1] + 1] = d
  BY DEF Digit, Up, Down

LEMMA RightLeft == \A d \in Digit : /\ Right[d + 1] \in Digit /\ Left[d + 1] \in Digit
                                    /\ Right[Left[d + 1] + 1] = d /\ Left[Right[d + 1] + 1] = d
  BY DEF Digit, Right, Left

\* A table undoes its opposite, so str.index finds a digit where that says.
LEMMA PlaceInOpposite ==
  ASSUME NEW table, NEW opposite,
         \A d \in Digit : /\ table[d + 1] \in Digit /\ opposite[d + 1] \in Digit
                          /\ table[opposite[d + 1] + 1] = d /\ opposite[table[d + 1] + 1] = d
  PROVE  \A d \in Digit : Place(table, d) = opposite[d + 1]
<1> TAKE d \in Digit
<1>0. opposite[d + 1] \in Digit /\ table[opposite[d + 1] + 1] = d
  OBVIOUS
<1>1. opposite[d + 1] + 1 \in 1 .. 32 /\ table[opposite[d + 1] + 1] = d
  BY <1>0 DEF Digit
<1>2. ASSUME NEW i \in 1 .. 32, table[i] = d PROVE i = opposite[d + 1] + 1
  <2>1. i - 1 \in Digit /\ (i - 1) + 1 = i
    BY DEF Digit
  <2>2. opposite[table[i] + 1] = i - 1
    BY <2>1
  <2> QED  BY <1>2, <2>1, <2>2
<1>3. (CHOOSE i \in 1 .. 32 : table[i] = d) = opposite[d + 1] + 1
  BY <1>1, <1>2
<1> QED  BY <1>1, <1>3 DEF Place, Digit

LEMMA Places == \A d \in Digit : /\ Place(Up, d) = Down[d + 1] /\ Place(Down, d) = Up[d + 1]
                                 /\ Place(Right, d) = Left[d + 1] /\ Place(Left, d) = Right[d + 1]
  BY UpDown, RightLeft, PlaceInOpposite

LEMMA Interleaved == \A k \in 0 .. 7, m \in 0 .. 3 : Interleave(k, m) \in Digit
  BY DEF Interleave, Digit

\* What one entry of a pair of strings does to the bits: the axis of three bits
\* goes up or down, or the axis of two; and the digits of the border are those
\* from which it goes round.
LEMMA MajorUp ==
  \A k \in 0 .. 7, m \in 0 .. 3 :
     /\ Down[Interleave(k, m) + 1] = Interleave(Later(k, 8), m)
     /\ Interleave(k, m) \in {21, 23, 29, 31} <=> k = 7
  BY DEF Interleave, Later, Down

LEMMA MajorDown ==
  \A k \in 0 .. 7, m \in 0 .. 3 :
     /\ Up[Interleave(k, m) + 1] = Interleave(Earlier(k, 8), m)
     /\ Interleave(k, m) \in {0, 2, 8, 10} <=> k = 0
  BY DEF Interleave, Earlier, Up

LEMMA MinorUp ==
  \A k \in 0 .. 7, m \in 0 .. 3 :
     /\ Left[Interleave(k, m) + 1] = Interleave(k, Later(m, 4))
     /\ Interleave(k, m) \in {10, 11, 14, 15, 26, 27, 30, 31} <=> m = 3
  BY DEF Interleave, Later, Left

LEMMA MinorDown ==
  \A k \in 0 .. 7, m \in 0 .. 3 :
     /\ Right[Interleave(k, m) + 1] = Interleave(k, Earlier(m, 4))
     /\ Interleave(k, m) \in {0, 1, 4, 5, 16, 17, 20, 21} <=> m = 0
  BY DEF Interleave, Earlier, Right

\* One step from a row and a column of a grid of so many rows and columns.
RowTo(direction, r, size) ==
    IF direction = "n" THEN Later(r, size) ELSE IF direction = "s" THEN Earlier(r, size) ELSE r

ColTo(direction, c, size) ==
    IF direction = "e" THEN Later(c, size) ELSE IF direction = "w" THEN Earlier(c, size) ELSE c

\* The step leaves the grid, and comes back at the other side.
GoesRound(direction, r, height, c, width) ==
    \/ direction = "n" /\ r + 1 = height
    \/ direction = "s" /\ r = 0
    \/ direction = "e" /\ c + 1 = width
    \/ direction = "w" /\ c = 0

\* The eight strings of _NEIGHBOR and of _BORDER, by direction and parity of the
\* length: the digit found is that of the cell one step on within the parent, and
\* the border is where the step leaves the parent.
LEMMA OddDigit ==
  ASSUME NEW direction \in Direction, NEW r \in 0 .. 3, NEW c \in 0 .. 7
  PROVE  /\ Place(Neighbor(direction, 1), Interleave(c, r))
              = Interleave(ColTo(direction, c, 8), RowTo(direction, r, 4))
         /\ Interleave(c, r) \in Border(direction, 1) <=> GoesRound(direction, r, 4, c, 8)
<1>1. CASE direction = "n"
  BY <1>1, Interleaved, Places, MinorUp DEF Neighbor, Border, ColTo, RowTo, GoesRound
<1>2. CASE direction = "s"
  BY <1>2, Interleaved, Places, MinorDown DEF Neighbor, Border, ColTo, RowTo, GoesRound
<1>3. CASE direction = "e"
  BY <1>3, Interleaved, Places, MajorUp DEF Neighbor, Border, ColTo, RowTo, GoesRound
<1>4. CASE direction = "w"
  BY <1>4, Interleaved, Places, MajorDown DEF Neighbor, Border, ColTo, RowTo, GoesRound
<1> QED  BY <1>1, <1>2, <1>3, <1>4 DEF Direction

LEMMA EvenDigit ==
  ASSUME NEW direction \in Direction, NEW r \in 0 .. 7, NEW c \in 0 .. 3
  PROVE  /\ Place(Neighbor(direction, 0), Interleave(r, c))
              = Interleave(RowTo(direction, r, 8), ColTo(direction, c, 4))
         /\ Interleave(r, c) \in Border(direction, 0) <=> GoesRound(direction, r, 8, c, 4)
<1>1. CASE direction = "n"
  BY <1>1, Interleaved, Places, MajorUp DEF Neighbor, Border, ColTo, RowTo, GoesRound
<1>2. CASE direction = "s"
  BY <1>2, Interleaved, Places, MajorDown DEF Neighbor, Border, ColTo, RowTo, GoesRound
<1>3. CASE direction = "e"
  BY <1>3, Interleaved, Places, MinorUp DEF Neighbor, Border, ColTo, RowTo, GoesRound
<1>4. CASE direction = "w"
  BY <1>4, Interleaved, Places, MinorDown DEF Neighbor, Border, ColTo, RowTo, GoesRound
<1> QED  BY <1>1, <1>2, <1>3, <1>4 DEF Direction

-----------------------------------------------------------------------------
(* Steps on the grid and within a cell of it. *)

LEMMA LaterParts ==
  ASSUME NEW base \in {4, 8}, NEW size \in Nat \ {0}, NEW r \in 0 .. size * base - 1
  PROVE  /\ Later(r, size * base) \in 0 .. size * base - 1
         /\ Later(r, size * base) % base = Later(r % base, base)
         /\ Later(r, size * base) \div base
              = IF (r % base) + 1 = base THEN Later(r \div base, size) ELSE r \div base
  BY DEF Later

LEMMA EarlierParts ==
  ASSUME NEW base \in {4, 8}, NEW size \in Nat \ {0}, NEW r \in 0 .. size * base - 1
  PROVE  /\ Earlier(r, size * base) \in 0 .. size * base - 1
         /\ Earlier(r, size * base) % base = Earlier(r % base, base)
         /\ Earlier(r, size * base) \div base
              = IF r % base = 0 THEN Earlier(r \div base, size) ELSE r \div base
  BY DEF Earlier

\* Of the places of a grid and of the places within one of its cells.
LEMMA Parts ==
  ASSUME NEW base \in {4, 8}, NEW size \in Nat \ {0}, NEW r \in 0 .. size * base - 1
  PROVE  r % base \in 0 .. base - 1 /\ r \div base \in 0 .. size - 1
  OBVIOUS

\* A step on a grid of cells that are grids of a rows and b columns themselves,
\* from r, c to R, C: it is the step within the cell, and where that goes round,
\* the step to the next cell as well.
IsStep(direction, a, b, height, width, r, c, R, C) ==
    LET round == GoesRound(direction, r % a, a, c % b, b)
    IN  /\ R \in 0 .. height * a - 1 /\ C \in 0 .. width * b - 1
        /\ R % a = RowTo(direction, r % a, a)
        /\ C % b = ColTo(direction, c % b, b)
        /\ R \div a = IF round THEN RowTo(direction, r \div a, height) ELSE r \div a
        /\ C \div b = IF round THEN ColTo(direction, c \div b, width) ELSE c \div b

LEMMA StepParts ==
  ASSUME NEW direction \in Direction, NEW a \in {4, 8}, NEW b \in {4, 8},
         NEW height \in Nat \ {0}, NEW width \in Nat \ {0},
         NEW r \in 0 .. height * a - 1, NEW c \in 0 .. width * b - 1
  PROVE  IsStep(direction, a, b, height, width, r, c,
                RowTo(direction, r, height * a), ColTo(direction, c, width * b))
<1>1. CASE direction = "n"
  BY <1>1, LaterParts DEF IsStep, RowTo, ColTo, GoesRound
<1>2. CASE direction = "s"
  BY <1>2, EarlierParts DEF IsStep, RowTo, ColTo, GoesRound
<1>3. CASE direction = "e"
  BY <1>3, LaterParts DEF IsStep, RowTo, ColTo, GoesRound
<1>4. CASE direction = "w"
  BY <1>4, EarlierParts DEF IsStep, RowTo, ColTo, GoesRound
<1> QED  BY <1>1, <1>2, <1>3, <1>4 DEF Direction

-----------------------------------------------------------------------------
(* The functions of the model are those their recursions describe. *)

\* The rows and the columns of the grid, by the factors of odd and even lengths.
Products(f, odd, even) ==
    f = [n \in Nat |-> IF n = 0 THEN 1 ELSE f[n - 1] * (IF n % 2 = 1 THEN odd ELSE even)]

LEMMA ProductsExist ==
  ASSUME NEW odd \in Nat \ {0}, NEW even \in Nat \ {0}
  PROVE  \E f : Products(f, odd, even)
<1> DEFINE Factor(n) == IF n % 2 = 1 THEN odd ELSE even
           step == [n \in Nat |-> [x \in Nat |-> x * Factor(n + 1)]]
<1>1. \A n \in Nat : Factor(n) \in Nat
  OBVIOUS
<1> HIDE DEF Factor
<1>2. step \in [Nat -> [Nat -> Nat]]
  BY <1>1
<1>3. PICK f : Iterates(f, Nat, 1, step)
  <2>1. 1 \in Nat
    OBVIOUS
  <2> HIDE DEF step
  <2> QED  BY <1>2, <2>1, Recursion, Zenon
<1>4. \A n \in Nat : n # 0 => f[n] = f[n - 1] * Factor(n)
  <2> TAKE n \in Nat
  <2>1. n # 0 => n - 1 \in Nat /\ (n - 1) + 1 = n
    OBVIOUS
  <2>2. \A k \in Nat : f[k + 1] = f[k] * Factor(k + 1)
    BY <1>3 DEF Iterates
  <2> QED  BY <2>1, <2>2
<1>5. f = [n \in Nat |-> IF n = 0 THEN 1 ELSE f[n - 1] * Factor(n)]
  BY <1>3, <1>4 DEF Iterates
<1> QED  BY <1>5 DEF Factor, Products

LEMMA ProductsGrow ==
  ASSUME NEW odd \in Nat \ {0}, NEW even \in Nat \ {0}, NEW f, Products(f, odd, even)
  PROVE  /\ f[0] = 1
         /\ \A n \in Nat : /\ f[n] \in Nat \ {0}
                           /\ f[n + 1] = f[n] * (IF (n + 1) % 2 = 1 THEN odd ELSE even)
<1> DEFINE Factor(n) == IF n % 2 = 1 THEN odd ELSE even
           T == {n \in Nat : f[n] \in Nat \ {0}}
<1>1. f[0] = 1 /\ \A n \in Nat : f[n + 1] = f[n] * Factor(n + 1)
  <2>1. \A n \in Nat : n + 1 \in Nat /\ n + 1 # 0 /\ (n + 1) - 1 = n
    OBVIOUS
  <2>2. f = [n \in Nat |-> IF n = 0 THEN 1 ELSE f[n - 1] * Factor(n)]
    BY DEF Products
  <2> HIDE DEF Factor
  <2> QED  BY <2>1, <2>2
<1>2. Nat \subseteq T
  <2>1. 0 \in T
    BY <1>1
  <2>2. ASSUME NEW n \in Nat, n \in T PROVE n + 1 \in T
    <3>1. Factor(n + 1) \in Nat \ {0} /\ f[n] \in Nat \ {0} /\ f[n + 1] = f[n] * Factor(n + 1)
      BY <1>1, <2>2
    <3> HIDE DEF Factor
    <3> QED  BY <3>1
  <2> HIDE DEF T
  <2> QED  BY <2>1, <2>2, Induction
<1> QED  BY <1>1, <1>2

LEMMA RowsProducts == Products(rows, 4, 8)
<1>1. PICK f : Products(f, 4, 8)
  BY ProductsExist
<1>2. f = [n \in Nat |-> IF n = 0 THEN 1 ELSE f[n - 1] * (IF n % 2 = 1 THEN 4 ELSE 8)]
  BY <1>1 DEF Products
<1>3. rows = [n \in Nat |-> IF n = 0 THEN 1 ELSE rows[n - 1] * (IF n % 2 = 1 THEN 4 ELSE 8)]
  BY <1>2 DEF rows
<1> QED  BY <1>3 DEF Products

LEMMA ColsProducts == Products(cols, 8, 4)
<1>1. PICK f : Products(f, 8, 4)
  BY ProductsExist
<1>2. f = [n \in Nat |-> IF n = 0 THEN 1 ELSE f[n - 1] * (IF n % 2 = 1 THEN 8 ELSE 4)]
  BY <1>1 DEF Products
<1>3. cols = [n \in Nat |-> IF n = 0 THEN 1 ELSE cols[n - 1] * (IF n % 2 = 1 THEN 8 ELSE 4)]
  BY <1>2 DEF cols
<1> QED  BY <1>3 DEF Products

LEMMA GridSize ==
  /\ rows[0] = 1 /\ cols[0] = 1
  /\ \A n \in Nat : /\ rows[n] \in Nat \ {0}
                    /\ cols[n] \in Nat \ {0}
                    /\ rows[n + 1] = rows[n] * (IF (n + 1) % 2 = 1 THEN 4 ELSE 8)
                    /\ cols[n + 1] = cols[n] * (IF (n + 1) % 2 = 1 THEN 8 ELSE 4)
  BY RowsProducts, ColsProducts, ProductsGrow

-----------------------------------------------------------------------------
(* The encoding. *)

\* encode of one digit more, from f, the encode of one digit less.
Longer(f, n, at) ==
    IF n % 2 = 1 THEN Append(f[<<at[1] \div 4, at[2] \div 8>>], Interleave(at[2] % 8, at[1] % 4))
                 ELSE Append(f[<<at[1] \div 8, at[2] \div 4>>], Interleave(at[1] % 8, at[2] % 4))

LEMMA Pairs == /\ \A r, c \in Nat : <<r, c>> \in Coordinates
               /\ \A at \in Coordinates : at[1] \in Nat /\ at[2] \in Nat /\ at = <<at[1], at[2]>>
  BY DEF Coordinates

LEMMA Quotients ==
  \A x \in Nat : x \div 4 \in Nat /\ x \div 8 \in Nat /\ x % 4 \in 0 .. 3 /\ x % 8 \in 0 .. 7
  OBVIOUS

LEMMA LongerForm ==
  ASSUME NEW f, NEW n \in Nat, NEW at \in Coordinates
  PROVE  \E x \in Coordinates, d \in Digit : Longer(f, n, at) = Append(f[x], d)
<1>1. at[1] \in Nat /\ at[2] \in Nat
  BY Pairs
<1>2. /\ at[1] \div 4 \in Nat /\ at[1] \div 8 \in Nat /\ at[1] % 4 \in 0 .. 3 /\ at[1] % 8 \in 0 .. 7
      /\ at[2] \div 4 \in Nat /\ at[2] \div 8 \in Nat /\ at[2] % 4 \in 0 .. 3 /\ at[2] % 8 \in 0 .. 7
  BY <1>1, Quotients
<1>3. CASE n % 2 = 1
  <2>1. <<at[1] \div 4, at[2] \div 8>> \in Coordinates /\ Interleave(at[2] % 8, at[1] % 4) \in Digit
    BY <1>2, Pairs, Interleaved
  <2> QED  BY <1>3, <2>1 DEF Longer
<1>4. CASE n % 2 # 1
  <2>1. <<at[1] \div 8, at[2] \div 4>> \in Coordinates /\ Interleave(at[1] % 8, at[2] % 4) \in Digit
    BY <1>2, Pairs, Interleaved
  <2> QED  BY <1>4, <2>1 DEF Longer
<1> QED  BY <1>3, <1>4

LEMMA LongerDigits ==
  ASSUME NEW f \in [Coordinates -> Seq(Digit)], NEW n \in Nat, NEW at \in Coordinates
  PROVE  Longer(f, n, at) \in Seq(Digit)
<1>1. PICK x \in Coordinates, d \in Digit : Longer(f, n, at) = Append(f[x], d)
  BY LongerForm, Zenon
<1>2. f[x] \in Seq(Digit)
  OBVIOUS
<1>3. Append(f[x], d) \in Seq(Digit)
  BY <1>2
<1> QED  BY <1>1, <1>3

LEMMA EncodeRecursion ==
  encode = [n \in Nat |-> [at \in Coordinates |->
              IF n = 0 THEN <<>> ELSE Longer(encode[n - 1], n, at)]]
<1> DEFINE S == [Coordinates -> Seq(Digit)]
           a == [at \in Coordinates |-> <<>>]
           step == [n \in Nat |-> [g \in S |-> [at \in Coordinates |-> Longer(g, n + 1, at)]]]
<1>1. a \in S
  OBVIOUS
<1>2. step \in [Nat -> [S -> S]]
  BY LongerDigits
<1>3. PICK f : Iterates(f, S, a, step)
  <2> HIDE DEF S, a, step
  <2> QED  BY <1>1, <1>2, Recursion
<1>4. \A n \in Nat : n # 0 => f[n] = [at \in Coordinates |-> Longer(f[n - 1], n, at)]
  <2> TAKE n \in Nat
  <2>1. n # 0 => n - 1 \in Nat /\ (n - 1) + 1 = n
    OBVIOUS
  <2>2. ASSUME NEW k \in Nat PROVE f[k + 1] = [at \in Coordinates |-> Longer(f[k], k + 1, at)]
    <3>1. f[k] \in S /\ f[k + 1] = step[k][f[k]]
      <4> HIDE DEF S, a, step
      <4> QED  BY <1>3 DEF Iterates
    <3> HIDE DEF S
    <3> QED  BY <3>1
  <2> QED  BY <2>1, <2>2
<1>5. f = [n \in Nat |-> [at \in Coordinates |-> IF n = 0 THEN <<>> ELSE Longer(f[n - 1], n, at)]]
  <2>1. f \in [Nat -> S] /\ f[0] = a
    <3> HIDE DEF S, a, step
    <3> QED  BY <1>3 DEF Iterates
  <2>2. \A n \in Nat : f[n] = [at \in Coordinates |-> IF n = 0 THEN <<>> ELSE Longer(f[n - 1], n, at)]
    BY <1>4, <2>1
  <2> HIDE DEF S
  <2> QED  BY <2>1, <2>2
<1> QED  BY <1>5 DEF encode, Longer

LEMMA Encoded ==
  ASSUME NEW n \in Nat, NEW at \in Coordinates
  PROVE  /\ encode[n][at] \in Seq(Digit) /\ Len(encode[n][at]) = n
         /\ encode[0][at] = <<>>
         /\ encode[n + 1][at] = Longer(encode[n], n + 1, at)
<1> DEFINE Typed(k) == /\ encode[k] \in [Coordinates -> Seq(Digit)]
                       /\ \A x \in Coordinates : Len(encode[k][x]) = k
           T == {k \in Nat : Typed(k)}
<1>1. \A x \in Coordinates : encode[0][x] = <<>>
  BY EncodeRecursion
<1>2. \A k \in Nat : encode[k + 1] = [x \in Coordinates |-> Longer(encode[k], k + 1, x)]
  <2>1. \A k \in Nat : k + 1 \in Nat /\ k + 1 # 0 /\ (k + 1) - 1 = k
    OBVIOUS
  <2> QED  BY <2>1, EncodeRecursion
<1>3. Nat \subseteq T
  <2>1. 0 \in T
    BY <1>1, EncodeRecursion
  <2>2. ASSUME NEW k \in Nat, k \in T PROVE k + 1 \in T
    <3>1. /\ k + 1 \in Nat
          /\ encode[k] \in [Coordinates -> Seq(Digit)]
          /\ encode[k + 1] = [x \in Coordinates |-> Longer(encode[k], k + 1, x)]
      BY <1>2, <2>2
    <3>2. ASSUME NEW x \in Coordinates
          PROVE  Longer(encode[k], k + 1, x) \in Seq(Digit) /\ Len(Longer(encode[k], k + 1, x)) = k + 1
      <4>1. Longer(encode[k], k + 1, x) \in Seq(Digit)
        BY <3>1, LongerDigits, Zenon
      <4>2. PICK y \in Coordinates, d \in Digit : Longer(encode[k], k + 1, x) = Append(encode[k][y], d)
        BY <3>1, LongerForm, Zenon
      <4>3. encode[k][y] \in Seq(Digit) /\ Len(encode[k][y]) = k
        BY <2>2
      <4>4. Len(Append(encode[k][y], d)) = k + 1
        BY <4>3
      <4> QED  BY <4>1, <4>2, <4>4
    <3>3. Typed(k + 1)
      BY <3>1, <3>2
    <3> QED  BY <3>1, <3>3
  <2> HIDE DEF T
  <2> QED  BY <2>1, <2>2, Induction
<1> QED  BY <1>1, <1>2, <1>3

LEMMA EncodedOdd ==
  ASSUME NEW n \in Nat, (n + 1) % 2 = 1, NEW r \in Nat, NEW c \in Nat
  PROVE  encode[n + 1][<<r, c>>]
           = Append(encode[n][<<r \div 4, c \div 8>>], Interleave(c % 8, r % 4))
<1>1. encode[n + 1][<<r, c>>] = Longer(encode[n], n + 1, <<r, c>>)
  BY Encoded, Pairs
<1>2. <<r, c>>[1] = r /\ <<r, c>>[2] = c
  OBVIOUS
<1> QED  BY <1>1, <1>2 DEF Longer

LEMMA EncodedEven ==
  ASSUME NEW n \in Nat, (n + 1) % 2 = 0, NEW r \in Nat, NEW c \in Nat
  PROVE  encode[n + 1][<<r, c>>]
           = Append(encode[n][<<r \div 8, c \div 4>>], Interleave(r % 8, c % 4))
<1>1. encode[n + 1][<<r, c>>] = Longer(encode[n], n + 1, <<r, c>>)
  BY Encoded, Pairs
<1>2. <<r, c>>[1] = r /\ <<r, c>>[2] = c
  OBVIOUS
<1> QED  BY <1>1, <1>2 DEF Longer

-----------------------------------------------------------------------------
(* The neighbour of a cell. *)

Last(geohash) == geohash[Len(geohash)]
Parent(geohash) == SubSeq(geohash, 1, Len(geohash) - 1)

\* _adjacent, from f, the _adjacent of the parent.
Beside(f, geohash, direction) ==
    Append(IF /\ Last(geohash) \in Border(direction, Len(geohash) % 2)
              /\ Parent(geohash) # <<>>
           THEN f[Parent(geohash)][direction] ELSE Parent(geohash),
           Place(Neighbor(direction, Len(geohash) % 2), Last(geohash)))

LEMMA CellParts ==
  ASSUME NEW geohash \in Cell
  PROVE  /\ Last(geohash) \in Digit
         /\ Len(geohash) \in Nat \ {0}
         /\ Parent(geohash) \in Seq(Digit)
         /\ Parent(geohash) # <<>> =>
               Parent(geohash) \in Cell /\ Len(Parent(geohash)) = Len(geohash) - 1
  BY DEF Cell, Last, Parent

LEMMA PlacesAreDigits ==
  \A direction \in Direction, type \in {0, 1}, d \in Digit :
     Place(Neighbor(direction, type), d) \in Digit
<1>1. \A d \in Digit : /\ Place(Up, d) \in Digit /\ Place(Down, d) \in Digit
                       /\ Place(Right, d) \in Digit /\ Place(Left, d) \in Digit
  BY Places, UpDown, RightLeft
<1>2. ASSUME NEW direction \in Direction, NEW type \in {0, 1}
      PROVE  Neighbor(direction, type) \in {Up, Down, Right, Left}
  BY DEF Neighbor, Direction
<1> QED  BY <1>1, <1>2

LEMMA BesideIsCell ==
  ASSUME NEW f \in [Cell -> [Direction -> Cell]], NEW geohash \in Cell, NEW direction \in Direction
  PROVE  Beside(f, geohash, direction) \in Cell
<1> DEFINE above == IF /\ Last(geohash) \in Border(direction, Len(geohash) % 2)
                       /\ Parent(geohash) # <<>>
                    THEN f[Parent(geohash)][direction] ELSE Parent(geohash)
           digit == Place(Neighbor(direction, Len(geohash) % 2), Last(geohash))
<1>1. above \in Seq(Digit)
  <2>1. Parent(geohash) \in Cell => f[Parent(geohash)][direction] \in Cell
    OBVIOUS
  <2> QED  BY <2>1, CellParts DEF Cell
<1>2. Len(geohash) % 2 \in {0, 1}
  <2>1. \A n \in Nat : n % 2 \in {0, 1}
    OBVIOUS
  <2> QED  BY <2>1, CellParts
<1>3. digit \in Digit
  BY <1>2, CellParts, PlacesAreDigits
<1> HIDE DEF above, digit
<1>4. Append(above, digit) \in Cell
  <2>1. Append(above, digit) \in Seq(Digit) /\ Len(Append(above, digit)) = Len(above) + 1
    BY <1>1, <1>3
  <2>2. Len(above) \in Nat /\ Len(<<>>) = 0
    BY <1>1
  <2>3. Append(above, digit) # <<>>
    <3> SUFFICES ASSUME Append(above, digit) = <<>> PROVE FALSE
      OBVIOUS
    <3>1. Len(Append(above, digit)) = 0
      BY <2>2
    <3> QED  BY <2>1, <2>2, <3>1
  <2> QED  BY <2>1, <2>3 DEF Cell
<1> QED  BY <1>4 DEF Beside, above, digit

\* The recursion of _adjacent, one call deep.
LEMMA AdjacentRecursion ==
  adjacent = [geohash \in Cell |-> [direction \in Direction |-> Beside(adjacent, geohash, direction)]]
<1> DEFINE S == [Cell -> [Direction -> Cell]]
           a == [geohash \in Cell |-> [direction \in Direction |-> geohash]]
           step == [n \in Nat |-> [g \in S |->
                      [geohash \in Cell |-> [direction \in Direction |-> Beside(g, geohash, direction)]]]]
<1>1. a \in S
  OBVIOUS
<1>2. step \in [Nat -> [S -> S]]
  BY BesideIsCell
<1>3. PICK f : Iterates(f, S, a, step)
  <2> HIDE DEF S, a, step
  <2> QED  BY <1>1, <1>2, Recursion
<1> DEFINE F == [geohash \in Cell |-> f[Len(geohash)][geohash]]
<1>4. ASSUME NEW n \in Nat \ {0}
      PROVE  f[n] = [geohash \in Cell |-> [direction \in Direction |->
                       Beside(f[n - 1], geohash, direction)]]
  <2>1. n - 1 \in Nat /\ (n - 1) + 1 = n
    OBVIOUS
  <2>2. f[n - 1] \in S /\ f[n] = step[n - 1][f[n - 1]]
    <3> HIDE DEF S, a, step
    <3> QED  BY <1>3, <2>1 DEF Iterates
  <2> HIDE DEF S
  <2> QED  BY <2>1, <2>2
<1>5. ASSUME NEW geohash \in Cell, NEW direction \in Direction
      PROVE  Beside(f[Len(geohash) - 1], geohash, direction) = Beside(F, geohash, direction)
  <2>1. Parent(geohash) # <<>> => F[Parent(geohash)] = f[Len(geohash) - 1][Parent(geohash)]
    BY CellParts
  <2> HIDE DEF F
  <2> QED  BY <2>1 DEF Beside
<1>6. F = [geohash \in Cell |-> [direction \in Direction |-> Beside(F, geohash, direction)]]
  <2>1. ASSUME NEW geohash \in Cell
        PROVE  F[geohash] = [direction \in Direction |-> Beside(F, geohash, direction)]
    <3>1. F[geohash] = f[Len(geohash)][geohash]
      OBVIOUS
    <3>2. F[geohash] = [direction \in Direction |-> Beside(f[Len(geohash) - 1], geohash, direction)]
      <4>1. Len(geohash) \in Nat \ {0}
        BY CellParts
      <4>2. f[Len(geohash)] = [g \in Cell |-> [direction \in Direction |->
                                 Beside(f[Len(geohash) - 1], g, direction)]]
        BY <1>4, <4>1
      <4> HIDE DEF F
      <4> QED  BY <3>1, <4>2
    <3> HIDE DEF F
    <3> QED  BY <1>5, <3>2
  <2>2. F = [geohash \in Cell |-> F[geohash]]
    OBVIOUS
  <2> HIDE DEF F
  <2> QED  BY <2>1, <2>2
<1> QED
  <2> HIDE DEF F
  <2> QED  BY <1>6 DEF adjacent, Beside, Last, Parent

LEMMA AdjacentOfAppend ==
  ASSUME NEW parent \in Seq(Digit), NEW last \in Digit, NEW direction \in Direction,
         NEW type, type = (Len(parent) + 1) % 2
  PROVE  adjacent[Append(parent, last)][direction] =
           Append(IF last \in Border(direction, type) /\ parent # <<>>
                  THEN adjacent[parent][direction] ELSE parent,
                  Place(Neighbor(direction, type), last))
<1> DEFINE geohash == Append(parent, last)
<1>1. /\ geohash \in Seq(Digit) /\ Len(geohash) = Len(parent) + 1 /\ Len(parent) \in Nat
      /\ geohash[Len(parent) + 1] = last
      /\ SubSeq(geohash, 1, Len(geohash) - 1) = parent
  OBVIOUS
<1> HIDE DEF geohash
<1>2. geohash \in Cell
  <2>1. geohash # <<>>
    <3> SUFFICES ASSUME geohash = <<>> PROVE FALSE
      OBVIOUS
    <3>1. Len(geohash) = 0
      OBVIOUS
    <3> QED  BY <1>1, <3>1
  <2> QED  BY <1>1, <2>1 DEF Cell
<1>3. adjacent[geohash][direction] = Beside(adjacent, geohash, direction)
  BY <1>2, AdjacentRecursion
<1>4. Last(geohash) = last /\ Parent(geohash) = parent /\ Len(geohash) % 2 = type
  BY <1>1 DEF Last, Parent
<1> QED  BY <1>3, <1>4 DEF Beside, geohash

-----------------------------------------------------------------------------
(* _adjacent follows the grid. *)

Follows(n) ==
    \A r \in 0 .. rows[n] - 1, c \in 0 .. cols[n] - 1, direction \in Direction :
       adjacent[encode[n][<<r, c>>]][direction]
         = encode[n][<<RowTo(direction, r, rows[n]), ColTo(direction, c, cols[n])>>]

\* What becomes of the parent.
LEMMA ParentFollows ==
  ASSUME NEW n \in Nat, n # 0 => Follows(n), NEW direction \in Direction,
         NEW r \in 0 .. rows[n] - 1, NEW c \in 0 .. cols[n] - 1, NEW round \in BOOLEAN
  PROVE  (IF round /\ encode[n][<<r, c>>] # <<>>
          THEN adjacent[encode[n][<<r, c>>]][direction] ELSE encode[n][<<r, c>>])
           = encode[n][<<IF round THEN RowTo(direction, r, rows[n]) ELSE r,
                         IF round THEN ColTo(direction, c, cols[n]) ELSE c>>]
<1>1. r \in Nat /\ c \in Nat /\ <<r, c>> \in Coordinates
  BY GridSize, Pairs
<1>2. CASE n = 0
  <2>1. RowTo(direction, r, rows[n]) = 0 /\ ColTo(direction, c, cols[n]) = 0 /\ r = 0 /\ c = 0
    BY <1>2, GridSize DEF RowTo, ColTo, Later, Earlier
  <2>2. encode[n][<<r, c>>] = <<>>
    BY <1>1, <1>2, Encoded
  <2> QED  BY <2>1, <2>2
<1>3. CASE n # 0
  <2>1. encode[n][<<r, c>>] # <<>>
    <3>1. Len(encode[n][<<r, c>>]) = n
      BY <1>1, Encoded
    <3>2. encode[n][<<r, c>>] = <<>> => Len(encode[n][<<r, c>>]) = 0
      OBVIOUS
    <3> QED  BY <1>3, <3>1, <3>2
  <2>2. adjacent[encode[n][<<r, c>>]][direction]
          = encode[n][<<RowTo(direction, r, rows[n]), ColTo(direction, c, cols[n])>>]
    BY <1>3 DEF Follows
  <2> QED  BY <2>1, <2>2
<1> QED  BY <1>2, <1>3

LEMMA FollowsNext ==
  ASSUME NEW n \in Nat, n # 0 => Follows(n)
  PROVE  Follows(n + 1)
<1> SUFFICES ASSUME NEW r \in 0 .. rows[n + 1] - 1, NEW c \in 0 .. cols[n + 1] - 1,
                    NEW direction \in Direction
             PROVE  adjacent[encode[n + 1][<<r, c>>]][direction]
                      = encode[n + 1][<<RowTo(direction, r, rows[n + 1]),
                                        ColTo(direction, c, cols[n + 1])>>]
  BY DEF Follows
<1> DEFINE R == RowTo(direction, r, rows[n + 1])
           C == ColTo(direction, c, cols[n + 1])
<1>1. rows[n] \in Nat \ {0} /\ cols[n] \in Nat \ {0}
  BY GridSize
<1>2. CASE (n + 1) % 2 = 1
  <2>1. rows[n + 1] = rows[n] * 4 /\ cols[n + 1] = cols[n] * 8
    BY <1>2, GridSize
  <2> DEFINE round == GoesRound(direction, r % 4, 4, c % 8, 8)
  <2>2. /\ r \in 0 .. rows[n] * 4 - 1 /\ c \in 0 .. cols[n] * 8 - 1
        /\ r \in Nat /\ c \in Nat
    BY <1>1, <2>1
  <2>3. /\ r % 4 \in 0 .. 3 /\ r \div 4 \in 0 .. rows[n] - 1
        /\ c % 8 \in 0 .. 7 /\ c \div 8 \in 0 .. cols[n] - 1
    BY <1>1, <2>2, Parts
  <2>4. /\ R \in Nat /\ C \in Nat
        /\ R % 4 = RowTo(direction, r % 4, 4) /\ C % 8 = ColTo(direction, c % 8, 8)
        /\ R \div 4 = IF round THEN RowTo(direction, r \div 4, rows[n]) ELSE r \div 4
        /\ C \div 8 = IF round THEN ColTo(direction, c \div 8, cols[n]) ELSE c \div 8
    <3>1. R = RowTo(direction, r, rows[n] * 4) /\ C = ColTo(direction, c, cols[n] * 8)
      BY <2>1
    <3>2. IsStep(direction, 4, 8, rows[n], cols[n], r, c, R, C)
      <4>1. 4 \in {4, 8} /\ 8 \in {4, 8}
        OBVIOUS
      <4> HIDE DEF R, C
      <4> QED  BY <1>1, <2>2, <3>1, <4>1, StepParts, Zenon
    <3> HIDE DEF R, C
    <3>3. /\ R \in 0 .. rows[n] * 4 - 1 /\ C \in 0 .. cols[n] * 8 - 1
          /\ R % 4 = RowTo(direction, r % 4, 4) /\ C % 8 = ColTo(direction, c % 8, 8)
          /\ R \div 4 = IF round THEN RowTo(direction, r \div 4, rows[n]) ELSE r \div 4
          /\ C \div 8 = IF round THEN ColTo(direction, c \div 8, cols[n]) ELSE c \div 8
      BY <3>2 DEF IsStep
    <3>4. R \in Nat /\ C \in Nat
      BY <1>1, <3>3
    <3> QED  BY <3>3, <3>4
  <2> DEFINE p == encode[n][<<r \div 4, c \div 8>>]
             d == Interleave(c % 8, r % 4)
  <2> HIDE DEF R, C, round
  <2>5. encode[n + 1][<<r, c>>] = Append(p, d) /\ p \in Seq(Digit) /\ Len(p) = n /\ d \in Digit
    <3>1. <<r, c>> \in Coordinates /\ <<r \div 4, c \div 8>> \in Coordinates
      BY <2>2, Pairs, Quotients
    <3>2. r \in Nat /\ c \in Nat
      BY <2>2
    <3>3. encode[n + 1][<<r, c>>] = Append(p, d)
      BY <1>2, <3>2, EncodedOdd
    <3>4. p \in Seq(Digit) /\ Len(p) = n
      BY <3>1, Encoded
    <3>5. d \in Digit
      BY <2>3, Interleaved
    <3> QED  BY <3>3, <3>4, <3>5
  <2>6. encode[n + 1][<<R, C>>]
          = Append(encode[n][<<R \div 4, C \div 8>>], Interleave(C % 8, R % 4))
    <3>1. <<R, C>> \in Coordinates
      BY <2>4, Pairs
    <3>2. encode[n + 1][<<R, C>>] = Longer(encode[n], n + 1, <<R, C>>)
      BY <3>1, Encoded
    <3> QED  BY <1>2, <3>2 DEF Longer
  <2>7. /\ Place(Neighbor(direction, 1), d) = Interleave(C % 8, R % 4)
        /\ d \in Border(direction, 1) <=> round
    BY <2>3, <2>4, OddDigit DEF round
  <2>8. (IF round /\ p # <<>> THEN adjacent[p][direction] ELSE p)
          = encode[n][<<R \div 4, C \div 8>>]
    <3>1. round \in BOOLEAN
      BY DEF round, GoesRound
    <3> QED  BY <2>3, <2>4, <3>1, ParentFollows
  <2> HIDE DEF p, d
  <2>9. adjacent[Append(p, d)][direction] =
          Append(IF d \in Border(direction, 1) /\ p # <<>> THEN adjacent[p][direction] ELSE p,
                 Place(Neighbor(direction, 1), d))
    BY <1>2, <2>5, AdjacentOfAppend
  <2> QED  BY <2>5, <2>6, <2>7, <2>8, <2>9 DEF R, C
<1>3. CASE (n + 1) % 2 = 0
  <2>1. rows[n + 1] = rows[n] * 8 /\ cols[n + 1] = cols[n] * 4
    BY <1>3, GridSize
  <2> DEFINE round == GoesRound(direction, r % 8, 8, c % 4, 4)
  <2>2. /\ r \in 0 .. rows[n] * 8 - 1 /\ c \in 0 .. cols[n] * 4 - 1
        /\ r \in Nat /\ c \in Nat
    BY <1>1, <2>1
  <2>3. /\ r % 8 \in 0 .. 7 /\ r \div 8 \in 0 .. rows[n] - 1
        /\ c % 4 \in 0 .. 3 /\ c \div 4 \in 0 .. cols[n] - 1
    BY <1>1, <2>2, Parts
  <2>4. /\ R \in Nat /\ C \in Nat
        /\ R % 8 = RowTo(direction, r % 8, 8) /\ C % 4 = ColTo(direction, c % 4, 4)
        /\ R \div 8 = IF round THEN RowTo(direction, r \div 8, rows[n]) ELSE r \div 8
        /\ C \div 4 = IF round THEN ColTo(direction, c \div 4, cols[n]) ELSE c \div 4
    <3>1. R = RowTo(direction, r, rows[n] * 8) /\ C = ColTo(direction, c, cols[n] * 4)
      BY <2>1
    <3>2. IsStep(direction, 8, 4, rows[n], cols[n], r, c, R, C)
      <4>1. 8 \in {4, 8} /\ 4 \in {4, 8}
        OBVIOUS
      <4> HIDE DEF R, C
      <4> QED  BY <1>1, <2>2, <3>1, <4>1, StepParts, Zenon
    <3> HIDE DEF R, C
    <3>3. /\ R \in 0 .. rows[n] * 8 - 1 /\ C \in 0 .. cols[n] * 4 - 1
          /\ R % 8 = RowTo(direction, r % 8, 8) /\ C % 4 = ColTo(direction, c % 4, 4)
          /\ R \div 8 = IF round THEN RowTo(direction, r \div 8, rows[n]) ELSE r \div 8
          /\ C \div 4 = IF round THEN ColTo(direction, c \div 4, cols[n]) ELSE c \div 4
      BY <3>2 DEF IsStep
    <3>4. R \in Nat /\ C \in Nat
      BY <1>1, <3>3
    <3> QED  BY <3>3, <3>4
  <2> DEFINE p == encode[n][<<r \div 8, c \div 4>>]
             d == Interleave(r % 8, c % 4)
  <2> HIDE DEF R, C, round
  <2>5. encode[n + 1][<<r, c>>] = Append(p, d) /\ p \in Seq(Digit) /\ Len(p) = n /\ d \in Digit
    <3>1. <<r, c>> \in Coordinates /\ <<r \div 8, c \div 4>> \in Coordinates
      BY <2>2, Pairs, Quotients
    <3>2. r \in Nat /\ c \in Nat
      BY <2>2
    <3>3. encode[n + 1][<<r, c>>] = Append(p, d)
      BY <1>3, <3>2, EncodedEven
    <3>4. p \in Seq(Digit) /\ Len(p) = n
      BY <3>1, Encoded
    <3>5. d \in Digit
      BY <2>3, Interleaved
    <3> QED  BY <3>3, <3>4, <3>5
  <2>6. encode[n + 1][<<R, C>>]
          = Append(encode[n][<<R \div 8, C \div 4>>], Interleave(R % 8, C % 4))
    <3>1. <<R, C>> \in Coordinates
      BY <2>4, Pairs
    <3>2. encode[n + 1][<<R, C>>] = Longer(encode[n], n + 1, <<R, C>>)
      BY <3>1, Encoded
    <3> QED  BY <1>3, <3>2 DEF Longer
  <2>7. /\ Place(Neighbor(direction, 0), d) = Interleave(R % 8, C % 4)
        /\ d \in Border(direction, 0) <=> round
    BY <2>3, <2>4, EvenDigit DEF round
  <2>8. (IF round /\ p # <<>> THEN adjacent[p][direction] ELSE p)
          = encode[n][<<R \div 8, C \div 4>>]
    <3>1. round \in BOOLEAN
      BY DEF round, GoesRound
    <3> QED  BY <2>3, <2>4, <3>1, ParentFollows
  <2> HIDE DEF p, d
  <2>9. adjacent[Append(p, d)][direction] =
          Append(IF d \in Border(direction, 0) /\ p # <<>> THEN adjacent[p][direction] ELSE p,
                 Place(Neighbor(direction, 0), d))
    BY <1>3, <2>5, AdjacentOfAppend
  <2> QED  BY <2>5, <2>6, <2>7, <2>8, <2>9 DEF R, C
<1>4. (n + 1) % 2 \in {0, 1}
  OBVIOUS
<1> QED  BY <1>2, <1>3, <1>4

LEMMA FollowsGrid == \A n \in Nat \ {0} : Follows(n)
<1> DEFINE T == {n \in Nat : n # 0 => Follows(n)}
<1>1. 0 \in T
  OBVIOUS
<1>2. ASSUME NEW n \in Nat, n \in T PROVE n + 1 \in T
  <2>1. Follows(n + 1)
    BY <1>2, FollowsNext
  <2> QED  BY <2>1
<1>3. Nat \subseteq T
  <2> HIDE DEF T
  <2> QED  BY <1>1, <1>2, Induction
<1> QED  BY <1>3

-----------------------------------------------------------------------------
(* The walk. *)

\* The walked cell is that of the row and the column, which are on the grid.
OnGrid(n) ==
    /\ Len(cell) = n
    /\ row \in 0 .. rows[n] - 1
    /\ col \in 0 .. cols[n] - 1
    /\ cell = encode[n][<<row, col>>]

GridInv == \E n \in 1 .. MaxLength : OnGrid(n)

LEMMA Remainders ==
  ASSUME NEW size \in Nat \ {0}, NEW x \in 0 .. size - 1
  PROVE  /\ (x + 0) % size = x
         /\ (x + 1) % size = Later(x, size)
         /\ (x + -1) % size = Earlier(x, size)
  BY DEF Later, Earlier

LEMMA StaysOnGrid ==
  ASSUME NEW size \in Nat \ {0}, NEW x \in 0 .. size - 1
  PROVE  Later(x, size) \in 0 .. size - 1 /\ Earlier(x, size) \in 0 .. size - 1
  BY DEF Later, Earlier

\* _adjacent of a cell of the grid, direction by direction.
LEMMA FourSides ==
  ASSUME NEW n \in Nat \ {0}, NEW r \in 0 .. rows[n] - 1, NEW c \in 0 .. cols[n] - 1
  PROVE  /\ Len(encode[n][<<r, c>>]) = n
         /\ adjacent[encode[n][<<r, c>>]]["n"] = encode[n][<<Later(r, rows[n]), c>>]
         /\ adjacent[encode[n][<<r, c>>]]["s"] = encode[n][<<Earlier(r, rows[n]), c>>]
         /\ adjacent[encode[n][<<r, c>>]]["e"] = encode[n][<<r, Later(c, cols[n])>>]
         /\ adjacent[encode[n][<<r, c>>]]["w"] = encode[n][<<r, Earlier(c, cols[n])>>]
<1>1. Follows(n)
  BY FollowsGrid
<1>2. <<r, c>> \in Coordinates
  BY GridSize, Pairs
<1>3. \A direction \in Direction :
         adjacent[encode[n][<<r, c>>]][direction]
           = encode[n][<<RowTo(direction, r, rows[n]), ColTo(direction, c, cols[n])>>]
  BY <1>1 DEF Follows
<1>4. Len(encode[n][<<r, c>>]) = n
  BY <1>2, Encoded
<1> QED  BY <1>3, <1>4 DEF Direction, RowTo, ColTo

LEMMA GridInvInit == Init => GridInv
<1> SUFFICES ASSUME Init PROVE GridInv
  OBVIOUS
<1>1. PICK n \in 1 .. MaxLength : cell = encode[n][<<0, 0>>]
  BY DEF Init
<1>2. n \in Nat \ {0} /\ rows[n] \in Nat \ {0} /\ cols[n] \in Nat \ {0}
  BY GeohashAssumption, GridSize
<1>3. 0 \in 0 .. rows[n] - 1 /\ 0 \in 0 .. cols[n] - 1
  BY <1>2
<1> QED  BY <1>1, <1>2, <1>3, FourSides DEF Init, GridInv, OnGrid

LEMMA GridInvStep == GridInv /\ [Next]_<<cell, row, col>> => GridInv'
<1> SUFFICES ASSUME GridInv, [Next]_<<cell, row, col>> PROVE GridInv'
  OBVIOUS
<1>1. PICK n \in 1 .. MaxLength : OnGrid(n)
  BY DEF GridInv
<1>2. n \in Nat \ {0} /\ rows[n] \in Nat \ {0} /\ cols[n] \in Nat \ {0}
  BY GeohashAssumption, GridSize
<1>3. /\ Len(cell) = n /\ cell = encode[n][<<row, col>>]
      /\ row \in 0 .. rows[n] - 1 /\ col \in 0 .. cols[n] - 1
  BY <1>1 DEF OnGrid
<1>4. /\ adjacent[cell]["n"] = encode[n][<<Later(row, rows[n]), col>>]
      /\ adjacent[cell]["s"] = encode[n][<<Earlier(row, rows[n]), col>>]
      /\ adjacent[cell]["e"] = encode[n][<<row, Later(col, cols[n])>>]
      /\ adjacent[cell]["w"] = encode[n][<<row, Earlier(col, cols[n])>>]
  BY <1>2, <1>3, FourSides
<1>5. /\ Later(row, rows[n]) \in 0 .. rows[n] - 1 /\ Earlier(row, rows[n]) \in 0 .. rows[n] - 1
      /\ Later(col, cols[n]) \in 0 .. cols[n] - 1 /\ Earlier(col, cols[n]) \in 0 .. cols[n] - 1
  BY <1>2, <1>3, StaysOnGrid
<1>6. ASSUME NEW r \in 0 .. rows[n] - 1, NEW c \in 0 .. cols[n] - 1,
             cell' = encode[n][<<r, c>>], row' = r, col' = c
      PROVE  GridInv'
  BY <1>2, <1>6, FourSides DEF GridInv, OnGrid
<1>7. CASE Walk("n", 1, 0)
  <2>1. row' = Later(row, rows[n]) /\ col' = col
    BY <1>2, <1>3, <1>7, Remainders DEF Walk
  <2>2. cell' = encode[n][<<Later(row, rows[n]), col>>]
    BY <1>4, <1>7 DEF Walk
  <2> QED  BY <1>3, <1>5, <1>6, <2>1, <2>2
<1>8. CASE Walk("s", -1, 0)
  <2>1. row' = Earlier(row, rows[n]) /\ col' = col
    BY <1>2, <1>3, <1>8, Remainders DEF Walk
  <2>2. cell' = encode[n][<<Earlier(row, rows[n]), col>>]
    BY <1>4, <1>8 DEF Walk
  <2> QED  BY <1>3, <1>5, <1>6, <2>1, <2>2
<1>9. CASE Walk("e", 0, 1)
  <2>1. row' = row /\ col' = Later(col, cols[n])
    BY <1>2, <1>3, <1>9, Remainders DEF Walk
  <2>2. cell' = encode[n][<<row, Later(col, cols[n])>>]
    BY <1>4, <1>9 DEF Walk
  <2> QED  BY <1>3, <1>5, <1>6, <2>1, <2>2
<1>10. CASE Walk("w", 0, -1)
  <2>1. row' = row /\ col' = Earlier(col, cols[n])
    BY <1>2, <1>3, <1>10, Remainders DEF Walk
  <2>2. cell' = encode[n][<<row, Earlier(col, cols[n])>>]
    BY <1>4, <1>10 DEF Walk
  <2> QED  BY <1>3, <1>5, <1>6, <2>1, <2>2
<1>11. CASE UNCHANGED <<cell, row, col>>
  BY <1>11 DEF GridInv, OnGrid
<1> QED  BY <1>7, <1>8, <1>9, <1>10, <1>11 DEF Next

LEMMA GridInvariance == Spec => []GridInv
  BY GridInvInit, GridInvStep, PTL DEF Spec

\* For cells of every length: wherever _adjacent leads, it is the cell of that
\* place, across the borders of every parent.
THEOREM WalkStaysOnGrid == Spec => []WalkFollowsGrid
<1>1. ASSUME GridInv PROVE WalkFollowsGrid
  <2>1. PICK n \in 1 .. MaxLength : OnGrid(n)
    BY <1>1 DEF GridInv
  <2>2. rows[n] \in Nat \ {0} /\ cols[n] \in Nat \ {0}
    BY GeohashAssumption, GridSize
  <2>3. (row + 0) % rows[n] = row /\ (col + 0) % cols[n] = col
    BY <2>1, <2>2, Remainders DEF OnGrid
  <2> QED  BY <2>1, <2>3 DEF OnGrid, WalkFollowsGrid, CellAt
<1> QED  BY <1>1, GridInvariance, PTL

\* For cells of every length, geohash_neighbors returns the eight around.
THEOREM NeighborsAreAround == Spec => []NeighborsSurround
<1>1. ASSUME GridInv PROVE NeighborsSurround
  <2>1. PICK n \in 1 .. MaxLength : OnGrid(n)
    BY <1>1 DEF GridInv
  <2>2. n \in Nat \ {0} /\ rows[n] \in Nat \ {0} /\ cols[n] \in Nat \ {0}
    BY GeohashAssumption, GridSize
  <2>3. row \in 0 .. rows[n] - 1 /\ col \in 0 .. cols[n] - 1 /\ cell = encode[n][<<row, col>>]
    BY <2>1 DEF OnGrid
  <2> DEFINE up    == Later(row, rows[n])
             down  == Earlier(row, rows[n])
             right == Later(col, cols[n])
             left  == Earlier(col, cols[n])
  <2>4. /\ CellAt(1, 0) = encode[n][<<up, col>>] /\ CellAt(-1, 0) = encode[n][<<down, col>>]
        /\ CellAt(0, 1) = encode[n][<<row, right>>] /\ CellAt(0, -1) = encode[n][<<row, left>>]
        /\ CellAt(1, 1) = encode[n][<<up, right>>] /\ CellAt(1, -1) = encode[n][<<up, left>>]
        /\ CellAt(-1, 1) = encode[n][<<down, right>>] /\ CellAt(-1, -1) = encode[n][<<down, left>>]
    <3>1. /\ (row + 0) % rows[n] = row /\ (row + 1) % rows[n] = up /\ (row + -1) % rows[n] = down
          /\ (col + 0) % cols[n] = col /\ (col + 1) % cols[n] = right /\ (col + -1) % cols[n] = left
      BY <2>2, <2>3, Remainders
    <3>2. Len(cell) = n
      BY <2>1 DEF OnGrid
    <3> HIDE DEF up, down, right, left
    <3> QED  BY <3>1, <3>2 DEF CellAt
  <2>5. /\ adjacent[cell]["n"] = encode[n][<<up, col>>]
        /\ adjacent[cell]["s"] = encode[n][<<down, col>>]
        /\ adjacent[cell]["e"] = encode[n][<<row, right>>]
        /\ adjacent[cell]["w"] = encode[n][<<row, left>>]
    BY <2>2, <2>3, FourSides
  <2>6. up \in 0 .. rows[n] - 1 /\ down \in 0 .. rows[n] - 1
    BY <2>2, <2>3, StaysOnGrid
  <2>7. /\ adjacent[encode[n][<<up, col>>]]["e"] = encode[n][<<up, right>>]
        /\ adjacent[encode[n][<<up, col>>]]["w"] = encode[n][<<up, left>>]
        /\ adjacent[encode[n][<<down, col>>]]["e"] = encode[n][<<down, right>>]
        /\ adjacent[encode[n][<<down, col>>]]["w"] = encode[n][<<down, left>>]
    BY <2>2, <2>3, <2>6, FourSides
  <2> HIDE DEF up, down, right, left
  <2> QED  BY <2>4, <2>5, <2>7 DEF NeighborsSurround, Neighbors
<1> QED  BY <1>1, GridInvariance, PTL
=============================================================================
