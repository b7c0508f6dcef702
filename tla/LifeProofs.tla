----------------------------- MODULE LifeProofs -----------------------------
(***************************************************************************)
(* Life on a board of any size.  While the sleeps of main are long enough, *)
(* each thread has started on the generation that main is at or waits for  *)
(* the signal that starts it; the threads that were greeted are one        *)
(* generation ahead of the others, and so read the array the others write. *)
(* When all of them were in their pauses before the first signal, they are *)
(* all ahead, and what they compute is the next picture.                   *)
(***************************************************************************)
EXTENDS Life, FiniteSetTheorems, TLAPS

USE SizeAssumption

\* The cells that the loop main is in has done.
Visited == {Cell(k) : k \in 0..(main.n - 1)}

\* main is outside of game_of_life, and has not called it yet.
Outside == main.at \in {"drawing", "sleeping"}
First   == pc[Cell(0)] = "none"

\* The array that a thread reads in the present generation.
Base     == IF Outside /\ ~First THEN Other(foreground) ELSE foreground
Reads(c) == IF c \in greeted THEN Other(Base) ELSE Base

\* A thread has not been created, has started on the present generation, has
\* been signalled to start on it, or waits for that signal.
New(c)     == pc[c] = "none" /\ c \notin greeted
Started(c) == pc[c] \in {"computing", "computed", "paused"} /\ src[c] = Reads(c)
Fresh(c)   == Started(c) /\ c \notin greeted
Woken(c)   == pc[c] = "woken" /\ src[c] = Other(Reads(c))
Waiting(c) == pc[c] = "paused" /\ src[c] = Other(Reads(c))
Running(c) == Started(c) \/ Woken(c)

Placed(c) ==
  /\ Outside /\ First => New(c)
  /\ main.at = "creating" => IF c \in Visited THEN Fresh(c) ELSE New(c)
  /\ main.at = "greeting" => IF c \in Visited THEN Running(c) ELSE Fresh(c)
  /\ main.at = "signalling" => IF c \in Visited THEN Running(c) ELSE Waiting(c)
  /\ main.at = "swapping" \/ (Outside /\ ~First) => Running(c)
  /\ main.at = "killed" => Running(c) \/ Waiting(c)

Phase == \A c \in Cells : Placed(c)

\* With settled, all threads are greeted, one after the other.
InStep ==
  /\ main.at = "greeting" /\ main.n > 0 =>
       \A c \in Cells : IF c \in Visited THEN c \in greeted ELSE pc[c] = "paused"
  /\ main.at \in {"signalling", "swapping"} \/ (Outside /\ ~First) => greeted = Cells

\* The array that all threads read then, and what the arrays and the picture
\* hold: until the signals begin, the threads compute the next picture into
\* the array that is not drawn, and then the one after it into the other.
Begun  == main.at \in {"signalling", "swapping"} \/ (main.at = "greeting" /\ main.n > 0)
Source == IF Begun THEN Other(foreground) ELSE foreground

Drawn ==
  /\ main.at = "drawing" => \A c \in Visited : picture[c] = grid[foreground][c]
  /\ main.at \in {"sleeping", "creating", "greeting"} /\ ~Begun => picture = grid[foreground]
  /\ Begun => grid[Other(foreground)] = Conway(picture)

Computed ==
  main.at # "killed" =>
    \A c \in Cells :
      src[c] = Source /\ pc[c] \in {"computed", "paused"} =>
        grid[Other(Source)][c] = is_alive(c, grid[Source])

AllInStep == InStep /\ Drawn /\ Computed

Inv ==
  /\ TypeOK
  /\ timely => Phase
  /\ timely /\ settled => AllInStep

-----------------------------------------------------------------------------
(* The loops over 0..(Total - 1) visit every cell once.                    *)
LEMMA Multiples ==
  ASSUME NEW w \in Nat \ {0}, NEW a \in Nat, NEW b \in Nat, a < b
  PROVE  w * a + w <= w * b
<1>1. b - a - 1 \in Nat /\ w * (b - a - 1) \in Nat
  OBVIOUS
<1>2. w * b = w * a + w + w * (b - a - 1)
  BY <1>1
<1> QED BY <1>1, <1>2

LEMMA Division ==
  ASSUME NEW w \in Nat \ {0}, NEW n \in Nat
  PROVE  /\ n \div w \in Nat /\ n % w \in 0..(w - 1)
         /\ n = w * (n \div w) + (n % w)
  OBVIOUS

LEMMA Quotient ==
  ASSUME NEW w \in Nat \ {0}, NEW q \in Nat, NEW r \in 0..(w - 1)
  PROVE  (w * q + r) \div w = q /\ (w * q + r) % w = r
<1> DEFINE n == w * q + r
<1>1. n \in Nat
  OBVIOUS
<1>2. n \div w \in Nat /\ n % w \in 0..(w - 1) /\ n = w * (n \div w) + (n % w)
  BY <1>1, Division
<1>3. ~(n \div w < q)
  <2>1. n \div w < q => w * (n \div w) + w <= w * q
    BY <1>2, Multiples
  <2> QED BY <1>2, <2>1
<1>4. ~(q < n \div w)
  <2>1. q < n \div w => w * q + w <= w * (n \div w)
    BY <1>2, Multiples
  <2> QED BY <1>2, <2>1
<1>5. n \div w = q
  BY <1>2, <1>3, <1>4
<1> QED BY <1>2, <1>5

LEMMA TotalPositive == Total \in Nat \ {0}
  BY DEF Total

LEMMA CellIsCell ==
  ASSUME NEW n \in 0..(Total - 1)
  PROVE  Cell(n) \in Cells
<1> DEFINE w == grid_width
<1>1. /\ n \in Nat /\ w \in Nat \ {0} /\ grid_height \in Nat \ {0}
      /\ n < w * grid_height
  BY TotalPositive DEF Total
<1>2. n \div w \in Nat /\ n % w \in 0..(w - 1) /\ n = w * (n \div w) + (n % w)
  BY <1>1, Division
<1>3. n \div w < grid_height
  <2> SUFFICES ASSUME ~(n \div w < grid_height) PROVE FALSE
    OBVIOUS
  <2>1. CASE n \div w = grid_height
    BY <1>1, <1>2, <2>1
  <2>2. CASE grid_height < n \div w
    <3>1. w * grid_height + w <= w * (n \div w)
      BY <1>1, <1>2, <2>2, Multiples
    <3> QED BY <1>1, <1>2, <3>1
  <2> QED BY <1>1, <1>2, <2>1, <2>2
<1> QED BY <1>2, <1>3 DEF Cell, Cells

LEMMA CellsOnce ==
  ASSUME NEW m \in 0..(Total - 1), NEW n \in 0..(Total - 1), Cell(m) = Cell(n)
  PROVE  m = n
<1>1. m \div grid_width = n \div grid_width /\ m % grid_width = n % grid_width
  BY DEF Cell
<1>2. m \in Nat /\ n \in Nat /\ grid_width \in Nat \ {0}
  BY TotalPositive
<1>3. /\ m = grid_width * (m \div grid_width) + (m % grid_width)
      /\ n = grid_width * (n \div grid_width) + (n % grid_width)
  BY <1>2, Division
<1> QED BY <1>1, <1>3

LEMMA AllCells ==
  ASSUME NEW c \in Cells
  PROVE  \E n \in 0..(Total - 1) : Cell(n) = c
<1> DEFINE w == grid_width
           n == w * c[1] + c[2]
<1>1. /\ c[1] \in Nat /\ c[1] < grid_height /\ c[2] \in 0..(w - 1)
      /\ c = <<c[1], c[2]>> /\ w \in Nat \ {0} /\ grid_height \in Nat
  BY DEF Cells
<1>2. n \in Nat /\ n \div w = c[1] /\ n % w = c[2]
  <2>1. n \in Nat
    BY <1>1
  <2>2. n \div w = c[1] /\ n % w = c[2]
    BY <1>1, Quotient, Zenon
  <2> QED BY <2>1, <2>2
<1>3. n < Total
  <2>1. w * c[1] + w <= w * grid_height
    BY <1>1, Multiples
  <2> QED BY <1>1, <2>1 DEF Total
<1>4. n \in 0..(Total - 1)
  BY <1>2, <1>3, TotalPositive
<1> QED BY <1>1, <1>2, <1>4 DEF Cell

LEMMA FirstCell == 0 \in 0..(Total - 1) /\ Cell(0) \in Cells
<1>1. 0 \in 0..(Total - 1)
  BY TotalPositive
<1> QED BY <1>1, CellIsCell

(* The rule of the code and the rule of the game are the same.             *)
LEMMA RuleOfLife ==
  ASSUME NEW g \in Grids, NEW c \in Cells
  PROVE  is_alive(c, g) \in BOOLEAN /\ Conway(g)[c] = is_alive(c, g)
<1> DEFINE square == {d \in Cells : d[1] - c[1] \in -1..1 /\ d[2] - c[2] \in -1..1}
           around == {d \in Neighbours(c) : g[d]}
           alive  == {d \in square : g[d]}
<1>1. IsFiniteSet(Cells)
  <2>1. IsFiniteSet(0..(grid_height - 1)) /\ IsFiniteSet(0..(grid_width - 1))
    BY FS_Interval
  <2> QED BY <2>1, FS_Product DEF Cells
<1>2. IsFiniteSet(around) /\ Cardinality(around) \in Nat /\ c \notin around
  <2>1. around \subseteq Cells /\ c \notin around
    BY DEF Neighbours
  <2> HIDE DEF around
  <2> QED BY <1>1, <2>1, FS_Subset, FS_CardinalityType
<1>3. square = Neighbours(c) \cup {c}
  <2>1. c[1] \in Int /\ c[2] \in Int
    BY DEF Cells
  <2>2. c \in square
    BY <2>1
  <2> QED BY <2>2 DEF Neighbours
<1>4. alive = IF g[c] THEN around \cup {c} ELSE around
  BY <1>3
<1>5. Cardinality(alive) = IF g[c] THEN Cardinality(around) + 1 ELSE Cardinality(around)
  <2> HIDE DEF around, alive
  <2>1. CASE g[c]
    BY <1>2, <1>4, <2>1, FS_AddElement
  <2>2. CASE ~g[c]
    BY <1>4, <2>2
  <2> QED BY <2>1, <2>2
<1>6. is_alive(c, g) = IF g[c] THEN Cardinality(around) \in {2, 3} ELSE Cardinality(around) = 3
  BY DEF is_alive
<1>7. Conway(g)[c] = (Cardinality(alive) = 3 \/ (Cardinality(alive) = 4 /\ g[c]))
  BY DEF Conway
<1>8. g[c] \in BOOLEAN
  BY DEF Grids
<1> DEFINE count == Cardinality(around)
<1>9. count \in Nat
  BY <1>2
<1> HIDE DEF count, around, alive
<1>10. CASE g[c]
  <2>1. is_alive(c, g) = (count \in {2, 3}) /\ Cardinality(alive) = count + 1
    BY <1>5, <1>6, <1>10 DEF count
  <2>2. count \in {2, 3} <=> count + 1 = 3 \/ count + 1 = 4
    BY <1>9
  <2>3. Conway(g)[c] = (count + 1 = 3 \/ (count + 1 = 4 /\ g[c]))
    BY <1>7, <2>1
  <2> DEFINE P == count \in {2, 3}
             Q == count + 1 = 3 \/ (count + 1 = 4 /\ g[c])
  <2>4. P <=> Q
    BY <1>10, <2>2
  <2>5. is_alive(c, g) = P /\ Conway(g)[c] = Q /\ P \in BOOLEAN /\ Q \in BOOLEAN
    BY <2>1, <2>3
  <2> HIDE DEF P, Q
  <2> QED BY <2>4, <2>5
<1>11. CASE ~g[c]
  <2>1. is_alive(c, g) = (count = 3) /\ Cardinality(alive) = count
    BY <1>5, <1>6, <1>11 DEF count
  <2>2. Conway(g)[c] = (count = 3 \/ (count = 4 /\ g[c]))
    BY <1>7, <2>1
  <2> QED BY <1>11, <2>1, <2>2, Zenon
<1> QED BY <1>10, <1>11

(* One round of a loop of main over the cells.                             *)
LEMMA LoopStep ==
  ASSUME TypeOK, NEW next, Advance(next)
  PROVE  /\ Cell(main.n) \in Cells /\ Cell(main.n) \notin Visited /\ Visited \subseteq Cells
         /\ \/ /\ main'.at = main.at /\ main'.n = main.n + 1
               /\ Visited' = Visited \cup {Cell(main.n)}
            \/ /\ main' = [at |-> next, n |-> 0] /\ Visited' = {}
               /\ Cells = Visited \cup {Cell(main.n)}
<1>1. PICK n \in 0..(Total - 1) : n = main.n
  BY DEF TypeOK
<1>2. n \in Nat /\ Total \in Nat /\ n < Total
  BY <1>1, TotalPositive
<1>3. 0..(n - 1) \subseteq 0..(Total - 1) /\ n \notin 0..(n - 1)
  BY <1>2
<1>4. Cell(n) \in Cells /\ Cell(n) \notin Visited /\ Visited \subseteq Cells
  BY <1>1, <1>3, CellIsCell, CellsOnce DEF Visited
<1>5. CASE n + 1 < Total
  <2>1. main'.at = main.at /\ main'.n = n + 1
    BY <1>1, <1>5 DEF Advance, TypeOK
  <2>2. 0..(main'.n - 1) = 0..(n - 1) \cup {n}
    BY <1>2, <2>1
  <2>3. Visited' = Visited \cup {Cell(n)}
    BY <1>1, <2>2 DEF Visited, Cell
  <2> QED BY <1>1, <1>4, <2>1, <2>3
<1>6. CASE ~(n + 1 < Total)
  <2>1. main' = [at |-> next, n |-> 0] /\ n = Total - 1
    BY <1>1, <1>2, <1>6 DEF Advance
  <2>2. Visited' = {}
    BY <2>1 DEF Visited
  <2>3. 0..(Total - 1) = 0..(n - 1) \cup {n}
    BY <1>2, <2>1
  <2>4. Cells = Visited \cup {Cell(n)}
    BY <1>1, <1>4, <2>3, AllCells DEF Visited
  <2> QED BY <1>1, <1>4, <2>1, <2>2, <2>4
<1> QED BY <1>5, <1>6

LEMMA NothingVisited ==
  ASSUME main.n = 0
  PROVE  Visited = {}
  BY DEF Visited

-----------------------------------------------------------------------------
LEMMA TypeStep ==
  ASSUME TypeOK, [Next]_vars
  PROVE  TypeOK'
<1> USE TotalPositive DEF TypeOK, history
<1>1. ASSUME NEW next \in {"sleeping", "greeting", "swapping"}, Advance(next)
      PROVE  main' \in [at : Locations, n : 0..(Total - 1)]
  BY <1>1 DEF Advance, Locations
<1>2. Cell(main.n) \in Cells
  BY CellIsCell
<1>3. CASE Draw
  <2>1. grid[foreground][Cell(main.n)] \in BOOLEAN
    BY <1>2 DEF Grids
  <2>2. picture' \in Grids
    BY <1>2, <1>3, <2>1 DEF Draw, Grids
  <2> QED BY <1>1, <1>3, <2>2 DEF Draw
<1>4. CASE Wake
  <2>1. timely' \in BOOLEAN
    BY <1>4, Zenon DEF Wake
  <2>2. /\ main' = [at |-> "creating", n |-> 0] \/ main' = [at |-> "signalling", n |-> 0]
        /\ handler' \in {"stays", "once"}
        /\ UNCHANGED <<grid, foreground, picture, pc, src, greeted, settled>>
    BY <1>4 DEF Wake
  <2> QED BY <2>1, <2>2 DEF Locations
<1>5. CASE Create
  BY <1>1, <1>2, <1>5 DEF Create
<1>6. CASE Greet \/ Signal
  <2>1. /\ pc' \in [Cells -> {"none", "computing", "computed", "paused", "woken"}]
        /\ handler' \in {"stays", "once", "default"} /\ timely' \in BOOLEAN
        /\ UNCHANGED <<grid, foreground, picture, src>> /\ Advance("swapping")
    BY <1>2, <1>6 DEF Greet, Signal, Kill
  <2>2. greeted' \subseteq Cells
    BY <1>2, <1>6 DEF Greet, Signal
  <2>3. settled' \in BOOLEAN
    BY <1>6, Zenon DEF Greet, Signal
  <2> QED BY <1>1, <2>1, <2>2, <2>3
<1>7. CASE Terminate
  BY <1>7 DEF Terminate, Locations
<1>8. CASE SwapGrids
  BY <1>8 DEF SwapGrids, Other, Arrays, Locations
<1>9. ASSUME NEW c \in Cells, Compute(c)
      PROVE  TypeOK'
  <2>1. grid[src[c]] \in Grids /\ Other(src[c]) \in Arrays
    BY DEF Other, Arrays
  <2>2. is_alive(c, grid[src[c]]) \in BOOLEAN
    BY <2>1, RuleOfLife
  <2>3. grid' = [grid EXCEPT ![Other(src[c])] =
                   [grid[Other(src[c])] EXCEPT ![c] = is_alive(c, grid[src[c]])]]
    BY <1>9 DEF Compute
  <2>4. [grid[Other(src[c])] EXCEPT ![c] = is_alive(c, grid[src[c]])] \in Grids
    BY <2>1, <2>2 DEF Grids
  <2>5. grid' \in [Arrays -> Grids]
    BY <2>1, <2>3, <2>4
  <2> QED BY <1>9, <2>5 DEF Compute
<1>10. ASSUME NEW c \in Cells, Pause(c) \/ SwapPointers(c)
       PROVE  TypeOK'
  BY <1>10 DEF Pause, SwapPointers, Other, Arrays
<1>11. CASE UNCHANGED vars
  BY <1>11 DEF vars
<1> QED BY <1>3, <1>4, <1>5, <1>6, <1>7, <1>8, <1>9, <1>10, <1>11
        DEF Next, MainStep, ThreadStep

-----------------------------------------------------------------------------
(* The two arrays are different, and there are no more.                    *)
LEMMA TwoArrays ==
  ASSUME NEW a \in Arrays
  PROVE  /\ Other(a) \in Arrays /\ Other(a) # a /\ Other(Other(a)) = a
         /\ \A b \in Arrays : b = a \/ b = Other(a)
  BY DEF Arrays, Other

LEMMA ReadsArray ==
  ASSUME TypeOK, NEW c
  PROVE  /\ Base \in Arrays /\ Reads(c) \in Arrays /\ Source \in Arrays
         /\ Other(Reads(c)) # Reads(c) /\ Other(Other(Reads(c))) = Reads(c)
  BY TwoArrays DEF TypeOK, Base, Reads, Source

(* Every thread is in one of four places.                                  *)
LEMMA FourPlaces ==
  ASSUME TypeOK, Phase, NEW c \in Cells
  PROVE  New(c) \/ Running(c) \/ Waiting(c)
  BY DEF TypeOK, Locations, Phase, Placed, Fresh, Running, Outside

(* With settled, a thread that computes reads Source, and one that was     *)
(* woken will.                                                             *)
LEMMA ReadsSource ==
  ASSUME TypeOK, Phase, InStep, main.at # "killed", NEW c \in Cells
  PROVE  /\ pc[c] = "computing" => src[c] = Source
         /\ pc[c] = "woken" => src[c] = Other(Source)
<1>1. foreground \in Arrays /\ Other(foreground) # foreground
      /\ Other(Other(foreground)) = foreground
  BY TwoArrays DEF TypeOK
<1>2. /\ pc[c] = "computing" => src[c] = Reads(c)
      /\ pc[c] = "woken" => src[c] = Other(Reads(c))
  BY FourPlaces DEF New, Running, Started, Woken, Waiting
<1>3. CASE Outside /\ First
  BY <1>3 DEF Phase, Placed, New
<1>4. CASE Outside /\ ~First
  BY <1>1, <1>2, <1>4 DEF InStep, Reads, Base, Source, Begun, Outside
<1>5. CASE main.at = "creating"
  <2>1. c \notin greeted
    BY <1>5 DEF Phase, Placed, New, Fresh
  <2> QED BY <1>2, <1>5, <2>1 DEF Reads, Base, Source, Begun, Outside
<1>6. CASE main.at = "greeting" /\ main.n > 0
  <2>1. CASE c \in Visited
    BY <1>1, <1>2, <1>6, <2>1 DEF InStep, Reads, Base, Source, Begun, Outside
  <2>2. CASE c \notin Visited
    BY <1>6, <2>2 DEF InStep
  <2> QED BY <2>1, <2>2
<1>7. CASE main.at = "greeting" /\ ~(main.n > 0)
  <2>1. main.n = 0
    BY <1>7, TotalPositive DEF TypeOK
  <2>2. c \notin greeted
    BY <1>7, <2>1, NothingVisited DEF Phase, Placed, Fresh
  <2> QED BY <1>2, <1>7, <2>2 DEF Reads, Base, Source, Begun, Outside
<1>8. CASE main.at \in {"signalling", "swapping"}
  BY <1>1, <1>2, <1>8 DEF InStep, Reads, Base, Source, Begun, Outside
<1> QED BY <1>3, <1>4, <1>5, <1>6, <1>7, <1>8 DEF TypeOK, Locations, Outside

(* A board whose cells are all computed is the next one.                   *)
LEMMA NextBoard ==
  ASSUME NEW g \in Grids, NEW h \in Grids, \A c \in Cells : h[c] = is_alive(c, g)
  PROVE  h = Conway(g)
<1>1. \A c \in Cells : h[c] = Conway(g)[c]
  BY RuleOfLife
<1>2. h = [c \in Cells |-> h[c]] /\ Conway(g) = [c \in Cells |-> Conway(g)[c]]
  BY DEF Grids, Conway
<1> QED BY <1>1, <1>2

-----------------------------------------------------------------------------
(* The steps of main.                                                      *)

LEMMA DrawStep ==
  ASSUME TypeOK, TypeOK', Phase, Draw
  PROVE  Phase' /\ (AllInStep => AllInStep')
<1>1. /\ main.at = "drawing" /\ UNCHANGED <<grid, foreground, pc, src, greeted>>
      /\ picture' = [picture EXCEPT ![Cell(main.n)] = grid[foreground][Cell(main.n)]]
      /\ Advance("sleeping")
  BY DEF Draw, history
<1>2. main'.at \in {"drawing", "sleeping"} /\ Visited \subseteq Cells /\ Cell(main.n) \in Cells
  BY <1>1, LoopStep
<1>3. /\ First' <=> First
      /\ Outside /\ Outside' /\ ~Begun /\ ~Begun'
      /\ Base' = Base /\ Source' = Source
  BY <1>1, <1>2 DEF First, Outside, Base, Source, Begun
<1>4. \A c \in Cells : /\ New(c)' <=> New(c)
                       /\ Running(c)' <=> Running(c)
  BY <1>1, <1>3 DEF New, Running, Started, Woken, Reads
<1>5. Phase'
  BY <1>1, <1>2, <1>3, <1>4 DEF Phase, Placed
<1>6. ASSUME AllInStep PROVE InStep' /\ Computed'
  BY <1>1, <1>2, <1>3, <1>6 DEF AllInStep, InStep, Computed
<1>7. ASSUME AllInStep PROVE Drawn'
  <2>1. \A c \in Visited \cup {Cell(main.n)} : picture'[c] = grid[foreground][c]
    BY <1>1, <1>2, <1>7 DEF AllInStep, Drawn, TypeOK, Grids
  <2>2. CASE main'.at = "drawing"
    <3>1. Visited' \subseteq Visited \cup {Cell(main.n)}
      BY <1>1, LoopStep
    <3> QED BY <1>1, <1>3, <2>1, <2>2, <3>1 DEF Drawn
  <2>3. CASE main'.at = "sleeping"
    <3>1. Cells = Visited \cup {Cell(main.n)}
      BY <1>1, <2>3, LoopStep
    <3>2. grid[foreground] \in [Cells -> BOOLEAN] /\ picture' \in [Cells -> BOOLEAN]
      BY DEF TypeOK, Grids
    <3>3. picture' = grid[foreground]
      BY <2>1, <3>1, <3>2
    <3> QED BY <1>1, <1>3, <2>3, <3>3 DEF Drawn
  <2> QED BY <1>2, <2>2, <2>3
<1> QED BY <1>5, <1>6, <1>7 DEF AllInStep

LEMMA WakeStep ==
  ASSUME TypeOK, TypeOK', Phase, Wake, timely'
  PROVE  Phase' /\ (AllInStep => AllInStep')
<1>1. /\ main.at = "sleeping" /\ UNCHANGED <<grid, foreground, picture, pc, src, greeted>>
      /\ Outside /\ ~Begun /\ foreground \in Arrays /\ Source = foreground
  BY DEF Wake, Outside, Begun, TypeOK, Source
<1>2. CASE First
  <2>1. main' = [at |-> "creating", n |-> 0]
    BY <1>2 DEF Wake, First
  <2>2. Visited' = {} /\ ~Outside' /\ ~Begun' /\ Source' = Source
    BY <1>1, <2>1 DEF Visited, Outside, Begun, Source
  <2>3. \A c \in Cells : New(c)'
    BY <1>1, <1>2 DEF Phase, Placed, New
  <2>4. Phase'
    BY <2>1, <2>2, <2>3 DEF Phase, Placed
  <2>5. ASSUME AllInStep PROVE AllInStep'
    BY <1>1, <2>1, <2>2, <2>5 DEF AllInStep, InStep, Drawn, Computed
  <2> QED BY <2>4, <2>5
<1>3. CASE ~First
  <2>1. main' = [at |-> "signalling", n |-> 0] /\ \A c \in Cells : pc[c] = "paused"
    BY <1>3 DEF Wake, First
  <2>2. /\ Visited' = {} /\ ~Outside' /\ Begun' /\ Source' = Other(foreground)
        /\ Base = Other(foreground) /\ Base' = foreground
    BY <1>1, <1>3, <2>1 DEF Visited, Outside, Begun, Source, Base
  <2>3. \A c \in Cells : Started(c)
    BY <1>1, <1>3, <2>1 DEF Phase, Placed, Running, Woken
  <2>4. \A c \in Cells : Reads(c) = Other(Reads(c)')
    BY <1>1, <2>2, TwoArrays DEF Reads
  <2>5. \A c \in Cells : Waiting(c)'
    BY <1>1, <2>1, <2>3, <2>4 DEF Waiting, Started
  <2>6. Phase'
    BY <2>1, <2>2, <2>5 DEF Phase, Placed
  <2>7. ASSUME AllInStep PROVE AllInStep'
    <3>1. greeted = Cells
      BY <1>1, <1>3, <2>7 DEF AllInStep, InStep
    <3>2. \A c \in Cells : src[c] = foreground
      BY <1>1, <2>2, <2>3, <3>1, TwoArrays DEF Started, Reads
    <3>3. \A c \in Cells : grid[Other(foreground)][c] = is_alive(c, grid[foreground])
      BY <1>1, <2>1, <2>7, <3>2 DEF AllInStep, Computed
    <3>4. grid[Other(foreground)] = Conway(picture)
      <4>1. picture = grid[foreground] /\ grid[foreground] \in Grids
            /\ grid[Other(foreground)] \in Grids
        BY <1>1, <2>7, TwoArrays DEF AllInStep, Drawn, TypeOK
      <4> QED BY <3>3, <4>1, NextBoard
    <3>5. InStep' /\ Drawn'
      BY <1>1, <2>1, <2>2, <3>1, <3>4 DEF InStep, Drawn
    <3>6. Computed'
      BY <1>1, <2>2, <3>2, TwoArrays DEF Computed
    <3> QED BY <3>5, <3>6 DEF AllInStep
  <2> QED BY <2>6, <2>7
<1> QED BY <1>2, <1>3

LEMMA CreateStep ==
  ASSUME TypeOK, TypeOK', Phase, Create
  PROVE  Phase' /\ (AllInStep => AllInStep')
<1>d. PICK d \in Cells : d = Cell(main.n)
  BY CellIsCell DEF TypeOK
<1>1. /\ main.at = "creating" /\ UNCHANGED <<grid, foreground, picture, greeted>>
      /\ pc' = [pc EXCEPT ![d] = "computing"] /\ src' = [src EXCEPT ![d] = foreground]
      /\ Advance("greeting")
  BY <1>d DEF Create, history
<1>2. /\ d \in Cells /\ d \notin Visited
      /\ \/ main'.at = "creating" /\ Visited' = Visited \cup {d}
         \/ /\ main' = [at |-> "greeting", n |-> 0] /\ Visited' = {}
            /\ Cells = Visited \cup {d}
  BY <1>d, <1>1, LoopStep
<1>3. /\ pc'[d] = "computing" /\ src'[d] = foreground
      /\ \A c \in Cells : c # d => pc'[c] = pc[c] /\ src'[c] = src[c]
  BY <1>1, <1>2 DEF TypeOK
<1>4. /\ ~Outside /\ ~Outside' /\ ~Begun /\ ~Begun' /\ Base = foreground /\ Base' = foreground
      /\ Source = foreground /\ Source' = foreground
  BY <1>1, <1>2 DEF Outside, Begun, Base, Source
<1>5. New(d)
  BY <1>1, <1>2 DEF Phase, Placed
<1>6. Fresh(d)'
  BY <1>1, <1>3, <1>4, <1>5 DEF New, Fresh, Started, Reads
<1>7. \A c \in Cells : c # d => (New(c) => New(c)') /\ (Fresh(c) => Fresh(c)')
  BY <1>1, <1>3, <1>4 DEF New, Fresh, Started, Reads
<1>8. Phase'
  <2>1. \A c \in Cells : IF c \in Visited THEN Fresh(c) ELSE New(c)
    BY <1>1 DEF Phase, Placed
  <2>2. CASE main'.at = "creating" /\ Visited' = Visited \cup {d}
    BY <1>4, <1>6, <1>7, <2>1, <2>2 DEF Phase, Placed
  <2>3. CASE main' = [at |-> "greeting", n |-> 0] /\ Visited' = {} /\ Cells = Visited \cup {d}
    BY <1>4, <1>6, <1>7, <2>1, <2>3 DEF Phase, Placed
  <2> QED BY <1>2, <2>2, <2>3
<1>9. ASSUME AllInStep PROVE InStep' /\ Drawn'
  BY <1>1, <1>2, <1>4, <1>9 DEF AllInStep, InStep, Drawn, Begun
<1>10. ASSUME AllInStep PROVE Computed'
  BY <1>1, <1>3, <1>4, <1>10 DEF AllInStep, Computed
<1> QED BY <1>8, <1>9, <1>10 DEF AllInStep

(* The first signal to a thread puts it a generation ahead, or is lost.    *)
LEMMA GreetStep ==
  ASSUME TypeOK, TypeOK', Phase, Greet
  PROVE  Phase' /\ (settled' /\ AllInStep => AllInStep')
<1>d. PICK d \in Cells : d = Cell(main.n)
  BY CellIsCell DEF TypeOK
<1>1. /\ main.at = "greeting" /\ UNCHANGED <<grid, foreground, picture, src>>
      /\ pc' = [pc EXCEPT ![d] = IF @ = "paused" THEN "woken" ELSE @]
      /\ Advance("swapping")
      /\ greeted' = IF pc[d] = "paused" THEN greeted \cup {d} ELSE greeted
      /\ settled' => (main.n = 0 => \A c \in Cells : pc[c] = "paused")
  BY <1>d, Zenon DEF Greet, Kill
<1>2. /\ d \in Cells /\ d \notin Visited
      /\ \/ /\ main'.at = "greeting" /\ main'.n = main.n + 1
            /\ Visited' = Visited \cup {d}
         \/ /\ main' = [at |-> "swapping", n |-> 0] /\ Visited' = {}
            /\ Cells = Visited \cup {d}
  BY <1>d, <1>1, LoopStep
<1>0. main.n = 0 => Visited = {}
  BY NothingVisited
<1>3. /\ pc'[d] = IF pc[d] = "paused" THEN "woken" ELSE pc[d]
      /\ \A c \in Cells : c # d => /\ pc'[c] = pc[c] /\ src'[c] = src[c]
                                   /\ c \in greeted' <=> c \in greeted
  BY <1>1, <1>2 DEF TypeOK
<1>4. /\ ~Outside /\ ~Outside' /\ Base = foreground /\ Base' = foreground
      /\ foreground \in Arrays
  BY <1>1, <1>2 DEF Outside, Base, TypeOK
<1>5. Fresh(d)
  BY <1>1, <1>2 DEF Phase, Placed
<1>6. Running(d)'
  <2>1. CASE pc[d] = "paused"
    BY <1>1, <1>3, <1>4, <1>5, <2>1, TwoArrays DEF Fresh, Started, Running, Woken, Reads
  <2>2. CASE pc[d] # "paused"
    BY <1>1, <1>3, <1>4, <1>5, <2>2 DEF Fresh, Started, Running, Reads
  <2> QED BY <2>1, <2>2
<1>7. \A c \in Cells : c # d => (Running(c) => Running(c)') /\ (Fresh(c) => Fresh(c)')
  BY <1>3, <1>4 DEF Fresh, Running, Started, Woken, Reads
<1>8. Phase'
  <2>1. \A c \in Cells : IF c \in Visited THEN Running(c) ELSE Fresh(c)
    BY <1>1 DEF Phase, Placed
  <2>2. CASE main'.at = "greeting" /\ Visited' = Visited \cup {d}
    BY <1>4, <1>6, <1>7, <2>1, <2>2 DEF Phase, Placed
  <2>3. CASE main'.at = "swapping" /\ Visited' = {} /\ Cells = Visited \cup {d}
    <3>1. \A c \in Cells : Running(c)'
      BY <1>6, <1>7, <2>1, <2>3
    <3> QED BY <1>4, <2>3, <3>1 DEF Phase, Placed
  <2> QED BY <1>2, <2>2, <2>3
<1>9. ASSUME settled', AllInStep PROVE AllInStep'
  <2>1. main.n \in Nat
    BY TotalPositive DEF TypeOK
  <2>2. \A c \in Cells : IF c \in Visited THEN c \in greeted ELSE pc[c] = "paused"
    BY <1>0, <1>1, <1>9, <2>1 DEF AllInStep, InStep
  <2>3. InStep'
    <3>1. \A c \in Cells : IF c \in Visited \cup {d} THEN c \in greeted' ELSE pc'[c] = "paused"
      BY <1>1, <1>2, <1>3, <2>2
    <3>2. greeted' \subseteq Cells
      BY DEF TypeOK
    <3> QED BY <1>2, <1>4, <3>1, <3>2 DEF InStep
  <2>4. Begun' /\ Source' = Other(foreground)
    BY <1>1, <1>2, <2>1 DEF Begun, Source
  <2>5. CASE main.n = 0
    <3>1. /\ ~Begun /\ Source = foreground /\ picture = grid[foreground]
          /\ \A c \in Cells : pc[c] = "paused" /\ src[c] = foreground
      <4>1. ~Begun /\ Source = foreground
        BY <1>1, <2>5 DEF Begun, Source
      <4>2. \A c \in Cells : Fresh(c)
        BY <1>0, <1>1, <2>5 DEF Phase, Placed
      <4> QED BY <1>0, <1>1, <1>4, <1>9, <2>2, <2>5, <4>1, <4>2
              DEF AllInStep, Drawn, Fresh, Started, Reads
    <3>2. \A c \in Cells : grid[Other(foreground)][c] = is_alive(c, grid[foreground])
      BY <1>1, <1>9, <3>1 DEF AllInStep, Computed
    <3>3. grid[Other(foreground)] = Conway(picture)
      <4>1. grid[foreground] \in Grids /\ grid[Other(foreground)] \in Grids
        BY <1>4, TwoArrays DEF TypeOK
      <4> QED BY <3>1, <3>2, <4>1, NextBoard
    <3>4. Drawn'
      BY <1>1, <1>2, <2>4, <3>3 DEF Drawn
    <3>5. Computed'
      BY <1>1, <1>4, <2>4, <3>1, TwoArrays DEF Computed
    <3> QED BY <2>3, <3>4, <3>5 DEF AllInStep
  <2>6. CASE main.n # 0
    <3>1. Begun /\ Source = Other(foreground)
      BY <1>1, <2>1, <2>6 DEF Begun, Source
    <3>2. Drawn'
      BY <1>1, <1>2, <1>9, <2>4, <3>1 DEF AllInStep, Drawn
    <3>3. Computed'
      BY <1>1, <1>3, <1>9, <2>4, <3>1 DEF AllInStep, Computed
    <3> QED BY <2>3, <3>2, <3>3 DEF AllInStep
  <2> QED BY <2>5, <2>6
<1> QED BY <1>8, <1>9

LEMMA SignalStep ==
  ASSUME TypeOK, TypeOK', Phase, Signal
  PROVE  Phase' /\ (AllInStep => AllInStep')
<1>d. PICK d \in Cells : d = Cell(main.n)
  BY CellIsCell DEF TypeOK
<1>1. /\ main.at = "signalling" /\ UNCHANGED <<grid, foreground, picture, src, greeted>>
      /\ pc' = [pc EXCEPT ![d] = IF @ = "paused" THEN "woken" ELSE @]
      /\ Advance("swapping")
  BY <1>d, Zenon DEF Signal, Kill
<1>2. /\ d \in Cells /\ d \notin Visited
      /\ \/ main'.at = "signalling" /\ Visited' = Visited \cup {d}
         \/ main' = [at |-> "swapping", n |-> 0] /\ Cells = Visited \cup {d}
  BY <1>d, <1>1, LoopStep
<1>3. Waiting(d)
  BY <1>1, <1>2 DEF Phase, Placed
<1>4. pc'[d] = "woken" /\ \A c \in Cells : c # d => pc'[c] = pc[c]
  BY <1>1, <1>2, <1>3 DEF TypeOK, Waiting
<1>5. /\ ~Outside /\ ~Outside' /\ Base' = Base
      /\ Begun /\ Begun' /\ Source' = Source
  BY <1>1, <1>2 DEF Outside, Base, Begun, Source
<1>6. Running(d)' /\ \A c \in Cells : c # d => /\ Running(c) => Running(c)'
                                               /\ Waiting(c) => Waiting(c)'
  BY <1>1, <1>3, <1>4, <1>5 DEF Running, Started, Woken, Waiting, Reads
<1>7. Phase'
  <2>1. \A c \in Cells : IF c \in Visited THEN Running(c) ELSE Waiting(c)
    BY <1>1 DEF Phase, Placed
  <2>2. CASE main'.at = "signalling" /\ Visited' = Visited \cup {d}
    BY <1>5, <1>6, <2>1, <2>2 DEF Phase, Placed
  <2>3. CASE main' = [at |-> "swapping", n |-> 0] /\ Cells = Visited \cup {d}
    <3>1. \A c \in Cells : Running(c)'
      BY <1>6, <2>1, <2>3
    <3> QED BY <1>5, <2>3, <3>1 DEF Phase, Placed
  <2> QED BY <1>2, <2>2, <2>3
<1>8. ASSUME AllInStep PROVE InStep' /\ Drawn' /\ Computed'
  <2>1. greeted = Cells
    BY <1>1, <1>8 DEF AllInStep, InStep
  <2>2. InStep' /\ Drawn'
    BY <1>1, <1>2, <1>5, <1>8, <2>1 DEF AllInStep, InStep, Drawn
  <2>3. Computed'
    BY <1>1, <1>4, <1>5, <1>8 DEF AllInStep, Computed
  <2> QED BY <2>2, <2>3
<1> QED BY <1>7, <1>8 DEF AllInStep

(* The end of main's call, and the end of the program.                     *)
LEMMA SwapGridsStep ==
  ASSUME TypeOK, TypeOK', Phase, SwapGrids
  PROVE  Phase' /\ (AllInStep => AllInStep')
<1>1. /\ main.at = "swapping" /\ main' = [at |-> "drawing", n |-> 0]
      /\ UNCHANGED <<grid, picture, pc, src, greeted>>
      /\ foreground' = Other(foreground) /\ foreground \in Arrays
  BY DEF SwapGrids, history, TypeOK
<1>2. \A c \in Cells : Running(c)
  BY <1>1 DEF Phase, Placed
<1>3. /\ ~First /\ ~First' /\ Outside' /\ ~Outside /\ Visited' = {}
      /\ Begun /\ ~Begun'
  BY <1>1, <1>2, FirstCell DEF First, Outside, Running, Started, Woken, Visited, Begun
<1>4. Base' = Base /\ Source' = Source /\ Source = Other(foreground)
  BY <1>1, <1>3, TwoArrays DEF Base, Source
<1>5. \A c \in Cells : Running(c)'
  BY <1>1, <1>2, <1>4 DEF Running, Started, Woken, Reads
<1>6. Phase'
  BY <1>1, <1>3, <1>5 DEF Phase, Placed
<1>7. ASSUME AllInStep PROVE AllInStep'
  BY <1>1, <1>3, <1>4, <1>7 DEF AllInStep, InStep, Drawn, Computed
<1> QED BY <1>6, <1>7

LEMMA TerminateStep ==
  ASSUME TypeOK, TypeOK', Phase, Terminate
  PROVE  Phase' /\ (AllInStep => AllInStep')
<1>1. /\ main.at \in {"greeting", "signalling"} /\ main' = [at |-> "killed", n |-> 0]
      /\ UNCHANGED <<foreground, pc, src, greeted>>
  BY DEF Terminate, history
<1>2. ~Outside /\ ~Outside' /\ ~Begun' /\ Base' = Base
  BY <1>1 DEF Outside, Begun, Base
<1>3. \A c \in Cells : Running(c) \/ Waiting(c)
  BY <1>1 DEF Phase, Placed, Fresh, Running
<1>4. \A c \in Cells : Running(c)' \/ Waiting(c)'
  BY <1>1, <1>2, <1>3 DEF Running, Started, Woken, Waiting, Reads
<1>5. Phase'
  BY <1>1, <1>2, <1>4 DEF Phase, Placed
<1>6. AllInStep'
  BY <1>1, <1>2 DEF AllInStep, InStep, Drawn, Computed
<1> QED BY <1>5, <1>6

-----------------------------------------------------------------------------
(* The steps of the threads: one that has started goes on, one that was    *)
(* woken starts.                                                           *)

LEMMA ThreadPhase ==
  ASSUME TypeOK, TypeOK', Phase, NEW c \in Cells, UNCHANGED <<main, foreground, greeted>>,
         \A d \in Cells : d # c => pc'[d] = pc[d] /\ src'[d] = src[d],
         pc[c] \in {"computing", "computed", "woken"}, pc'[c] # "none",
         Started(c) => src'[c] = src[c] /\ pc'[c] \in {"computed", "paused"},
         Woken(c) => src'[c] = Other(src[c]) /\ pc'[c] = "computing"
  PROVE  Phase' /\ Started(c)' /\ Source' = Source /\ (InStep => InStep')
<1>1. /\ First' <=> First
      /\ Outside' <=> Outside
      /\ Base' = Base /\ Source' = Source /\ Visited' = Visited /\ ~Waiting(c) /\ ~New(c)
  BY FirstCell DEF First, Outside, Base, Source, Begun, Visited, Waiting, New
<1>2. \A d \in Cells : d # c => /\ New(d) => New(d)'
                                /\ Fresh(d) => Fresh(d)'
                                /\ Running(d) => Running(d)'
                                /\ Waiting(d) => Waiting(d)'
  BY <1>1 DEF New, Fresh, Running, Started, Woken, Waiting, Reads
<1>3. Running(c)
  BY <1>1, FourPlaces
<1>4. Started(c)'
  <2>1. Reads(c)' = Reads(c) /\ Other(Other(Reads(c))) = Reads(c)
    BY <1>1, ReadsArray DEF Reads
  <2> QED BY <1>3, <2>1 DEF Running, Started, Woken
<1>5. \A d \in Cells : /\ New(d) => New(d)'
                       /\ Fresh(d) => Fresh(d)'
                       /\ Running(d) => Running(d)'
                       /\ Waiting(d) => Waiting(d)'
  BY <1>1, <1>2, <1>4 DEF Fresh, Running
<1>6. Phase'
  BY <1>1, <1>5 DEF Phase, Placed
<1>7. ASSUME InStep PROVE InStep'
  BY <1>1, <1>7 DEF InStep
<1> QED BY <1>1, <1>4, <1>6, <1>7

LEMMA ComputeStep ==
  ASSUME TypeOK, TypeOK', Phase, NEW c \in Cells, Compute(c), main.at # "killed"
  PROVE  Phase' /\ (AllInStep => AllInStep')
<1>1. /\ pc[c] = "computing" /\ pc' = [pc EXCEPT ![c] = "computed"]
      /\ grid' = [grid EXCEPT ![Other(src[c])][c] = is_alive(c, grid[src[c]])]
      /\ UNCHANGED <<foreground, picture, main, src, greeted>>
  BY DEF Compute, history
<1>2. pc'[c] = "computed" /\ \A d \in Cells : d # c => pc'[d] = pc[d] /\ src'[d] = src[d]
  BY <1>1 DEF TypeOK
<1>3. ~Woken(c)
  BY <1>1 DEF Woken
<1>4. Phase' /\ Source' = Source /\ (InStep => InStep')
  BY <1>1, <1>2, <1>3, ThreadPhase
<1>5. ASSUME AllInStep PROVE AllInStep'
  <2>1. src[c] = Source /\ Source \in Arrays
    BY <1>1, <1>5, ReadsSource, ReadsArray DEF AllInStep
  <2>2. Other(Source) \in Arrays /\ Other(Source) # Source
    BY <2>1, TwoArrays
  <2>3. /\ grid'[Source] = grid[Source]
        /\ grid'[Other(Source)][c] = is_alive(c, grid[Source])
        /\ \A d \in Cells : d # c => grid'[Other(Source)][d] = grid[Other(Source)][d]
    <3>1. grid' = [grid EXCEPT ![Other(Source)] =
                    [grid[Other(Source)] EXCEPT ![c] = is_alive(c, grid[Source])]]
      BY <1>1, <2>1
    <3>2. grid \in [Arrays -> Grids] /\ grid[Other(Source)] \in [Cells -> BOOLEAN]
      BY <2>2 DEF TypeOK, Grids
    <3>3. /\ grid'[Source] = grid[Source]
          /\ grid'[Other(Source)] =
               [grid[Other(Source)] EXCEPT ![c] = is_alive(c, grid[Source])]
      BY <2>1, <2>2, <3>1, <3>2
    <3> QED BY <3>2, <3>3
  <2>4. Drawn'
    BY <1>1, <1>5, <2>3 DEF AllInStep, Drawn, Begun, Source, Visited
  <2>5. Computed'
    BY <1>1, <1>2, <1>4, <1>5, <2>3 DEF AllInStep, Computed
  <2> QED BY <1>4, <1>5, <2>4, <2>5 DEF AllInStep
<1> QED BY <1>4, <1>5

LEMMA PauseStep ==
  ASSUME TypeOK, TypeOK', Phase, NEW c \in Cells, Pause(c), main.at # "killed"
  PROVE  Phase' /\ (AllInStep => AllInStep')
<1>1. /\ pc[c] = "computed" /\ pc' = [pc EXCEPT ![c] = "paused"]
      /\ UNCHANGED <<grid, foreground, picture, main, src, greeted>>
  BY DEF Pause, history
<1>2. pc'[c] = "paused" /\ \A d \in Cells : d # c => pc'[d] = pc[d] /\ src'[d] = src[d]
  BY <1>1 DEF TypeOK
<1>3. ~Woken(c)
  BY <1>1 DEF Woken
<1>4. Phase' /\ Source' = Source /\ (InStep => InStep')
  BY <1>1, <1>2, <1>3, ThreadPhase
<1>5. ASSUME AllInStep PROVE Drawn' /\ Computed'
  <2>1. Drawn'
    BY <1>1, <1>5 DEF AllInStep, Drawn, Begun, Visited
  <2>2. Computed'
    BY <1>1, <1>2, <1>4, <1>5 DEF AllInStep, Computed
  <2> QED BY <2>1, <2>2
<1> QED BY <1>4, <1>5 DEF AllInStep

LEMMA SwapPointersStep ==
  ASSUME TypeOK, TypeOK', Phase, NEW c \in Cells, SwapPointers(c), main.at # "killed"
  PROVE  Phase' /\ (AllInStep => AllInStep')
<1>1. /\ pc[c] = "woken" /\ pc' = [pc EXCEPT ![c] = "computing"]
      /\ src' = [src EXCEPT ![c] = Other(@)]
      /\ UNCHANGED <<grid, foreground, picture, main, greeted>>
  BY DEF SwapPointers, history
<1>2. /\ pc'[c] = "computing" /\ src'[c] = Other(src[c])
      /\ \A d \in Cells : d # c => pc'[d] = pc[d] /\ src'[d] = src[d]
  BY <1>1 DEF TypeOK
<1>3. ~Started(c)
  BY <1>1 DEF Started
<1>4. Phase' /\ Source' = Source /\ (InStep => InStep')
  BY <1>1, <1>2, <1>3, ThreadPhase
<1>5. ASSUME AllInStep PROVE Drawn' /\ Computed'
  <2>1. Drawn'
    BY <1>1, <1>5 DEF AllInStep, Drawn, Begun, Visited
  <2>2. Computed'
    BY <1>1, <1>2, <1>4, <1>5 DEF AllInStep, Computed
  <2> QED BY <2>1, <2>2
<1> QED BY <1>4, <1>5 DEF AllInStep

-----------------------------------------------------------------------------
LEMMA InitInv == Init => Inv
<1> SUFFICES ASSUME Init PROVE Inv
  OBVIOUS
<1>1. TypeOK
  BY TotalPositive DEF Init, TypeOK, Arrays, Grids, Locations
<1>2. /\ main.at = "drawing" /\ main.n = 0 /\ First /\ \A c \in Cells : New(c)
  BY FirstCell DEF Init, New, First
<1>3. Visited = {}
  BY <1>2, NothingVisited
<1>4. Phase
  BY <1>2, <1>3 DEF Phase, Placed
<1>5. InStep /\ Drawn
  BY <1>2, <1>3 DEF InStep, Drawn, Begun
<1>6. Computed
  BY <1>2 DEF Computed, New
<1> QED BY <1>1, <1>4, <1>5, <1>6 DEF Inv, AllInStep

(* What a step does while main is in time.                                 *)
LEMMA TimelyStep ==
  ASSUME TypeOK, TypeOK', Phase, [Next]_vars, timely'
  PROVE  Phase' /\ (settled' /\ AllInStep => AllInStep')
<1>1. CASE MainStep
  BY <1>1, DrawStep, WakeStep, CreateStep, GreetStep, SignalStep, TerminateStep,
     SwapGridsStep, Zenon DEF MainStep
<1>2. ASSUME NEW c \in Cells, ThreadStep(c)
      PROVE  Phase' /\ (settled' /\ AllInStep => AllInStep')
  BY <1>2, ComputeStep, PauseStep, SwapPointersStep, Zenon DEF ThreadStep
<1>3. CASE UNCHANGED vars
  <2>1. /\ UNCHANGED <<grid, foreground, picture, main, pc, src, greeted>>
        /\ First' = First /\ Outside' = Outside /\ Begun' = Begun /\ Visited' = Visited
        /\ Base' = Base /\ Source' = Source
    BY <1>3 DEF vars, history, First, Outside, Begun, Visited, Base, Source
  <2>2. Phase'
    BY <2>1 DEF Phase, Placed, Fresh, Running, New, Started, Woken, Waiting, Reads
  <2>3. AllInStep => AllInStep'
    BY <2>1 DEF AllInStep, InStep, Drawn, Computed
  <2> QED BY <2>2, <2>3
<1> QED BY <1>1, <1>2, <1>3 DEF Next

(* What was too late stays so.                                             *)
LEMMA LateForEver ==
  ASSUME [Next]_vars
  PROVE  (timely' => timely) /\ (settled' => settled)
<1>1. CASE UNCHANGED vars
  BY <1>1 DEF vars, history
<1>2. CASE Wake
  BY <1>2, Zenon DEF Wake
<1>3. CASE Greet
  BY <1>3, Zenon DEF Greet, Kill
<1>4. CASE Draw \/ Create \/ Signal \/ Terminate \/ SwapGrids
  BY <1>4 DEF Draw, Create, Signal, Kill, Terminate, SwapGrids, history
<1>5. ASSUME NEW c \in Cells, ThreadStep(c)
      PROVE  (timely' => timely) /\ (settled' => settled)
  BY <1>5 DEF ThreadStep, Compute, Pause, SwapPointers, history
<1> QED BY <1>1, <1>2, <1>3, <1>4, <1>5 DEF Next, MainStep

LEMMA NextInv == Inv /\ [Next]_vars => Inv'
<1> SUFFICES ASSUME Inv, [Next]_vars PROVE Inv'
  OBVIOUS
<1>1. TypeOK /\ TypeOK'
  BY TypeStep DEF Inv
<1>2. (timely' => timely) /\ (settled' => settled)
  BY LateForEver
<1>3. timely' => Phase'
  BY <1>1, <1>2, TimelyStep DEF Inv
<1>4. timely' /\ settled' => AllInStep'
  BY <1>1, <1>2, TimelyStep DEF Inv, AllInStep
<1> QED BY <1>1, <1>3, <1>4 DEF Inv, AllInStep

(***************************************************************************)
(* In every interleaving of main and the threads of grid.c, whatever the   *)
(* first signals met, the threads are where the phase of main has them and *)
(* read what their own first signal left them to read, unless a sleep was  *)
(* too short; and if all first signals met a pause, the arrays hold the    *)
(* picture and the next one.                                               *)
(***************************************************************************)
THEOREM Invariance == Spec => []Inv
<1> QED BY InitInv, NextInv, PTL DEF Spec

(***************************************************************************)
(* The two arrays, the picture, the pointers and the locations have their  *)
(* types, timely or not: the loops of main.c and grid.c stay inside the    *)
(* board.                                                                  *)
(***************************************************************************)
THEOREM TypeCorrect == Spec => []TypeOK
<1>1. Inv => TypeOK
  BY DEF Inv
<1> QED BY <1>1, Invariance, PTL

(***************************************************************************)
(* Which threads write an array that another one, or draw_grid, reads, on  *)
(* a board of any size and for any outcome of the first signals            *)
(* (grid.c:152): with sleeps that are long enough, exactly those whose     *)
(* first signals had another fate.                                         *)
(***************************************************************************)
THEOREM Conflicts == Spec => []ConflictsByGreeting
<1>1. Inv => ConflictsByGreeting
  <2> SUFFICES ASSUME Inv, timely PROVE ConflictsByGreeting
    BY DEF ConflictsByGreeting
  <2>1. TypeOK /\ Phase
    BY DEF Inv
  <2>2. \A c \in Cells : Computing(c) => src[c] = Reads(c)
    BY <2>1, FourPlaces DEF Computing, New, Running, Started, Woken, Waiting
  <2>3. Base \in Arrays /\ foreground \in Arrays
    BY <2>1, ReadsArray DEF TypeOK
  <2>4. \A c, d \in Cells : Computing(c) /\ Computing(d) =>
          (src[c] = src[d] <=> (c \in greeted <=> d \in greeted))
    BY <2>2, <2>3, TwoArrays DEF Reads
  <2>5. ASSUME main.at = "drawing", NEW c \in Cells, Computing(c)
        PROVE  Other(src[c]) = foreground <=> c \notin greeted
    <3>1. ~First /\ Outside
      BY <2>1, <2>5 DEF Phase, Placed, New, Computing, Outside
    <3>2. Base = Other(foreground)
      BY <3>1 DEF Base
    <3> QED BY <2>2, <2>3, <2>5, <3>2, TwoArrays DEF Reads
  <2> QED BY <2>4, <2>5 DEF ConflictsByGreeting
<1> QED BY <1>1, Invariance, PTL

(***************************************************************************)
(* main.c and grid.c show the game, on a board of any size and from any    *)
(* first board, if all threads were in their pauses when the first signals *)
(* began and no sleep was too short: each picture is drawn whole, and the  *)
(* next one is what Conway's rule makes of it.                             *)
(***************************************************************************)
THEOREM Pictures == Spec => []PicturesFollow
<1>1. Inv => PicturesFollow
  BY DEF Inv, AllInStep, Drawn, Begun, PicturesFollow, Follows
<1> QED BY <1>1, Invariance, PTL

=============================================================================
