-------------------------------- MODULE Life --------------------------------
(***************************************************************************)
(* lab8/zad01: the Game of Life with one thread per cell.  main draws its  *)
(* foreground cell by cell, sleeps, creates the threads the first time,    *)
(* signals every thread and exchanges its two grids.  A thread computes    *)
(* its cell, pauses until a signal and exchanges its own two pointers.     *)
(*                                                                         *)
(* pthread_kill runs a handler that does nothing: it ends a pause, and     *)
(* anywhere else it is lost.  A signal is delivered when it is sent.       *)
(*                                                                         *)
(* How long a thread takes is left open, and what comes of it is kept in   *)
(* three history variables.  timely speaks of main's usleep: it is true    *)
(* while every one of them was long enough.  greeted and settled speak of  *)
(* the first signals, which main sends as soon as it has created the       *)
(* threads, without a sleep: some find their thread in its pause and end   *)
(* it, others come too early and are lost.                                 *)
(*                                                                         *)
(* sa_flags is never initialized.  The one flag that matters here is       *)
(* SA_RESETHAND: with it the first signal of a call sets the default       *)
(* action again, and the second one ends the program.                      *)
(*                                                                         *)
(* A thread reads the cells around its own and writes it in one step.      *)
(* What the cells hold decides nothing of where main and the threads are,  *)
(* and PicturesFollow, which is about what they hold, speaks only of       *)
(* behaviours in which no thread writes what another reads.  Of ncurses    *)
(* only the cells of the picture are kept.                                 *)
(***************************************************************************)
EXTENDS Integers, FiniteSets

CONSTANTS grid_height, grid_width

ASSUME SizeAssumption ==
  /\ grid_height \in Nat \ {0}
  /\ grid_width \in Nat \ {0}

Cells == (0..(grid_height - 1)) \X (0..(grid_width - 1))
Total == grid_height * grid_width
Grids == [Cells -> BOOLEAN]

\* The cells in the order of the loops.
Cell(n) == <<n \div grid_width, n % grid_width>>

\* The two allocated arrays.
Arrays   == {"A", "B"}
Other(a) == IF a = "A" THEN "B" ELSE "A"

VARIABLES
  grid,       \* what each array holds
  foreground, \* main's foreground; its background is the other array
  picture,    \* the cells as main has drawn them last
  main,       \* where main is, and the cell it is at
  pc,         \* where each thread is
  src,        \* each thread's data->src; its data->dst is the other array
  handler,    \* of SIGUSR1: "stays", "once" (SA_RESETHAND) or "default"
  timely,     \* history: after each sleep but the first all threads were in
              \* their pauses
  greeted,    \* history: the threads whose first signal ended a pause
  settled     \* history: when the first signals began, all threads were in
              \* their pauses

history == <<timely, greeted, settled>>
vars    == <<grid, foreground, picture, main, pc, src, handler, history>>

Neighbours(c) ==
  {d \in Cells : d # c /\ d[1] - c[1] \in -1..1 /\ d[2] - c[2] \in -1..1}

\* Mutant: a live cell survives with three neighbours only.
is_alive_strict(c, g) ==
  Cardinality({d \in Neighbours(c) : g[d]}) = 3

is_alive(c, g) ==
  LET count == Cardinality({d \in Neighbours(c) : g[d]})
  IN  IF g[c] THEN count \in {2, 3} ELSE count = 3

-----------------------------------------------------------------------------
(* main and game_of_life *)

\* Mutant: the loop runs once too often.
AdvanceTooFar(next) ==
  main' = IF main.n + 1 <= Total THEN [main EXCEPT !.n = @ + 1]
                                 ELSE [at |-> next, n |-> 0]

\* The loop over the cells goes on, or ends in another location.
Advance(next) ==
  main' = IF main.n + 1 < Total THEN [main EXCEPT !.n = @ + 1]
                                ELSE [at |-> next, n |-> 0]

\* draw_grid: one cell of foreground goes into the picture.
Draw ==
  /\ main.at = "drawing"
  /\ picture' = [picture EXCEPT ![Cell(main.n)] = grid[foreground][Cell(main.n)]]
  /\ Advance("sleeping")
  /\ UNCHANGED <<grid, foreground, pc, src, handler, history>>

\* usleep ends, and game_of_life installs the handler.
Wake ==
  /\ main.at = "sleeping"
  /\ handler' \in {"stays", "once"}
  /\ IF pc[Cell(0)] = "none"
       THEN /\ main' = [at |-> "creating", n |-> 0]
            /\ UNCHANGED timely
       ELSE /\ main' = [at |-> "signalling", n |-> 0]
            /\ timely' = (timely /\ \A c \in Cells : pc[c] = "paused")
  /\ UNCHANGED <<grid, foreground, picture, pc, src, greeted, settled>>

\* Mutant: every other thread gets the two grids the wrong way round.
CreateCrossed ==
  /\ main.at = "creating"
  /\ pc' = [pc EXCEPT ![Cell(main.n)] = "computing"]
  /\ src' = [src EXCEPT ![Cell(main.n)] =
              IF main.n % 2 = 0 THEN foreground ELSE Other(foreground)]
  /\ Advance("greeting")
  /\ UNCHANGED <<grid, foreground, picture, handler, history>>

Create ==
  /\ main.at = "creating"
  /\ pc' = [pc EXCEPT ![Cell(main.n)] = "computing"]
  /\ src' = [src EXCEPT ![Cell(main.n)] = foreground]
  /\ Advance("greeting")
  /\ UNCHANGED <<grid, foreground, picture, handler, history>>

\* One round of the loop of pthread_kill.
Kill ==
  /\ handler # "default"
  /\ pc' = [pc EXCEPT ![Cell(main.n)] = IF @ = "paused" THEN "woken" ELSE @]
  /\ handler' = IF handler = "once" THEN "default" ELSE handler
  /\ Advance("swapping")
  /\ UNCHANGED <<grid, foreground, picture, src, timely>>

\* The first call signals the threads it has just created.
Greet ==
  /\ main.at = "greeting"
  /\ Kill
  /\ greeted' = IF pc[Cell(main.n)] = "paused" THEN greeted \cup {Cell(main.n)}
                                               ELSE greeted
  /\ settled' = (settled /\ (main.n = 0 => \A c \in Cells : pc[c] = "paused"))

Signal ==
  /\ main.at = "signalling"
  /\ Kill
  /\ UNCHANGED <<greeted, settled>>

\* The default action of SIGUSR1.
Terminate ==
  /\ main.at \in {"greeting", "signalling"}
  /\ handler = "default"
  /\ main' = [at |-> "killed", n |-> 0]
  /\ UNCHANGED <<grid, foreground, picture, pc, src, handler, history>>

SwapGrids ==
  /\ main.at = "swapping"
  /\ foreground' = Other(foreground)
  /\ main' = [at |-> "drawing", n |-> 0]
  /\ UNCHANGED <<grid, picture, pc, src, handler, history>>

MainStep ==
  Draw \/ Wake \/ Create \/ Greet \/ Signal \/ Terminate \/ SwapGrids

-----------------------------------------------------------------------------
(* update_grid_2 *)

Compute(c) ==
  /\ pc[c] = "computing"
  /\ grid' = [grid EXCEPT ![Other(src[c])][c] = is_alive(c, grid[src[c]])]
  /\ pc' = [pc EXCEPT ![c] = "computed"]
  /\ UNCHANGED <<foreground, picture, main, src, handler, history>>

Pause(c) ==
  /\ pc[c] = "computed"
  /\ pc' = [pc EXCEPT ![c] = "paused"]
  /\ UNCHANGED <<grid, foreground, picture, main, src, handler, history>>

SwapPointers(c) ==
  /\ pc[c] = "woken"
  /\ pc' = [pc EXCEPT ![c] = "computing"]
  /\ src' = [src EXCEPT ![c] = Other(@)]
  /\ UNCHANGED <<grid, foreground, picture, main, handler, history>>

ThreadStep(c) ==
  /\ main.at # "killed"
  /\ Compute(c) \/ Pause(c) \/ SwapPointers(c)

-----------------------------------------------------------------------------
Locations ==
  {"drawing", "sleeping", "creating", "greeting", "signalling", "swapping", "killed"}

TypeOK ==
  /\ grid \in [Arrays -> Grids]
  /\ foreground \in Arrays
  /\ picture \in Grids
  /\ main \in [at : Locations, n : 0..(Total - 1)]
  /\ pc \in [Cells -> {"none", "computing", "computed", "paused", "woken"}]
  /\ src \in [Cells -> Arrays]
  /\ handler \in {"stays", "once", "default"}
  /\ timely \in BOOLEAN
  /\ greeted \subseteq Cells
  /\ settled \in BOOLEAN

\* The background is what malloc returns; the screen is empty.
Init ==
  /\ grid \in [Arrays -> Grids]
  /\ foreground = "A"
  /\ picture = [c \in Cells |-> FALSE]
  /\ main = [at |-> "drawing", n |-> 0]
  /\ pc = [c \in Cells |-> "none"]
  /\ src = [c \in Cells |-> "A"]
  /\ handler = "default"
  /\ timely = TRUE
  /\ greeted = {}
  /\ settled = TRUE

Next == MainStep \/ \E c \in Cells : ThreadStep(c)

Spec == Init /\ [][Next]_vars

-----------------------------------------------------------------------------
\* Conway's rule: three live cells in the square around c, with c itself, make
\* it live, and four leave it as it is.
Conway(g) ==
  [c \in Cells |->
    LET square == {d \in Cells : d[1] - c[1] \in -1..1 /\ d[2] - c[2] \in -1..1}
        alive  == Cardinality({d \in square : g[d]})
    IN  alive = 3 \/ (alive = 4 /\ g[c])]

Computing(c) == pc[c] = "computing"

(***************************************************************************)
(* Who reads an array while somebody writes it, when every sleep of main   *)
(* is long enough: that is decided by the first signals alone.  Threads    *)
(* whose first signals both ended a pause, or were both lost, never write  *)
(* the array the other one reads; a thread that was greeted and one that   *)
(* was not do so whenever they compute together.  And main, which draws    *)
(* its foreground right after it has signalled the threads, draws the      *)
(* array that the threads write which were not greeted, and no other.      *)
(***************************************************************************)
ConflictsByGreeting ==
  timely =>
    /\ \A c, d \in Cells :
         Computing(c) /\ Computing(d) =>
           (src[c] = src[d] <=> (c \in greeted <=> d \in greeted))
    /\ main.at = "drawing" =>
         \A c \in Cells :
           Computing(c) => (Other(src[c]) = foreground <=> c \notin greeted)

(***************************************************************************)
(* When all threads were in their pauses before the first signal was sent, *)
(* and every later sleep of main was long enough, main displays the game   *)
(* (lab_08_polecenie.txt:2): a picture that is drawn is the whole of       *)
(* foreground, although the threads are at work on the next one, and what  *)
(* main draws next is what Conway's rule makes of it.                      *)
(***************************************************************************)
Follows ==
  /\ main.at = "sleeping" => picture = grid[foreground]
  /\ main.at = "swapping" => grid[Other(foreground)] = Conway(picture)

PicturesFollow == timely /\ settled => Follows

=============================================================================
