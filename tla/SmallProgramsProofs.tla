------------------------- MODULE SmallProgramsProofs -------------------------
(***************************************************************************)
(* What the small programs of lab1, lab2, lab4 and lab5 promise, for all   *)
(* values of their parameters.  Each program has an inductive invariant of *)
(* its own; the variables of the others do not matter to it.               *)
(***************************************************************************)
EXTENDS SmallPrograms, SignalsProofs, FiniteSetTheorems, SequenceTheorems,
        WellFoundedInduction, TLAPS

-----------------------------------------------------------------------------
(* A set of numbers has a lowest member.                                   *)
LEMMA LowestExists ==
  ASSUME NEW S \in SUBSET Nat, S # {}
  PROVE  \E k \in S : \A l \in S : k <= l
<1> DEFINE R == OpToRel(<, Nat)
<1>1. IsWellFoundedOn(R, Nat)
  BY NatLessThanWellFounded
<1>2. \A k, l \in Nat : <<k, l>> \notin R => l <= k
  BY DEF OpToRel
<1> HIDE DEF R
<1>3. PICK k \in S : \A l \in S : ~(<<l, k>> \in R)
  BY <1>1, WFMin
<1>4. \A l \in S : k <= l
  BY <1>2, <1>3
<1> QED BY <1>3, <1>4

LEMMA LowestMember ==
  ASSUME NEW S \in SUBSET Nat, S # {}
  PROVE  (CHOOSE k \in S : \A l \in S : k <= l) \in S
BY LowestExists

(* Induction over the numbers from 0 to n, by the lowest counterexample.   *)
LEMMA InductionUpTo ==
  ASSUME NEW n \in Nat, NEW S, 0 \in S,
         \A j \in 0..(n - 1) : j \in S => j + 1 \in S
  PROVE  0..n \subseteq S
<1> DEFINE T == (0..n) \ S
<1> SUFFICES ASSUME T # {} PROVE FALSE
  OBVIOUS
<1>1. PICK k \in T : \A l \in T : k <= l
  <2>1. T \in SUBSET Nat
    OBVIOUS
  <2> HIDE DEF T
  <2> QED BY <2>1, LowestExists
<1>2. k # 0 /\ k - 1 \in 0..(n - 1) /\ (k - 1) + 1 = k
  OBVIOUS
<1>3. k - 1 \notin T
  BY <1>1, <1>2
<1> QED BY <1>2, <1>3

-----------------------------------------------------------------------------
(* lab4/zad2: the handler that raises its own signal.  Only the call on    *)
(* top of the stack may still have to begin, so the calls that have begun  *)
(* are all of them or all but one, and the one that is to begin, or is to  *)
(* be delivered, is the next one.                                          *)

\* The call on top has begun, if there is one.
TopBegun == frames # <<>> => H!top.begun

CallDepth == IF TopBegun THEN Len(frames) ELSE Len(frames) - 1

NestedCalls ==
  /\ \A k \in DOMAIN frames : k < Len(frames) => frames[k].begun
  /\ \A k \in DOMAIN frames : k > 1 => frames[k].id = frames[k - 1].id + 1
  /\ flag # "NODEFER" => Len(frames) <= 1
  /\ flag # "SIGINFO" => call_depth = CallDepth
  /\ flag = "SIGINFO" => call_id = 0 /\ call_depth = 0
  /\ call_depth <= call_id

\* A call is raised once and begins before the next one is raised.
CallsInOrder ==
  /\ frames # <<>> \/ flagPending => mainRaised
  /\ mainRaised => flag # "done"
  /\ ~TopBegun => ~flagPending /\ (flag # "SIGINFO" => H!top.id = call_id)
  /\ flag = "NODEFER" /\ flagPending /\ frames # <<>> => H!top.id + 1 = call_id
  /\ flag \in {"NODEFER", "RESTART"} =>
       /\ ~mainRaised => call_id = 0
       /\ flagPending \/ ~TopBegun => call_id < MAX_CALLS
       /\ mainRaised /\ ~flagPending /\ TopBegun => call_id = MAX_CALLS

FlagsInv == H!TypeOK /\ NestedCalls /\ CallsInOrder

LEMMA MaxCalls == MAX_CALLS \in Nat \ {0}
BY ProgramsAssumption

LEMMA FlagsInit == H!Init \/ FlagsEnded => FlagsInv
<1> SUFFICES ASSUME H!Init \/ FlagsEnded PROVE FlagsInv
  OBVIOUS
<1>0. /\ flag \in {"SIGINFO", "done"} /\ mainRaised = FALSE /\ flagPending = FALSE
      /\ frames = <<>> /\ call_id = 0 /\ call_depth = 0
  BY DEF H!Init, FlagsEnded
<1>1. H!TypeOK
  <2>1. mainRaised \in BOOLEAN /\ flagPending \in BOOLEAN
    BY <1>0, Zenon
  <2> QED BY <1>0, <2>1, MaxCalls DEF H!TypeOK
<1>2. NestedCalls
  BY <1>0 DEF NestedCalls, CallDepth, TopBegun
<1>3. CallsInOrder
  BY <1>0 DEF CallsInOrder, TopBegun
<1> QED BY <1>1, <1>2, <1>3 DEF FlagsInv

LEMMA FlagsStep == FlagsInv /\ H!Next => FlagsInv'
<1> SUFFICES ASSUME FlagsInv, H!Next PROVE FlagsInv'
  OBVIOUS
<1>1. /\ frames \in Seq(H!Frames)
      /\ Len(frames) \in Nat /\ DOMAIN frames = 1..Len(frames)
      /\ frames = <<>> <=> Len(frames) = 0
      /\ \A k \in 1..Len(frames) : frames[k] \in H!Frames
  BY DEF FlagsInv, H!TypeOK
<1>2. CASE H!Raise
  BY MaxCalls, <1>2 DEF H!Raise, FlagsInv, H!TypeOK, NestedCalls, CallsInOrder, TopBegun, CallDepth, H!top
<1>3. CASE H!NextFlag
  <2>1. /\ mainRaised /\ frames = <<>> /\ ~flagPending
        /\ flag \in {"SIGINFO", "NODEFER", "RESTART"}
        /\ call_id \in Nat /\ call_depth \in Nat
    BY <1>3 DEF H!NextFlag, FlagsInv, H!TypeOK, CallsInOrder
  <2>2. /\ flag' \in {"NODEFER", "RESTART", "done"}
        /\ ~mainRaised' /\ UNCHANGED <<flagPending, frames>>
        /\ flag' = "done" => flag = "RESTART" /\ UNCHANGED <<call_id, call_depth>>
        /\ flag' # "done" => call_id' = 0 /\ call_depth' = 0
    BY <1>3, <2>1 DEF H!NextFlag
  <2>3. mainRaised' \in BOOLEAN
    BY <1>3, Zenon DEF H!NextFlag
  <2>4. H!TypeOK'
    BY <2>1, <2>2, <2>3, MaxCalls DEF FlagsInv, H!TypeOK
  <2>5. NestedCalls'
    BY <2>1, <2>2 DEF FlagsInv, NestedCalls, CallDepth, TopBegun
  <2>6. CallsInOrder'
    BY <2>1, <2>2 DEF FlagsInv, CallsInOrder, TopBegun
  <2> QED BY <2>4, <2>5, <2>6 DEF FlagsInv
<1>4. CASE H!Deliver
  <2> DEFINE f == [id |-> call_id, begun |-> FALSE]
  <2>1. /\ flagPending /\ ~flagPending'
        /\ frames = <<>> \/ flag = "NODEFER"
        /\ UNCHANGED <<flag, mainRaised, call_id, call_depth>>
        /\ frames' = Append(frames, f)
        /\ call_id \in Nat
    BY <1>4 DEF H!Deliver, FlagsInv, H!TypeOK
  <2>2. /\ f \in H!Frames /\ frames' \in Seq(H!Frames)
        /\ Len(frames') = Len(frames) + 1 /\ frames' # <<>>
        /\ DOMAIN frames' = 1..(Len(frames) + 1)
        /\ \A k \in 1..Len(frames) : frames'[k] = frames[k]
        /\ frames'[Len(frames) + 1] = f
    BY <1>1, <2>1 DEF H!Frames
  <2>3. H!top' = f /\ ~TopBegun'
    BY <2>2 DEF H!top, TopBegun
  <2>4. TopBegun
    BY <2>1 DEF FlagsInv, CallsInOrder
  <2>10. flagPending' \in BOOLEAN
    BY <1>4, Zenon DEF H!Deliver
  <2>5. H!TypeOK'
    BY MaxCalls, <2>1, <2>2, <2>10 DEF FlagsInv, H!TypeOK
  <2>6. CallsInOrder'
    BY MaxCalls, <2>1, <2>2, <2>3, <2>4 DEF FlagsInv, H!TypeOK, CallsInOrder
  <2>7. ASSUME NEW k \in DOMAIN frames', k > 1
        PROVE  frames'[k].id = frames'[k - 1].id + 1
    <3>1. CASE k <= Len(frames)
      BY <1>1, <2>2, <2>7, <3>1 DEF FlagsInv, NestedCalls
    <3>2. CASE k = Len(frames) + 1
      <4>1. H!top.id + 1 = call_id
        BY <1>1, <2>1, <2>2, <2>7, <3>2 DEF FlagsInv, CallsInOrder
      <4> QED BY <1>1, <2>2, <2>7, <3>2, <4>1 DEF H!top
    <3> QED BY <1>1, <2>2, <3>1, <3>2
  <2>8. \A k \in DOMAIN frames' : k < Len(frames') => frames'[k].begun
    BY <1>1, <2>2, <2>4 DEF FlagsInv, NestedCalls, TopBegun, H!top
  <2>9. NestedCalls'
    BY <1>1, <2>1, <2>2, <2>3, <2>4, <2>7, <2>8 DEF FlagsInv, NestedCalls, CallDepth
  <2> QED BY <2>5, <2>6, <2>9 DEF FlagsInv
<1>5. CASE H!HandlerBegin
  <2> DEFINE n == Len(frames)
             f == [H!top EXCEPT !.begun = TRUE]
  <2>1. /\ frames # <<>> /\ ~H!top.begun
        /\ frames' = [frames EXCEPT ![n] = f]
        /\ UNCHANGED <<flag, mainRaised>>
        /\ flag = "SIGINFO" => UNCHANGED <<flagPending, call_id, call_depth>>
        /\ flag # "SIGINFO" => /\ call_id' = call_id + 1
                               /\ call_depth' = call_depth + 1
                               /\ flagPending' <=> call_id' < MAX_CALLS
    BY <1>5 DEF H!HandlerBegin, H!top
  <2>2. n \in 1..Len(frames) /\ H!top = frames[n] /\ H!top \in H!Frames
    BY <1>1, <2>1 DEF H!top
  <2>12. f \in H!Frames /\ f.begun /\ f.id = H!top.id
    BY <2>2 DEF H!Frames
  <2>13. flagPending' \in BOOLEAN
    <3>1. CASE flag = "SIGINFO"
      BY <2>1, <3>1 DEF FlagsInv, H!TypeOK
    <3>2. CASE flag # "SIGINFO"
      <4>1. (call_id' < MAX_CALLS) \in BOOLEAN
        OBVIOUS
      <4>2. flagPending' = (call_id' < MAX_CALLS)
        BY <1>5, <3>2, Zenon DEF H!HandlerBegin
      <4> QED BY <4>1, <4>2, Zenon
    <3> QED BY <3>1, <3>2
  <2> HIDE DEF f
  <2>3. /\ frames' \in Seq(H!Frames)
        /\ Len(frames') = n /\ frames' # <<>>
        /\ DOMAIN frames' = DOMAIN frames
        /\ \A k \in 1..n : frames'[k] = IF k = n THEN f ELSE frames[k]
    <3>1. /\ frames' \in Seq(H!Frames) /\ Len(frames') = n
          /\ \A k \in 1..n : frames'[k] = IF k = n THEN f ELSE frames[k]
      BY <1>1, <2>1, <2>2, <2>12, ExceptSeq
    <3> QED BY <1>1, <2>1, <2>2, <3>1
  <2>4. H!top' = f /\ TopBegun' /\ ~TopBegun
    BY <2>1, <2>2, <2>3, <2>12 DEF H!top, TopBegun
  <2>5. /\ call_id \in Nat /\ call_depth \in Nat /\ flagPending \in BOOLEAN /\ ~flagPending
        /\ mainRaised /\ flag \in {"SIGINFO", "NODEFER", "RESTART"}
        /\ flag # "SIGINFO" => H!top.id = call_id /\ call_id < MAX_CALLS
    BY <2>1, <2>4 DEF FlagsInv, H!TypeOK, CallsInOrder
  <2>6. call_depth <= call_id
    BY DEF FlagsInv, NestedCalls
  <2>7. H!TypeOK'
    BY MaxCalls, <2>1, <2>3, <2>5, <2>6, <2>13 DEF FlagsInv, H!TypeOK
  <2>8. CallsInOrder'
    BY MaxCalls, <2>1, <2>3, <2>4, <2>5, <2>12, <2>13 DEF FlagsInv, H!TypeOK, CallsInOrder
  <2>9. ASSUME NEW k \in DOMAIN frames', k > 1
        PROVE  frames'[k].id = frames'[k - 1].id + 1
    <3>1. frames[k].id = frames[k - 1].id + 1
      BY <2>3, <2>9 DEF FlagsInv, NestedCalls
    <3>2. k \in 1..n /\ k - 1 \in 1..n
      <4>1. n \in Nat /\ k \in 1..n /\ k > 1
        BY <1>1, <2>3, <2>9
      <4> QED BY <4>1
    <3>3. \A l \in 1..n : frames'[l].id = frames[l].id
      BY <2>2, <2>3, <2>12
    <3> QED BY <3>1, <3>2, <3>3
  <2>10. \A k \in DOMAIN frames' : k < Len(frames') => frames'[k].begun
    BY <1>1, <2>3, <2>12 DEF FlagsInv, NestedCalls
  <2>11. NestedCalls'
    <3>1. call_depth <= call_id /\ (flag # "SIGINFO" => call_depth = n - 1)
      BY <2>4 DEF FlagsInv, NestedCalls, CallDepth
    <3>2. flag # "SIGINFO" => call_depth' = n /\ CallDepth' = n
      <4>1. CallDepth' = n
        BY <2>3, <2>4 DEF CallDepth
      <4>2. n \in Nat
        BY <1>1
      <4>3. flag # "SIGINFO" => call_depth' = call_depth + 1
        BY <2>1
      <4> HIDE DEF n
      <4> QED BY <3>1, <4>1, <4>2, <4>3
    <3>3. flag # "NODEFER" => n <= 1
      BY DEF FlagsInv, NestedCalls
    <3>4. flag = "SIGINFO" => call_id = 0 /\ call_depth = 0
      BY DEF FlagsInv, NestedCalls
    <3>5. call_depth' <= call_id'
      BY <2>1, <2>5, <3>1
    <3> QED BY <2>1, <2>3, <2>9, <2>10, <3>2, <3>3, <3>4, <3>5 DEF NestedCalls
  <2> QED BY <2>7, <2>8, <2>11 DEF FlagsInv
<1>6. CASE H!HandlerEnd
  <2> DEFINE n == Len(frames)
  <2>1. /\ frames # <<>> /\ H!top.begun
        /\ flagPending => flag # "NODEFER"
        /\ frames' = SubSeq(frames, 1, n - 1)
        /\ UNCHANGED <<flag, mainRaised, flagPending, call_id>>
        /\ call_depth' = IF flag = "SIGINFO" THEN call_depth ELSE call_depth - 1
    BY <1>6 DEF H!HandlerEnd
  <2>2. /\ n \in Nat \ {0} /\ frames' \in Seq(H!Frames)
        /\ Len(frames') = n - 1 /\ DOMAIN frames' = 1..(n - 1)
        /\ \A k \in 1..(n - 1) : frames'[k] = frames[k]
        /\ frames' = <<>> <=> n = 1
    <3>1. n \in Nat \ {0} /\ \A k \in 1..(n - 1) : frames[k] \in H!Frames
      BY <1>1, <2>1
    <3> DEFINE t == SubSeq(frames, 1, n - 1)
    <3>2. /\ t \in Seq(H!Frames)
          /\ Len(t) = IF 1 <= n - 1 THEN (n - 1) - 1 + 1 ELSE 0
          /\ \A k \in 1..((n - 1) - 1 + 1) : t[k] = frames[1 + k - 1]
      <4>1. 1 \in Int /\ n - 1 \in Int
        BY <3>1
      <4> HIDE DEF n
      <4> QED BY <3>1, <4>1, SubSeqProperties
    <3>4. frames' = t
      BY <2>1
    <3> HIDE DEF t, n
    <3>3. /\ frames' \in Seq(H!Frames) /\ Len(frames') = n - 1
          /\ \A k \in 1..(n - 1) : frames'[k] = frames[k]
      <4>1. \A k \in 1..(n - 1) : k \in 1..((n - 1) - 1 + 1) /\ 1 + k - 1 = k
        BY <3>1
      <4> QED BY <3>1, <3>2, <3>4, <4>1
    <3> QED BY <3>1, <3>3
  <2>3. TopBegun /\ TopBegun'
    BY <1>1, <2>1, <2>2 DEF TopBegun, H!top, FlagsInv, NestedCalls
  <2>4. call_depth \in Nat /\ call_id \in Nat /\ (flag # "SIGINFO" => call_depth = n)
    BY <2>3 DEF FlagsInv, H!TypeOK, NestedCalls, CallDepth
  <2>5. H!TypeOK'
    BY MaxCalls, <2>1, <2>2, <2>4 DEF FlagsInv, H!TypeOK
  <2>6. CallsInOrder'
    BY MaxCalls, <1>1, <2>1, <2>2, <2>3 DEF FlagsInv, CallsInOrder
  <2>7. \A k \in DOMAIN frames' : k > 1 => frames'[k].id = frames'[k - 1].id + 1
    BY <1>1, <2>2 DEF FlagsInv, NestedCalls
  <2>8. \A k \in DOMAIN frames' : k < Len(frames') => frames'[k].begun
    BY <1>1, <2>2 DEF FlagsInv, NestedCalls
  <2>9. NestedCalls'
    <3>1. flag # "SIGINFO" => call_depth' = n - 1 /\ CallDepth' = n - 1
      BY <2>1, <2>2, <2>3, <2>4 DEF CallDepth
    <3>2. flag # "NODEFER" => n <= 1
      BY DEF FlagsInv, NestedCalls
    <3>3. /\ flag = "SIGINFO" => call_id = 0 /\ call_depth = 0
          /\ call_depth <= call_id
      BY DEF FlagsInv, NestedCalls
    <3>4. call_depth' <= call_id'
      BY <2>1, <2>4, <3>3
    <3>5. flag # "NODEFER" => Len(frames') <= 1
      BY <2>2, <3>2
    <3> QED BY <2>1, <2>2, <2>7, <2>8, <3>1, <3>3, <3>4, <3>5 DEF NestedCalls
  <2> QED BY <2>5, <2>6, <2>9 DEF FlagsInv
<1> QED BY <1>2, <1>3, <1>4, <1>5, <1>6 DEF H!Next

LEMMA FlagsNest == FlagsInv => DepthIsNesting
<1> SUFFICES ASSUME FlagsInv PROVE H!DepthIsNesting
  BY DEF DepthIsNesting
<1> DEFINE begun == {k \in DOMAIN frames : frames[k].begun}
<1>1. Len(frames) \in Nat /\ DOMAIN frames = 1..Len(frames)
  BY DEF FlagsInv, H!TypeOK
<1>2. ASSUME flag # "SIGINFO"
      PROVE  call_depth = Cardinality(begun)
  <2>1. CallDepth \in Nat /\ begun = 1..CallDepth
    BY <1>1 DEF FlagsInv, NestedCalls, TopBegun, CallDepth, H!top
  <2>2. call_depth = CallDepth
    BY <1>2 DEF FlagsInv, NestedCalls
  <2>3. Cardinality(1..CallDepth) = CallDepth
    BY <2>1, FS_Interval
  <2> QED BY <2>1, <2>2, <2>3
<1>3. flag = "RESTART" => Len(frames) <= 1
  BY DEF FlagsInv, NestedCalls
<1>4. \A k \in DOMAIN frames : k > 1 => frames[k].id = frames[k - 1].id + 1
  BY DEF FlagsInv, NestedCalls
<1>5. flag \in {"NODEFER", "RESTART"} /\ mainRaised /\ frames = <<>> /\ ~flagPending
        => call_id = MAX_CALLS
  BY DEF FlagsInv, CallsInOrder, TopBegun
<1>6. flag # "SIGINFO" => call_depth = Cardinality(begun)
  BY <1>2
<1>7. H!Cardinality(begun) = Cardinality(begun)
  BY DEF H!Cardinality, Cardinality
<1> QED BY <1>3, <1>4, <1>5, <1>6, <1>7, Zenon DEF H!DepthIsNesting

(***************************************************************************)
(* call_depth is the number of the calls of the handler that have begun,   *)
(* each call inside of another one has the next id, with SA_RESTART no     *)
(* call is inside of another one, and none of the MAX_CALLS calls is lost  *)
(* (depth_handler, lab4/zad2/zadanie2.c:38-51), for any number of calls.   *)
(***************************************************************************)
THEOREM Nesting == ProgramsSpec => []DepthIsNesting
<1>1. ProgramsInit => FlagsInv
  BY FlagsInit DEF ProgramsInit
<1>2. FlagsInv /\ [ProgramsNext]_programs => FlagsInv'
  <2>1. FlagsInv /\ UNCHANGED flags => FlagsInv'
    BY DEF flags, FlagsInv, H!TypeOK, NestedCalls, CallsInOrder, TopBegun, CallDepth, H!top
  <2> QED BY <2>1, FlagsStep DEF ProgramsNext, programs
<1> QED BY <1>1, <1>2, FlagsNest, PTL DEF ProgramsSpec

-----------------------------------------------------------------------------
(* lab1: the table of blocks.  The blocks counted so far are 1..Counted,   *)
(* all of them stay allocated, and size has grown by one for each block    *)
(* that is in the table.                                                   *)

Counted == Cardinality(DOMAIN contents)

Held == {memory[k] : k \in B!Slots} \ {0}

TableType ==
  /\ data \in {"NULL", "table", "freed"}
  /\ capacity \in Capacities \cup {0}
  /\ memory \in [B!Slots -> 0..MaxBlocks]
  /\ loopStatus \in {"running", "done", "failed", "crashed", "undefined"}

TableInv ==
  /\ TableType
  /\ size \in Nat
  /\ contents \in [1..Counted -> FileNames] /\ Counted \in 0..MaxBlocks
  /\ heap = 1..Counted
  /\ Held \subseteq 1..Counted
  /\ \A k, l \in B!Slots : memory[k] = memory[l] /\ memory[k] # 0 => k = l
  /\ Cardinality(Held) <= size /\ size <= Counted

LEMMA BlockBounds == Capacities \subseteq Nat /\ MaxBlocks \in Nat
BY ProgramsAssumption

LEMMA HeldFinite ==
  Counted \in Nat /\ Held \subseteq 1..Counted =>
    IsFiniteSet(Held) /\ Cardinality(Held) \in Nat
<1> SUFFICES ASSUME Counted \in Nat, Held \subseteq 1..Counted
             PROVE  IsFiniteSet(Held) /\ Cardinality(Held) \in Nat
  OBVIOUS
<1>1. IsFiniteSet(1..Counted)
  BY FS_Interval
<1>2. IsFiniteSet(Held)
  BY <1>1, FS_Subset
<1> QED BY <1>2, FS_CardinalityType

LEMMA TableInit == B!Init \/ BlocksEnded => TableInv
<1> SUFFICES ASSUME B!Init \/ BlocksEnded PROVE TableInv
  OBVIOUS
<1>1. /\ data = "NULL" /\ capacity = 0 /\ size = 0
      /\ memory = [k \in {} |-> 0] /\ heap = {}
      /\ contents = [b \in {} |-> 0]
      /\ loopStatus \in {"running", "done"}
  BY DEF B!Init, BlocksEnded, B!NULL
<1>2. B!Slots = {} /\ Held = {} /\ DOMAIN contents = {}
  BY <1>1 DEF B!Slots, Held
<1>3. Counted = 0 /\ Cardinality(Held) = 0
  BY <1>2, FS_EmptySet DEF Counted
<1>4. TableType
  <2>1. memory \in [B!Slots -> 0..MaxBlocks]
    BY <1>1, <1>2
  <2> QED BY <1>1, <2>1 DEF TableType
<1> QED BY <1>1, <1>2, <1>3, <1>4, BlockBounds DEF TableInv

LEMMA TableStep == TableInv /\ B!Next => TableInv'
<1> SUFFICES ASSUME TableInv, B!Next PROVE TableInv'
  OBVIOUS
<1>1. /\ capacity \in Nat /\ B!Slots = 0..(capacity - 1)
      /\ memory \in [B!Slots -> 0..MaxBlocks]
      /\ size \in Nat /\ Counted \in Nat /\ MaxBlocks \in Nat
  BY BlockBounds DEF TableInv, TableType, B!Slots
<1>2. IsFiniteSet(Held) /\ Cardinality(Held) \in Nat
  BY HeldFinite DEF TableInv
<1>3. ASSUME UNCHANGED <<data, capacity, size, memory, heap, contents>>,
             loopStatus' \in {"running", "done", "failed", "crashed", "undefined"}
      PROVE  TableInv'
  BY <1>3 DEF TableInv, TableType, B!Slots, Held, Counted
<1>4. ASSUME UNCHANGED <<heap, contents>>, TableType',
             size' \in Nat, size' <= size, Held' \subseteq Held, Cardinality(Held') <= size',
             \A k, l \in B!Slots' : memory'[k] = memory'[l] /\ memory'[k] # 0 => k = l
      PROVE  TableInv'
  <2>1. Counted' = Counted
    BY <1>4 DEF Counted
  <2> QED BY <1>1, <1>4, <2>1 DEF TableInv
<1>5. ASSUME NEW n \in Capacities, B!initializeNewBlock(n) PROVE TableInv'
  <2>1. /\ B!Slots' = 0..(n - 1)
        /\ memory' = [k \in 0..(n - 1) |-> 0]
    BY <1>5 DEF B!initializeNewBlock, B!Slots, B!NULL
  <2>2. Held' = {} /\ Cardinality(Held') = 0
    BY <2>1, FS_EmptySet DEF Held
  <2>3. TableType'
    BY <1>1, <1>5, <2>1 DEF B!initializeNewBlock, TableInv, TableType
  <2> QED BY <1>1, <1>4, <1>5, <2>1, <2>2, <2>3 DEF B!initializeNewBlock
<1>6. ASSUME NEW file \in FileNames, B!countLinesAndWords(file) PROVE TableInv'
  <2> DEFINE block == Counted + 1
  <2> DEFINE lowest == CHOOSE k \in B!Free : \A l \in B!Free : k <= l
  <2>1. B!Cardinality(DOMAIN contents) = Counted
    BY DEF B!Cardinality, Cardinality, Counted
  <2>2. /\ Counted < MaxBlocks /\ B!Free # {}
        /\ memory' = [memory EXCEPT ![lowest] = block]
        /\ heap' = heap \cup {block}
        /\ contents' = [b \in 1..block |-> IF b = block THEN file ELSE contents[b]]
        /\ size' = size + 1
        /\ UNCHANGED <<data, capacity, loopStatus>>
    BY <1>6, <2>1 DEF B!countLinesAndWords
  <2>3. lowest \in B!Free
    <3>1. B!Free \subseteq Nat
      BY <1>1 DEF B!Free
    <3> QED BY <2>2, <3>1, LowestMember
  <2>4. PICK index : index = lowest
    OBVIOUS
  <2> HIDE DEF lowest
  <2>5. /\ index \in B!Slots /\ memory[index] = 0
        /\ memory' = [memory EXCEPT ![index] = block]
    BY <2>2, <2>3, <2>4 DEF B!Free, B!NULL
  <2>6. B!Slots' = B!Slots
    BY <2>2 DEF B!Slots
  <2>7. Counted' = block /\ contents' \in [1..block -> FileNames]
    <3>1. contents' \in [1..block -> FileNames]
      BY <1>1, <1>6, <2>2 DEF TableInv
    <3>2. Cardinality(1..block) = block
      BY <1>1, FS_Interval
    <3>3. DOMAIN contents' = 1..block
      BY <3>1
    <3> QED BY <3>1, <3>2, <3>3 DEF Counted
  <2>8. block \notin Held /\ block \in 0..MaxBlocks
    BY <1>1, <2>2 DEF TableInv
  <2>9. Held' = Held \cup {block}
    BY <1>1, <2>5, <2>6 DEF Held
  <2>10. Cardinality(Held') = Cardinality(Held) + 1
    BY <1>2, <2>8, <2>9, FS_AddElement
  <2>11. TableType'
    <3>1. memory' \in [B!Slots' -> 0..MaxBlocks]
      BY <1>1, <2>5, <2>6, <2>8
    <3> QED BY <2>2, <3>1 DEF TableInv, TableType
  <2>12. \A k, l \in B!Slots' : memory'[k] = memory'[l] /\ memory'[k] # 0 => k = l
    BY <1>1, <2>5, <2>6, <2>8 DEF TableInv, Held
  <2>13. heap' = 1..block /\ Held' \subseteq 1..block
    <3>1. 1..block = (1..Counted) \cup {block}
      BY <1>1
    <3> HIDE DEF block
    <3> QED BY <2>2, <2>9, <3>1 DEF TableInv
  <2>14. /\ size' \in Nat /\ Cardinality(Held') <= size' /\ size' <= block
    BY <1>1, <1>2, <2>2, <2>10 DEF TableInv
  <2> QED BY <2>7, <2>8, <2>11, <2>12, <2>13, <2>14 DEF TableInv
<1>7. ASSUME NEW index \in B!Indices, B!deleteBlock(index) PROVE TableInv'
  <2>1. CASE index \in B!Slots /\ memory' = [memory EXCEPT ![index] = 0]
             /\ UNCHANGED <<data, capacity, size, heap, contents, loopStatus>>
    <3>1. B!Slots' = B!Slots
      BY <2>1 DEF B!Slots
    <3>2. Held' \subseteq Held
      BY <1>1, <2>1, <3>1 DEF Held
    <3>3. Cardinality(Held') <= Cardinality(Held)
      BY <1>2, <3>2, FS_Subset
    <3>4. Cardinality(Held') <= size'
      <4>1. Cardinality(Held') \in Nat
        BY <1>2, <3>2, FS_Subset, FS_CardinalityType
      <4> QED BY <1>1, <1>2, <2>1, <3>3, <4>1 DEF TableInv
    <3>5. \A k, l \in B!Slots' : memory'[k] = memory'[l] /\ memory'[k] # 0 => k = l
      BY <1>1, <2>1, <3>1 DEF TableInv
    <3>6. TableType'
      BY <1>1, <2>1, <3>1 DEF TableInv, TableType
    <3> QED BY <1>1, <1>4, <2>1, <3>2, <3>4, <3>5, <3>6
  <2> QED BY <1>3, <1>7, <2>1 DEF B!deleteBlock, B!Stop, B!vars, B!NULL, TableInv, TableType
<1>8. CASE B!deleteDataBlock
  <2>1. B!Slots' = B!Slots /\ memory' = [k \in B!Slots |-> 0]
    BY <1>8 DEF B!deleteDataBlock, B!Slots, B!NULL
  <2>2. Held' = {} /\ Cardinality(Held') = 0
    BY <2>1, FS_EmptySet DEF Held
  <2>3. TableType'
    BY <1>1, <1>8, <2>1 DEF B!deleteDataBlock, TableInv, TableType
  <2> QED BY <1>1, <1>4, <1>8, <2>1, <2>2, <2>3 DEF B!deleteDataBlock
<1>9. CASE B!NoTable \/ B!countFails \/ B!EndOfInput
  BY <1>3, <1>9 DEF B!NoTable, B!countFails, B!EndOfInput, B!Stop
<1>10. ASSUME NEW index \in B!Indices, B!getBlock(index) PROVE TableInv'
  BY <1>3, <1>10 DEF B!getBlock, B!Stop, B!vars, TableInv, TableType
<1> QED BY <1>5, <1>6, <1>7, <1>8, <1>9, <1>10 DEF B!Next

LEMMA TableTypes == TableInv => B!TypeOK
<1> SUFFICES ASSUME TableInv PROVE B!TypeOK
  OBVIOUS
<1>1. contents \in UNION {[1..n -> FileNames] : n \in 0..MaxBlocks}
  BY DEF TableInv
<1>2. size \in 0..MaxBlocks
  BY BlockBounds DEF TableInv
<1>3. heap \subseteq DOMAIN contents
  BY DEF TableInv
<1> QED BY <1>1, <1>2, <1>3 DEF TableInv, TableType, B!TypeOK

LEMMA TableLeaks == TableInv => BlocksOnlyLeak
<1>1. B!Cardinality(Held) = Cardinality(Held)
  BY DEF B!Cardinality, Cardinality
<1> QED BY <1>1 DEF BlocksOnlyLeak, B!BlocksOnlyLeak, TableInv, Held, B!NULL

(***************************************************************************)
(* The table never points to a block that is not allocated, nor twice to   *)
(* the same one, and nothing that was allocated is ever freed              *)
(* (lab1/zad1/memoryBlock.c), for any commands on tables of any capacity.  *)
(***************************************************************************)
THEOREM OnlyLeaks == ProgramsSpec => []BlocksOnlyLeak
<1>1. ProgramsInit => TableInv
  BY TableInit DEF ProgramsInit
<1>2. TableInv /\ [ProgramsNext]_programs => TableInv'
  <2>1. TableInv /\ UNCHANGED table => TableInv'
    BY DEF table, TableInv, TableType, Counted, Held, B!Slots
  <2> QED BY <2>1, TableStep DEF ProgramsNext, programs
<1> QED BY <1>1, <1>2, TableLeaks, PTL DEF ProgramsSpec

-----------------------------------------------------------------------------
(* lab4/zad1: what SIGUSR1 finds when it is raised.  A process installs    *)
(* its disposition before it raises, also the executed program, in which   *)
(* the handler had become the default; and the child, which starts without *)
(* pending signals, does not exist before the parent has reported its own. *)

InheritInv ==
  /\ command \in I!Commands /\ function \in I!Functions
  /\ inheritPc \in [I!Processes -> {"none", "main", "install", "block", "raise",
                      "report", "fork", "exec", "wait", "exit", "done", "killed"}]
  /\ disposition \in [I!Processes -> {"default", "ignore", "handler"}]
  /\ blocked \in [I!Processes -> BOOLEAN]
  /\ inheritPending \in [I!Processes -> BOOLEAN]
  /\ \A p \in I!Processes : inheritPc[p] # "killed" /\ (inheritPending[p] => blocked[p])
  /\ \A p \in I!Processes : inheritPc[p] \in {"block", "raise"} => disposition[p] # "default"
  /\ inheritPc["child"] # "none" => inheritPc["parent"] \in {"wait", "exit", "done"}
  /\ inheritPc["child"] = "none" => ~inheritPending["child"]

LEMMA InheritInit == I!Init \/ InheritanceEnded => InheritInv
<1> USE DEF I!Processes, I!Commands, I!Functions
<1> SUFFICES ASSUME I!Init \/ InheritanceEnded PROVE InheritInv
  OBVIOUS
<1>1. blocked \in [I!Processes -> BOOLEAN] /\ inheritPending \in [I!Processes -> BOOLEAN]
  BY DEF I!Init, InheritanceEnded
<1>2. /\ inheritPc \in [I!Processes -> {"main", "none", "done"}]
      /\ inheritPc["child"] = "none"
      /\ disposition = [p \in I!Processes |-> "default"]
      /\ inheritPending = [p \in I!Processes |-> FALSE]
  BY DEF I!Init, InheritanceEnded
<1>3. command \in I!Commands /\ function \in I!Functions
  BY DEF I!Init, InheritanceEnded
<1> QED BY <1>1, <1>2, <1>3 DEF InheritInv

LEMMA InheritStep == InheritInv /\ I!Next => InheritInv'
<1> USE DEF I!Processes, I!Commands, I!Functions, I!parameters
<1> SUFFICES ASSUME InheritInv, I!Next PROVE InheritInv'
  OBVIOUS
<1>1. CASE I!Fork
  BY <1>1 DEF InheritInv, I!Fork
<1>2. CASE I!ForkFails \/ I!Wait \/ I!ExecNot
  BY <1>2 DEF InheritInv, I!ForkFails, I!Wait, I!ExecNot
<1>3. CASE I!Exec
  BY <1>3 DEF InheritInv, I!Exec
<1>4. ASSUME NEW p \in I!Processes, I!Main(p) PROVE InheritInv'
  BY <1>4 DEF InheritInv, I!Main
<1>5. ASSUME NEW p \in I!Processes, I!Install(p) PROVE InheritInv'
  BY <1>5 DEF InheritInv, I!Install
<1>6. ASSUME NEW p \in I!Processes, I!Block(p) PROVE InheritInv'
  BY <1>6 DEF InheritInv, I!Block
<1>7. ASSUME NEW p \in I!Processes, I!raise_signal(p) PROVE InheritInv'
  BY <1>7 DEF InheritInv, I!raise_signal
<1>8. ASSUME NEW p \in I!Processes, I!print_is_pending(p) PROVE InheritInv'
  BY <1>8 DEF InheritInv, I!print_is_pending
<1>9. ASSUME NEW p \in I!Processes, I!Exit(p) PROVE InheritInv'
  BY <1>9 DEF InheritInv, I!Exit
<1> QED BY <1>1, <1>2, <1>3, <1>4, <1>5, <1>6, <1>7, <1>8, <1>9 DEF I!Next

LEMMA InheritSurvives == InheritInv => SurvivesSignal
BY DEF InheritInv, SurvivesSignal, I!SurvivesSignal

(***************************************************************************)
(* No process is ended by the signal it raises: a signal stays pending     *)
(* only where it is blocked, also over fork and exec                       *)
(* (lab4/zad1/zadanie1.c), for every command and function.                 *)
(***************************************************************************)
THEOREM Survives == ProgramsSpec => []SurvivesSignal
<1>1. ProgramsInit => InheritInv
  BY InheritInit DEF ProgramsInit
<1>2. InheritInv /\ [ProgramsNext]_programs => InheritInv'
  <2>1. InheritInv /\ UNCHANGED inherit => InheritInv'
    BY DEF inherit, InheritInv
  <2> QED BY <2>1, InheritStep DEF ProgramsNext, programs
<1> QED BY <1>1, <1>2, InheritSurvives, PTL DEF ProgramsSpec

-----------------------------------------------------------------------------
(* lab5/zad2: how split_array splits the interval.                         *)

(* Division by a positive number, and the bounds it gives.                 *)
LEMMA Division ==
  ASSUME NEW d \in Nat \ {0}, NEW n \in Nat
  PROVE  /\ n \div d \in Nat /\ n % d \in 0..(d - 1)
         /\ n = d * (n \div d) + (n % d)
OBVIOUS

LEMMA Multiples ==
  ASSUME NEW d \in Nat \ {0}, NEW a \in Int, NEW b \in Int, a < b
  PROVE  d * a + d <= d * b
<1>1. b - a - 1 \in Nat /\ d * (b - a - 1) \in Nat
  OBVIOUS
<1>2. d * b = d * a + d + d * (b - a - 1)
  BY <1>1
<1>3. d * a \in Int /\ d * b \in Int
  OBVIOUS
<1> QED BY <1>1, <1>2, <1>3

\* A quotient is the only number between its bounds.
LEMMA QuotientIs ==
  ASSUME NEW d \in Nat \ {0}, NEW n \in Nat, NEW q \in Int,
         d * q <= n, n < d * q + d
  PROVE  n \div d = q
<1> DEFINE m == n \div d
<1>1. m \in Nat /\ d * m <= n /\ n < d * m + d
  BY Division
<1>2. d * m \in Int /\ d * q \in Int
  BY <1>1
<1> HIDE DEF m
<1>3. ~(m < q)
  BY <1>1, <1>2, Multiples
<1>4. ~(q < m)
  BY <1>1, <1>2, Multiples
<1> QED BY <1>1, <1>3, <1>4 DEF m

(* From a point k that is not beyond the end of part j the next point is   *)
(* not before k nor beyond the end of part j + 1; and the last point is    *)
(* the last block's end, or one block before it.                           *)
LEMMA NextPoint ==
  ASSUME NEW n \in Nat \ {0}, NEW w \in Nat \ {0}, NEW j \in 0..(n - 1),
         NEW k \in Nat, NEW l \in Nat,
         n * w * k <= j * One,
         l - k \in P!PartSizes(n, w, j, k)
  PROVE  /\ k <= l
         /\ n * w * l <= (j + 1) * One
         /\ j = n - 1 => l \in {(One \div w) - 1, One \div w}
<1> DEFINE d == n * w
           left == (j + 1) * One - n * k * w
           s == left \div d
<1>1. One \in Nat \ {0}
  BY ProgramsAssumption
<1>2. d \in Nat \ {0} /\ d * k \in Nat /\ n * k * w = d * k
  <2>1. n * w \in Nat \ {0}
    OBVIOUS
  <2>2. n * k * w = n * w * k
    OBVIOUS
  <2>3. n * w * k \in Nat
    BY <2>1
  <2> QED BY <2>1, <2>2, <2>3
<1>3. left \in Nat /\ left = (j + 1) * One - d * k
  <2>1. j * One \in Nat /\ (j + 1) * One = j * One + One
    BY <1>1
  <2> HIDE DEF d
  <2> QED BY <1>1, <1>2, <2>1 DEF d
<1>4. l - k \in {s - 1, s} /\ (l - k = s - 1 => s > 0)
  BY DEF P!PartSizes
<1> HIDE DEF d, left
<1>5. s \in Nat /\ d * s <= left /\ left < d * s + d /\ d * s \in Nat
  <2>1. /\ s \in Nat /\ left % d \in 0..(d - 1)
        /\ left = d * s + (left % d)
    BY <1>2, <1>3, Division
  <2> HIDE DEF s
  <2>2. d * s \in Nat
    BY <1>2, <2>1
  <2> QED BY <1>2, <1>3, <2>1, <2>2
<1> HIDE DEF s
<1>6. k <= l /\ l <= s + k /\ l >= s + k - 1
  BY <1>4, <1>5
<1>7. d * l <= (j + 1) * One
  <2>1. d * (l - k) <= d * s /\ d * (l - k) \in Int
    BY <1>2, <1>4, <1>5, <1>6
  <2>2. d * (l - k) = d * l - d * k /\ d * l \in Int
    BY <1>2
  <2>3. (j + 1) * One \in Int
    BY <1>1
  <2> QED BY <1>2, <1>3, <1>5, <2>1, <2>2, <2>3
<1>8. ASSUME j = n - 1 PROVE One \div w = s + k
  <2> DEFINE q == s + k
  <2>1. q \in Nat /\ d * q = d * s + d * k
    BY <1>2, <1>5
  <2>2. left = n * One - d * k /\ n * One \in Nat
    BY <1>1, <1>3, <1>8
  <2>3. d * q <= n * One /\ n * One < d * q + d
    BY <1>2, <1>5, <2>1, <2>2
  <2> HIDE DEF q
  <2>4. d * q = n * (w * q) /\ d * q + d = n * (w * q + w)
    BY <2>1 DEF d
  <2>5. w * q \in Nat
    BY <2>1
  <2>6. d * q \in Int /\ d \in Int
    BY <1>2, <2>1
  <2>7. w * q <= One
    <3> SUFFICES ASSUME One < w * q PROVE FALSE
      BY <1>1, <2>5
    <3>1. n * One + n <= n * (w * q)
      BY <1>1, <2>5, Multiples
    <3>2. n * One + n <= d * q
      BY <2>4, <3>1, Zenon
    <3> QED BY <2>2, <2>3, <2>6, <3>2
  <2>8. One < w * q + w
    <3> SUFFICES ASSUME w * q + w <= One PROVE FALSE
      BY <1>1, <2>5
    <3>1. n * (w * q + w) <= n * One
      <4>1. CASE w * q + w = One
        BY <4>1, <2>2
      <4>2. CASE w * q + w < One
        <5> DEFINE e == w * q + w
        <5>1. e \in Int
          BY <2>5
        <5> HIDE DEF e
        <5>2. n * e + n <= n * One
          BY <1>1, <4>2, <5>1, Multiples DEF e
        <5>3. n * e \in Int
          BY <5>1
        <5> QED BY <2>2, <5>2, <5>3 DEF e
      <4> QED BY <1>1, <2>5, <4>1, <4>2
    <3>2. d * q + d <= n * One
      BY <2>4, <3>1, Zenon
    <3> QED BY <2>2, <2>3, <2>6, <3>2
  <2> QED BY <1>1, <2>1, <2>7, <2>8, QuotientIs DEF q
<1> QED BY <1>5, <1>6, <1>7, <1>8 DEF d

LEMMA SplitArray ==
  ASSUME NEW n \in Nat \ {0}, NEW w \in Nat \ {0}, NEW r \in P!split_array(n, w)
  PROVE  /\ r[0] = 0
         /\ \A j, k \in 0..n : j <= k => r[j] <= r[k]
         /\ r[n] \in {(One \div w) - 1, One \div w}
<1>1. /\ One \div w \in Nat /\ One \in Nat
  BY ProgramsAssumption, Division
<1>2. /\ r \in [0..n -> 0..(One \div w)] /\ r[0] = 0
      /\ \A j \in 0..(n - 1) : r[j + 1] - r[j] \in P!PartSizes(n, w, j, r[j])
  BY DEF P!split_array
<1>3. \A j \in 0..n : r[j] \in Nat
  BY <1>1, <1>2
<1>4. \A j \in 0..(n - 1) : j + 1 \in 0..n /\ j \in 0..n
  OBVIOUS
<1> DEFINE Within == {j \in 0..n : n * w * r[j] <= j * One}
<1>5. 0 \in Within
  BY <1>1, <1>2
<1>6. ASSUME NEW j \in 0..(n - 1), j \in Within PROVE j + 1 \in Within
  BY <1>2, <1>3, <1>4, <1>6, NextPoint
<1>7. 0..n \subseteq Within
  <2> HIDE DEF Within
  <2> QED BY <1>5, <1>6, InductionUpTo
<1>8. ASSUME NEW j \in 0..(n - 1)
      PROVE  /\ r[j] <= r[j + 1]
             /\ j = n - 1 => r[j + 1] \in {(One \div w) - 1, One \div w}
  <2>1. n * w * r[j] <= j * One
    BY <1>4, <1>7
  <2> QED BY <1>2, <1>3, <1>4, <2>1, NextPoint
<1>9. r[n] \in {(One \div w) - 1, One \div w}
  <2>1. n - 1 \in 0..(n - 1) /\ (n - 1) + 1 = n
    OBVIOUS
  <2> QED BY <1>8, <2>1
<1>10. ASSUME NEW j \in 0..n, NEW k \in 0..n, j <= k PROVE r[j] <= r[k]
  <2> DEFINE Above == {m \in 0..n : j <= m => r[j] <= r[m]}
  <2>1. 0 \in Above
    BY <1>3
  <2>2. ASSUME NEW m \in 0..(n - 1), m \in Above PROVE m + 1 \in Above
    <3>1. CASE j <= m
      BY <1>3, <1>4, <1>8, <2>2, <3>1
    <3>2. CASE ~(j <= m)
      BY <1>3, <1>4, <3>2
    <3> QED BY <3>1, <3>2
  <2>3. 0..n \subseteq Above
    <3> HIDE DEF Above
    <3> QED BY <2>1, <2>2, InductionUpTo
  <2> QED BY <1>10, <2>3
<1> QED BY <1>2, <1>9, <1>10

(* The parent has added one result for each child before i, and out is the *)
(* last of them.  The points of the interval never move.                   *)

N == P!number_of_children

PipeSplit ==
  /\ P!Blocks \in Nat
  /\ N \in Nat \ {0} /\ range \in [0..N -> Nat]
  /\ range[0] = 0
  /\ \A j, k \in 0..N : j <= k => range[j] <= range[k]
  /\ pipeStatus # "failed" => range[N] \in {P!Blocks - 1, P!Blocks}

PipeType ==
  /\ pipeStatus \in {"pipe", "fork", "child", "read", "done", "failed"}
  /\ i \in 0..N /\ unpiped \subseteq 0..i
  /\ results \in Seq(SUBSET Int) /\ added \in Seq(SUBSET Int)
  /\ pipeStatus \in {"fork", "child", "read"} => i < N
  /\ pipeStatus = "done" => i = N
  /\ pipeStatus \in {"pipe", "done"} => i \notin unpiped

PipeResults ==
  /\ Len(results) = IF pipeStatus = "read" THEN i + 1 ELSE i
  /\ \A k \in 1..Len(results) : results[k] \in P!calculate(range[k - 1], range[k])
  /\ pipeBuffer = IF pipeStatus = "read" /\ i \notin unpiped THEN <<results[i + 1]>>
                                                             ELSE <<>>

PipeAdded ==
  /\ Len(added) = i
  /\ out = IF i = 0 THEN P!Uninitialized ELSE added[i]
  /\ \A k \in 1..i :
       added[k] = IF k - 1 \notin unpiped THEN results[k]
                  ELSE IF k = 1 THEN P!Uninitialized ELSE added[k - 1]

PipeInv == PipeSplit /\ PipeType /\ PipeResults /\ PipeAdded

LEMMA PipeConstants ==
  /\ One \in Nat \ {0}
  /\ Children \subseteq Nat \ {0} /\ Children # {}
  /\ \A w \in Widths : w \in Nat \ {0}
BY ProgramsAssumption

LEMMA PointsAreChildren ==
  ASSUME NEW n \in Nat, DOMAIN range = 0..n
  PROVE  N = n
<1>1. P!Cardinality(DOMAIN range) = Cardinality(DOMAIN range)
  BY DEF P!Cardinality, Cardinality
<1>2. Cardinality(0..n) = n + 1
  BY FS_Interval
<1> QED BY <1>1, <1>2 DEF N, P!number_of_children

LEMMA PipeInit == P!Init \/ PipeEnded => PipeInv
<1> SUFFICES ASSUME P!Init \/ PipeEnded PROVE PipeInv
  OBVIOUS
<1>1. /\ i = 0 /\ pipeStatus \in {"pipe", "failed"} /\ unpiped = {}
      /\ pipeBuffer = <<>> /\ results = <<>> /\ added = <<>>
  BY DEF P!Init, PipeEnded
<1>2. PipeSplit
  <2>1. CASE P!Init
    <3>1. PICK n \in Children : range \in P!split_array(n, width)
      BY <2>1 DEF P!Init
    <3>2. n \in Nat \ {0} /\ width \in Nat \ {0} /\ pipeStatus = "pipe"
      BY <2>1, PipeConstants DEF P!Init
    <3>3. range \in [0..n -> 0..(One \div width)]
      BY <3>1 DEF P!split_array
    <3>4. N = n
      BY <3>2, <3>3, PointsAreChildren
    <3>5. One \div width \in Nat
      BY <3>2, PipeConstants, Division
    <3>6. range \in [0..n -> Nat]
      BY <3>3, <3>5
    <3>7. /\ range[0] = 0
          /\ \A j, k \in 0..n : j <= k => range[j] <= range[k]
          /\ range[n] \in {(One \div width) - 1, One \div width}
      BY <3>1, <3>2, SplitArray
    <3> QED BY <3>2, <3>4, <3>5, <3>6, <3>7 DEF PipeSplit, P!Blocks
  <2>2. CASE PipeEnded
    <3>1. PICK n \in Nat \ {0} : n = (CHOOSE m \in Children : TRUE)
      BY PipeConstants
    <3>2. /\ DOMAIN range = 0..n /\ range \in [0..n -> Nat] /\ pipeStatus = "failed"
          /\ \A k \in 0..n : range[k] = 0
      BY <2>2, <3>1 DEF PipeEnded
    <3>3. N = n
      BY <3>2, PointsAreChildren
    <3>4. P!Blocks \in Nat
      BY <2>2, PipeConstants, Division DEF PipeEnded, P!Blocks
    <3> QED BY <3>1, <3>2, <3>3, <3>4 DEF PipeSplit
  <2> QED BY <2>1, <2>2
<1>3. PipeType
  BY <1>1, <1>2 DEF PipeType, PipeSplit
<1>4. PipeResults
  BY <1>1 DEF PipeResults
<1>5. PipeAdded
  <2>1. out = P!Uninitialized
    BY DEF P!Init, PipeEnded
  <2> QED BY <1>1, <2>1 DEF PipeAdded
<1> QED BY <1>2, <1>3, <1>4, <1>5 DEF PipeInv

LEMMA PipeStep == PipeInv /\ P!Next => PipeInv'
<1> SUFFICES ASSUME PipeInv, P!Next PROVE PipeInv'
  OBVIOUS
<1>1. width' = width /\ range' = range /\ N' = N
  <2>1. UNCHANGED <<width, range>>
    BY DEF P!Next, P!Pipe, P!Fork, P!ForkFails, P!Child, P!Read, P!Return, P!parameters
  <2> QED BY <2>1 DEF N, P!number_of_children
<1>2. N \in Nat /\ i \in Nat /\ i <= N
  BY DEF PipeInv, PipeSplit, PipeType
<1>3. PipeSplit'
  <2>1. pipeStatus' # "failed" => pipeStatus # "failed"
    BY DEF P!Next, P!Pipe, P!Fork, P!ForkFails, P!Child, P!Read, P!Return
  <2>2. P!Blocks' = P!Blocks
    BY <1>1 DEF P!Blocks
  <2> QED BY <1>1, <2>1, <2>2 DEF PipeInv, PipeSplit
<1>4. CASE P!Pipe
  <2>1. /\ pipeStatus = "pipe" /\ pipeStatus' = "fork" /\ i < N
        /\ unpiped' \in {unpiped, unpiped \cup {i}}
        /\ UNCHANGED <<i, pipeBuffer, out, results, added>>
    BY <1>4 DEF P!Pipe, N
  <2>2. PipeType'
    BY <1>1, <1>2, <2>1 DEF PipeInv, PipeType
  <2>3. PipeResults'
    BY <1>1, <2>1 DEF PipeInv, PipeResults
  <2>4. \A k \in 1..i : k - 1 \in unpiped' <=> k - 1 \in unpiped
    BY <1>2, <2>1
  <2>5. PipeAdded'
    BY <2>1, <2>4 DEF PipeInv, PipeAdded, P!Uninitialized
  <2> QED BY <1>3, <2>2, <2>3, <2>5 DEF PipeInv
<1>5. CASE P!Fork \/ P!ForkFails \/ P!Return
  <2>1. /\ pipeStatus' \in {"child", "failed", "done"} /\ pipeStatus \in {"fork", "pipe"}
        /\ pipeStatus' = "child" => pipeStatus = "fork"
        /\ pipeStatus' = "done" => i = N /\ pipeStatus = "pipe"
        /\ UNCHANGED <<i, unpiped, pipeBuffer, out, results, added>>
    BY <1>5 DEF P!Fork, P!ForkFails, P!Return, N
  <2>2. PipeType'
    BY <1>1, <1>2, <2>1 DEF PipeInv, PipeType
  <2>3. PipeResults'
    BY <1>1, <2>1 DEF PipeInv, PipeResults
  <2>4. PipeAdded'
    BY <2>1 DEF PipeInv, PipeAdded, P!Uninitialized
  <2> QED BY <1>3, <2>2, <2>3, <2>4 DEF PipeInv
<1>6. CASE P!Child
  <2>1. PICK result \in P!calculate(range[i], range[i + 1]) :
          /\ results' = Append(results, result)
          /\ pipeBuffer' = IF i \in unpiped THEN <<>> ELSE <<result>>
    BY <1>6 DEF P!Child
  <2>2. /\ pipeStatus = "child" /\ pipeStatus' = "read"
        /\ UNCHANGED <<i, unpiped, out, added>>
    BY <1>6 DEF P!Child
  <2>3. /\ range[i] \in Int /\ range[i + 1] \in Int
    BY <1>2, <2>2 DEF PipeInv, PipeSplit, PipeType
  <2>4. result \in SUBSET Int
    BY <2>1, <2>3 DEF P!calculate
  <2>5. results \in Seq(SUBSET Int) /\ Len(results) = i
    BY <2>2 DEF PipeInv, PipeType, PipeResults
  <2>6. /\ results' \in Seq(SUBSET Int) /\ Len(results') = i + 1
        /\ \A k \in 1..i : results'[k] = results[k]
        /\ results'[i + 1] = result
    BY <2>1, <2>4, <2>5
  <2>7. PipeType'
    BY <1>1, <2>2, <2>6 DEF PipeInv, PipeType
  <2>8. PipeResults'
    <3>1. \A k \in 1..(i + 1) : results'[k] \in P!calculate(range[k - 1], range[k])
      <4>1. ASSUME NEW k \in 1..i
            PROVE  results'[k] \in P!calculate(range[k - 1], range[k])
        BY <2>5, <2>6 DEF PipeInv, PipeResults
      <4>2. results'[i + 1] \in P!calculate(range[(i + 1) - 1], range[i + 1])
        BY <1>2, <2>1, <2>6
      <4> QED BY <1>2, <4>1, <4>2
    <3>2. Len(results') = IF pipeStatus' = "read" THEN i' + 1 ELSE i'
      BY <2>2, <2>6
    <3>3. pipeBuffer' = IF pipeStatus' = "read" /\ i' \notin unpiped'
                          THEN <<results'[i' + 1]>> ELSE <<>>
      BY <2>1, <2>2, <2>6
    <3>4. \A k \in 1..Len(results') :
            results'[k] \in P!calculate(range'[k - 1], range'[k])
      BY <1>1, <2>6, <3>1 DEF P!calculate
    <3> QED BY <3>2, <3>3, <3>4 DEF PipeResults, P!calculate
  <2>9. PipeAdded'
    BY <2>2, <2>6 DEF PipeInv, PipeAdded, P!Uninitialized
  <2> QED BY <1>3, <2>7, <2>8, <2>9 DEF PipeInv
<1>7. CASE P!Read
  <2>1. /\ pipeStatus = "read" /\ pipeStatus' = "pipe" /\ i' = i + 1
        /\ out' = IF pipeBuffer = <<>> THEN out ELSE pipeBuffer[1]
        /\ added' = Append(added, out')
        /\ pipeBuffer' = <<>>
        /\ UNCHANGED <<unpiped, results>>
    BY <1>7 DEF P!Read
  <2>2. i < N /\ unpiped \subseteq 0..i /\ added \in Seq(SUBSET Int) /\ Len(added) = i
    BY <2>1 DEF PipeInv, PipeType, PipeAdded
  <2>3. results \in Seq(SUBSET Int) /\ Len(results) = i + 1
    BY <2>1 DEF PipeInv, PipeType, PipeResults
  <2>4. out' = IF i \in unpiped THEN out ELSE results[i + 1]
    BY <2>1 DEF PipeInv, PipeResults
  <2>5. out' = IF i \notin unpiped THEN results[i + 1]
               ELSE IF i = 0 THEN P!Uninitialized ELSE added[i]
    BY <2>4 DEF PipeInv, PipeAdded
  <2>6. out' \in SUBSET Int
    <3>1. P!Uninitialized \in SUBSET Int
      BY DEF P!Uninitialized
    <3>2. results[i + 1] \in SUBSET Int /\ (i # 0 => added[i] \in SUBSET Int)
      BY <1>2, <2>2, <2>3
    <3> QED BY <2>5, <3>1, <3>2
  <2>7. /\ added' \in Seq(SUBSET Int) /\ Len(added') = i + 1
        /\ \A k \in 1..i : added'[k] = added[k]
        /\ added'[i + 1] = out'
    BY <2>1, <2>2, <2>6
  <2>8. PipeType'
    BY <1>1, <1>2, <2>1, <2>2, <2>7 DEF PipeInv, PipeType
  <2>9. PipeResults'
    BY <1>1, <2>1, <2>3 DEF PipeInv, PipeResults
  <2>10. PipeAdded'
    <3>1. ASSUME NEW k \in 1..i
          PROVE  added'[k] = IF k - 1 \notin unpiped THEN results[k]
                             ELSE IF k = 1 THEN P!Uninitialized ELSE added'[k - 1]
      <4>1. k - 1 \in 1..i \/ k = 1
        BY <1>2
      <4> QED BY <2>7, <4>1 DEF PipeInv, PipeAdded
    <3>2. added'[i + 1] = IF (i + 1) - 1 \notin unpiped THEN results[i + 1]
                          ELSE IF i + 1 = 1 THEN P!Uninitialized ELSE added'[(i + 1) - 1]
      BY <1>2, <2>5, <2>7
    <3>3. \A k \in 1..(i + 1) :
            added'[k] = IF k - 1 \notin unpiped THEN results[k]
                        ELSE IF k = 1 THEN P!Uninitialized ELSE added'[k - 1]
      BY <1>2, <3>1, <3>2
    <3>4. out' = added'[i'] /\ i' # 0 /\ Len(added') = i'
      BY <1>2, <2>1, <2>7
    <3> QED BY <2>1, <3>3, <3>4 DEF PipeAdded, P!Uninitialized
  <2> QED BY <1>3, <2>8, <2>9, <2>10 DEF PipeInv
<1> QED BY <1>4, <1>5, <1>6, <1>7 DEF P!Next

LEMMA PipeCounts == PipeInv => BlocksCountedOnce
<1> SUFFICES ASSUME PipeInv PROVE P!BlocksCountedOnce
  BY DEF BlocksCountedOnce
<1> DEFINE ends == {range[j] - 1 : j \in DOMAIN range} \cup {P!Blocks - 1}
<1>1. /\ N \in Nat \ {0} /\ range \in [0..N -> Nat] /\ DOMAIN range = 0..N
      /\ i \in 0..N /\ DOMAIN added = 1..i /\ i <= Len(results)
  BY DEF PipeInv, PipeSplit, PipeType, PipeResults, PipeAdded
<1>2. \A k \in DOMAIN added :
        added[k] = IF k - 1 \notin unpiped THEN results[k]
                   ELSE IF k = 1 THEN P!Uninitialized ELSE added[k - 1]
  BY <1>1 DEF PipeInv, PipeAdded
<1>3. ASSUME unpiped = {}, NEW b \in 0..(P!Blocks - 1)
      PROVE  /\ P!Times(b) <= 1
             /\ pipeStatus = "done" /\ P!Times(b) = 0 => b \in ends
  <2> DEFINE In == {k \in DOMAIN added : b \in added[k]}
  <2>1. \A k \in 1..i : /\ k - 1 \in 0..N /\ k \in 0..N
                        /\ added[k] \in P!calculate(range[k - 1], range[k])
    <3>1. \A k \in 1..i : added[k] = results[k]
      BY <1>1, <1>2, <1>3
    <3>2. \A k \in 1..i : results[k] \in P!calculate(range[k - 1], range[k])
      BY <1>1 DEF PipeInv, PipeResults
    <3>3. \A k \in 1..i : k - 1 \in 0..N /\ k \in 0..N
      BY <1>1
    <3> QED BY <3>1, <3>2, <3>3
  <2>2. \A k \in In : k \in 1..i /\ range[k - 1] <= b /\ b < range[k]
    <3> SUFFICES ASSUME NEW k \in In PROVE range[k - 1] <= b /\ b < range[k]
      BY <1>1
    <3>1. added[k] \in P!calculate(range[k - 1], range[k]) /\ b \in added[k]
      BY <1>1, <2>1
    <3>2. range[k - 1] \in Int /\ range[k] \in Int
      BY <1>1, <2>1
    <3>3. b \in range[k - 1]..(range[k] - 1)
      BY <3>1, <3>2 DEF P!calculate
    <3> QED BY <3>2, <3>3
  <2>3. \A k, l \in In : k = l
    <3> SUFFICES ASSUME NEW k \in In, NEW l \in In, k < l PROVE FALSE
      BY <1>1, <2>2
    <3> HIDE DEF In
    <3>1. /\ k \in 0..N /\ l - 1 \in 0..N /\ k <= l - 1
      BY <1>1, <2>2
    <3>2. range[k] <= range[l - 1]
      BY <3>1 DEF PipeInv, PipeSplit
    <3>3. b < range[k] /\ range[l - 1] <= b /\ b \in Int
      BY <2>2
    <3>4. range[k] \in Int /\ range[l - 1] \in Int
      BY <1>1, <3>1
    <3> QED BY <3>2, <3>3, <3>4
  <2>4. P!Times(b) = Cardinality(In)
    <3>1. P!Cardinality(In) = Cardinality(In)
      BY DEF P!Cardinality, Cardinality
    <3> QED BY <3>1, Zenon DEF P!Times
  <2>5. CASE In = {}
    <3>1. Cardinality(In) = 0
      BY <2>5, FS_EmptySet
    <3>2. ASSUME pipeStatus = "done" PROVE b \in ends
      <4>1. i = N /\ range[0] = 0 /\ range[N] \in {P!Blocks - 1, P!Blocks}
        BY <3>2 DEF PipeInv, PipeType, PipeSplit
      <4>2. b \in Nat /\ b < P!Blocks /\ P!Blocks \in Int
        BY DEF PipeInv, PipeSplit
      <4>3. CASE range[N] <= b
        BY <1>1, <4>1, <4>2, <4>3
      <4>4. CASE b < range[N]
        <5> DEFINE Beyond == {k \in 0..N : b < range[k]}
        <5>1. N \in Beyond /\ Beyond \in SUBSET Nat
          BY <1>1, <4>4
        <5> HIDE DEF Beyond
        <5>2. PICK k \in Beyond : \A l \in Beyond : k <= l
          BY <5>1, LowestExists
        <5> USE DEF Beyond
        <5>3. k \in 1..N /\ k - 1 \in 0..N /\ range[k - 1] <= b /\ b < range[k]
          <6>1. k \in 0..N /\ b < range[k] /\ k # 0
            BY <4>1, <4>2, <5>2
          <6>2. k - 1 \in 0..N /\ k - 1 \notin Beyond
            BY <1>1, <5>2, <6>1
          <6>3. range[k - 1] \in Nat
            BY <1>1, <6>2
          <6> QED BY <1>1, <4>2, <6>1, <6>2, <6>3
        <5>4. b \notin added[k]
          BY <1>1, <2>5, <4>1, <5>3
        <5>5. added[k] \in P!calculate(range[k - 1], range[k])
          BY <2>1, <4>1, <5>3
        <5>6. range[k - 1] \in Int /\ range[k] \in Int
          BY <1>1, <5>3
        <5>7. b = range[k] - 1
          BY <4>2, <5>3, <5>4, <5>5, <5>6 DEF P!calculate
        <5> QED BY <1>1, <5>3, <5>7
      <4> QED BY <1>1, <4>1, <4>2, <4>3, <4>4
    <3> QED BY <2>4, <3>1, <3>2
  <2>6. CASE In # {}
    <3>1. PICK k : In = {k}
      BY <2>3, <2>6
    <3>2. Cardinality(In) = 1
      BY <3>1, FS_Singleton
    <3> QED BY <2>4, <3>2
  <2> QED BY <2>5, <2>6
<1> QED BY <1>2, <1>3 DEF P!BlocksCountedOnce

(***************************************************************************)
(* The parent adds for each child what it has computed, or, for a child    *)
(* without a pipe, once more what it has read last; and where all have     *)
(* their pipes, no block is counted twice and none is missed but at the    *)
(* end of a part (split_array, calculate and main of lab5/zad2/program.c), *)
(* for any interval, any width of a block and any number of children,      *)
(* however the quotients are rounded.                                      *)
(***************************************************************************)
THEOREM CountedOnce == ProgramsSpec => []BlocksCountedOnce
<1>1. ProgramsInit => PipeInv
  BY PipeInit DEF ProgramsInit
<1>2. PipeInv /\ [ProgramsNext]_programs => PipeInv'
  <2>1. PipeInv /\ UNCHANGED pipe => PipeInv'
    BY DEF pipe, PipeInv, PipeSplit, PipeType, PipeResults, PipeAdded, N, P!number_of_children, P!Blocks
  <2> QED BY <2>1, PipeStep DEF ProgramsNext, programs
<1> QED BY <1>1, <1>2, PipeCounts, PTL DEF ProgramsSpec

-----------------------------------------------------------------------------
(* lab5/zad3: the processes and the results.  A process has a name of its  *)
(* own, since a loop that goes on after a failed execl is past the passes  *)
(* at which its process and its ancestors were forked.                     *)

LEMMA FifoConstants ==
  /\ Parts \in Nat \ {0}
  /\ Sizes \subseteq (Nat \ {0}) \X (Nat \ {0}) /\ (CHOOSE s \in Sizes : TRUE) \in Sizes
BY ProgramsAssumption

(* The part of a process is the last pass in its name.                     *)
LEMMA PartIsLast ==
  ASSUME NEW p \in F!Processes, p # {}
  PROVE  F!Part(p) \in p /\ F!Part(p) \in 0..(Parts - 1)
<1>1. p \subseteq 0..(Parts - 1) /\ Parts \in Nat
  BY FifoConstants DEF F!Processes
<1> DEFINE S == {k \in Nat : Parts - k \in p}
<1>2. S \in SUBSET Nat /\ S # {}
  <2>1. PICK e \in p : TRUE
    OBVIOUS
  <2>2. Parts - e \in S
    BY <1>1, <2>1
  <2> QED BY <2>2
<1>3. PICK k \in S : \A l \in S : k <= l
  <2> HIDE DEF S
  <2> QED BY <1>2, LowestExists
<1>4. \A e \in p : Parts - k >= e
  <2> SUFFICES ASSUME NEW e \in p PROVE Parts - k >= e
    OBVIOUS
  <2>1. Parts - e \in S
    BY <1>1
  <2> QED BY <1>1, <1>3, <2>1
<1>5. Parts - k \in p
  BY <1>3
<1> HIDE DEF S
<1>6. \E x \in p : \A y \in p : x >= y
  BY <1>4, <1>5
<1> QED BY <1>1, <1>6 DEF F!Part, F!Max

LEMMA LowerOfTwo ==
  ASSUME NEW a \in Nat, NEW b \in Nat
  PROVE  F!Min({a, b}) = IF a <= b THEN a ELSE b
<1>1. CASE a <= b
  <2>1. \A x \in {a, b} : (\A y \in {a, b} : x <= y) => x = a
    BY <1>1
  <2>2. a \in {a, b} /\ \A y \in {a, b} : a <= y
    BY <1>1
  <2> QED BY <1>1, <2>1, <2>2 DEF F!Min
<1>2. CASE b < a
  <2>1. \A x \in {a, b} : (\A y \in {a, b} : x <= y) => x = b
    BY <1>2
  <2>2. b \in {a, b} /\ \A y \in {a, b} : b <= y
    BY <1>2
  <2> QED BY <1>2, <2>1, <2>2 DEF F!Min
<1> QED BY <1>1, <1>2

FifoType ==
  /\ number_of_children \in 1..Parts
  /\ fifoSizes \in (Nat \ {0}) \X (Nat \ {0})
  /\ fifoPc \in [F!Processes -> F!Ended \cup {"none", "loop", "exec", "open", "write", "remove"}]
  /\ pass \in [F!Processes -> 0..number_of_children]
  /\ exists \in BOOLEAN
  /\ fifo \in Seq(0..(Parts - 1))
  /\ sums \in [F!Processes -> Seq(0..(Parts - 1))]
  /\ failed \subseteq F!Processes

\* What p forks in a pass that is still to come has not been forked.
FifoNames ==
  /\ \A p \in F!Processes :
       /\ fifoPc[p] = "none" => pass[p] = 0
       /\ fifoPc[p] \in {"none", "loop", "exec"} => sums[p] = <<>>
       /\ fifoPc[p] = "exec" => pass[p] < number_of_children /\ \A e \in p : e <= pass[p]
       /\ fifoPc[p] = "loop" => \A e \in p : e < pass[p]
  /\ \A p \in F!Processes, k \in 0..(Parts - 1) :
       (\A e \in p : e < k) /\ pass[p] <= k => fifoPc[p \cup {k}] = "none"
  /\ fifoPc[{}] \in {"loop", "remove", "done", "failed"}

LEMMA FifoInit == F!Init \/ FifoEnded => FifoType /\ FifoNames
<1> SUFFICES ASSUME F!Init \/ FifoEnded PROVE FifoType /\ FifoNames
  OBVIOUS
<1>1. /\ number_of_children \in 1..Parts
      /\ fifoSizes \in (Nat \ {0}) \X (Nat \ {0})
      /\ exists = TRUE /\ fifo = <<>> /\ failed = {}
      /\ pass = [p \in F!Processes |-> 0]
      /\ sums = [p \in F!Processes |-> <<>>]
  BY FifoConstants DEF F!Init, FifoEnded
<1>2. /\ fifoPc \in [F!Processes -> {"none", "loop", "failed"}]
      /\ \A p \in F!Processes : IF p = {} THEN fifoPc[p] \in {"loop", "failed"}
                                          ELSE fifoPc[p] = "none"
  BY DEF F!Init, FifoEnded, F!main
<1>3. {} \in F!Processes
  BY DEF F!Processes
<1>4. FifoType
  <2>1. exists \in BOOLEAN
    BY <1>1, Zenon
  <2>2. fifoPc \in [F!Processes -> F!Ended \cup
                       {"none", "loop", "exec", "open", "write", "remove"}]
    BY <1>2 DEF F!Ended
  <2>3. pass \in [F!Processes -> 0..number_of_children]
    BY <1>1, FifoConstants
  <2>4. sums \in [F!Processes -> Seq(0..(Parts - 1))] /\ fifo \in Seq(0..(Parts - 1))
    BY <1>1
  <2> QED BY <1>1, <2>1, <2>2, <2>3, <2>4 DEF FifoType
<1>5. FifoNames
  <2>1. \A p \in F!Processes, k \in 0..(Parts - 1) : p \cup {k} \in F!Processes \ {{}}
    BY DEF F!Processes
  <2> QED BY <1>1, <1>2, <1>3, <2>1 DEF FifoNames
<1> QED BY <1>4, <1>5

LEMMA FifoNamesStep ==
  ASSUME FifoType, FifoNames, NEW p \in F!Processes, F!Step(p)
  PROVE  FifoNames'
<1> DEFINE Ps == F!Processes
<1>1. /\ number_of_children \in 1..Parts /\ Parts \in Nat
      /\ fifoPc \in [Ps -> F!Ended \cup {"none", "loop", "exec", "open", "write", "remove"}]
      /\ pass \in [Ps -> 0..number_of_children]
      /\ sums \in [Ps -> Seq(0..(Parts - 1))]
      /\ {} \in Ps
  BY FifoConstants DEF FifoType, F!Processes
<1>2. /\ \A q \in Ps, k \in 0..(Parts - 1) : q \cup {k} \in Ps
      /\ \A q \in Ps : \A e \in q : e \in 0..(Parts - 1) /\ e \in Nat
  BY <1>1 DEF F!Processes
<1>3. CASE F!Fork(p)
  <2> DEFINE k == pass[p]
             c == p \cup {k}
  <2>1. /\ fifoPc[p] = "loop" /\ k < number_of_children
        /\ fifoPc' = [fifoPc EXCEPT ![c] = "exec"]
        /\ pass' = [pass EXCEPT ![p] = k + 1, ![c] = k]
        /\ UNCHANGED <<number_of_children, fifoSizes, exists, fifo, sums, failed>>
    BY <1>3 DEF F!Fork, F!parameters
  <2>2. k \in 0..(Parts - 1) /\ k \in Nat /\ c \in Ps
    <3>1. k \in 0..(Parts - 1)
      BY <1>1, <2>1
    <3>2. c \in Ps
      BY <1>2, <3>1, Zenon
    <3> QED BY <3>1, <3>2
  <2>3. \A e \in p : e < k
    BY <2>1 DEF FifoNames
  <2>4. c # p /\ k \notin p /\ c # {}
    BY <2>2, <2>3
  <2>5. fifoPc[c] = "none" /\ pass[c] = 0 /\ sums[c] = <<>>
    <3>1. fifoPc[c] = "none"
      <4>1. pass[p] <= k
        BY <2>2
      <4> QED BY <2>2, <2>3, <4>1, Zenon DEF FifoNames
    <3> QED BY <2>2, <3>1 DEF FifoNames
  <2> HIDE DEF c
  <2>6. /\ \A q \in Ps : fifoPc'[q] = IF q = c THEN "exec" ELSE fifoPc[q]
        /\ \A q \in Ps : pass'[q] = IF q = c THEN k ELSE IF q = p THEN k + 1 ELSE pass[q]
    BY <1>1, <2>1, <2>2, <2>4
  <2>7. ASSUME NEW q \in Ps, NEW l \in 0..(Parts - 1), \A e \in q : e < l, pass'[q] <= l
        PROVE  fifoPc'[q \cup {l}] = "none"
    <3>1. fifoPc[q \cup {l}] = "none"
      <4>1. pass[q] <= l
        <5>1. CASE q = c
          BY <2>5, <2>7, <5>1
        <5>2. CASE q = p /\ q # c
          BY <2>2, <2>6, <2>7, <5>2
        <5>3. CASE q # p /\ q # c
          BY <2>6, <2>7, <5>3
        <5> QED BY <5>1, <5>2, <5>3
      <4> QED BY <2>7, <4>1 DEF FifoNames
    <3>2. q \cup {l} # c
      <4> SUFFICES ASSUME q \cup {l} = p \cup {k} PROVE FALSE
        BY DEF c
      <4>1. l \notin q
        BY <2>7
      <4>2. CASE l = k
        <5>1. q = p
          BY <2>4, <4>1, <4>2
        <5>2. pass'[p] = k + 1
          BY <2>4, <2>6
        <5> QED BY <2>2, <2>7, <4>2, <5>1, <5>2
      <4>3. CASE l # k
        <5>1. l \in p /\ k \in q
          BY <4>3
        <5>2. l < k /\ k < l
          BY <2>3, <2>7, <5>1
        <5> QED BY <2>2, <5>2
      <4> QED BY <4>2, <4>3
    <3>3. q \cup {l} \in Ps
      BY <1>2
    <3> QED BY <2>6, <3>1, <3>2, <3>3
  <2>8. ASSUME NEW q \in Ps
        PROVE  /\ fifoPc'[q] = "none" => pass'[q] = 0
               /\ fifoPc'[q] \in {"none", "loop", "exec"} => sums'[q] = <<>>
               /\ fifoPc'[q] = "exec" =>
                    pass'[q] < number_of_children' /\ \A e \in q : e <= pass'[q]
               /\ fifoPc'[q] = "loop" => \A e \in q : e < pass'[q]
    <3>1. CASE q = c
      <4>1. \A e \in c : e <= k
        BY <1>2, <2>2, <2>3 DEF c
      <4>2. fifoPc'[q] = "exec" /\ pass'[q] = k /\ sums'[q] = <<>>
        BY <2>1, <2>5, <2>6, <3>1
      <4>3. k < number_of_children'
        BY <2>1
      <4> QED BY <3>1, <4>1, <4>2, <4>3
    <3>2. CASE q = p /\ q # c
      <4>1. \A e \in p : e < k + 1
        BY <1>2, <2>2, <2>3
      <4> QED BY <2>1, <2>6, <3>2, <4>1 DEF FifoNames
    <3>3. CASE q # p /\ q # c
      BY <2>1, <2>6, <3>3 DEF FifoNames
    <3> QED BY <3>1, <3>2, <3>3
  <2>9. fifoPc'[{}] \in {"loop", "remove", "done", "failed"}
    BY <1>1, <2>4, <2>6 DEF FifoNames
  <2> QED BY <2>7, <2>8, <2>9 DEF FifoNames
<1>4. CASE F!ExecFails(p)
  <2>1. /\ fifoPc[p] = "exec"
        /\ \A q \in Ps : fifoPc'[q] = IF q = p THEN "loop" ELSE fifoPc[q]
        /\ \A q \in Ps : pass'[q] = IF q = p THEN pass[q] + 1 ELSE pass[q]
        /\ UNCHANGED <<number_of_children, sums>>
    BY <1>1, <1>4 DEF F!ExecFails, F!parameters
  <2>2. p # {}
    BY <2>1 DEF FifoNames
  <2>3. ASSUME NEW q \in Ps, NEW l \in 0..(Parts - 1), \A e \in q : e < l, pass'[q] <= l
        PROVE  fifoPc'[q \cup {l}] = "none"
    <3>1. pass[q] <= l
      <4>1. pass[q] \in Int
        BY <1>1
      <4>2. pass'[q] \in {pass[q], pass[q] + 1}
        BY <2>1
      <4> QED BY <2>3, <4>1, <4>2
    <3>2. fifoPc[q \cup {l}] = "none"
      BY <2>3, <3>1, Zenon DEF FifoNames
    <3>3. q \cup {l} \in Ps
      BY <1>2, <2>3, Zenon
    <3>4. q \cup {l} # p
      BY <2>1, <3>2
    <3> QED BY <2>1, <3>2, <3>3, <3>4
  <2>4. \A e \in p : e < pass[p] + 1
    BY <1>1, <1>2, <2>1 DEF FifoNames
  <2>5. ASSUME NEW q \in Ps
        PROVE  /\ fifoPc'[q] = "none" => pass'[q] = 0
               /\ fifoPc'[q] \in {"none", "loop", "exec"} => sums'[q] = <<>>
               /\ fifoPc'[q] = "exec" =>
                    pass'[q] < number_of_children' /\ \A e \in q : e <= pass'[q]
               /\ fifoPc'[q] = "loop" => \A e \in q : e < pass'[q]
    BY <2>1, <2>4 DEF FifoNames
  <2>6. fifoPc'[{}] \in {"loop", "remove", "done", "failed"}
    BY <1>1, <2>1, <2>2 DEF FifoNames
  <2> QED BY <2>3, <2>5, <2>6 DEF FifoNames
<1>5. ASSUME NEW to \in F!Ended \cup {"open", "write", "remove"},
             fifoPc[p] # "none",
             fifoPc[p] \in {"loop", "remove", "done", "failed"} =>
               to \in {"remove", "done", "failed"},
             fifoPc' = [fifoPc EXCEPT ![p] = to],
             \A q \in Ps : q # p => sums'[q] = sums[q],
             UNCHANGED <<number_of_children, pass>>
      PROVE  FifoNames'
  <2>1. \A q \in Ps : fifoPc'[q] = IF q = p THEN to ELSE fifoPc[q]
    BY <1>1, <1>5
  <2>2. to \notin {"none", "loop", "exec"}
    BY <1>5 DEF F!Ended
  <2>3. ASSUME NEW q \in Ps, NEW k \in 0..(Parts - 1), \A e \in q : e < k, pass'[q] <= k
        PROVE  fifoPc'[q \cup {k}] = "none"
    <3>1. fifoPc[q \cup {k}] = "none"
      BY <1>5, <2>3 DEF FifoNames
    <3>2. q \cup {k} \in Ps /\ q \cup {k} # p
      BY <1>2, <1>5, <3>1
    <3> QED BY <2>1, <3>1, <3>2
  <2>4. p = {} => fifoPc[p] \in {"loop", "remove", "done", "failed"}
    BY DEF FifoNames
  <2>5. ASSUME NEW q \in Ps
        PROVE  /\ fifoPc'[q] = "none" => pass'[q] = 0
               /\ fifoPc'[q] \in {"none", "loop", "exec"} => sums'[q] = <<>>
               /\ fifoPc'[q] = "exec" =>
                    pass'[q] < number_of_children' /\ \A e \in q : e <= pass'[q]
               /\ fifoPc'[q] = "loop" => \A e \in q : e < pass'[q]
    <3>1. CASE q = p
      BY <1>5, <2>1, <2>2, <3>1
    <3>2. CASE q # p
      BY <1>5, <2>1, <3>2 DEF FifoNames
    <3> QED BY <3>1, <3>2
  <2>6. fifoPc'[{}] \in {"loop", "remove", "done", "failed"}
    BY <1>1, <1>5, <2>1, <2>4 DEF FifoNames
  <2> QED BY <2>3, <2>5, <2>6 DEF FifoNames
<1>6. CASE F!ForkFails(p)
  BY <1>5, <1>6 DEF F!ForkFails, F!parameters, F!Ended
<1>7. CASE F!Exec(p)
  BY <1>5, <1>7 DEF F!Exec, F!parameters
<1>8. CASE F!Open(p)
  BY <1>5, <1>8 DEF F!Open, F!parameters, F!Ended
<1>9. CASE F!Write(p)
  BY <1>5, <1>9 DEF F!Write, F!parameters, F!Ended
<1>10. CASE F!Read(p)
  BY <1>1, <1>5, <1>10 DEF F!Read, F!parameters, F!Ended
<1>11. CASE F!Remove(p)
  BY <1>5, <1>11 DEF F!Remove, F!parameters, F!Ended
<1> QED BY <1>3, <1>4, <1>6, <1>7, <1>8, <1>9, <1>10, <1>11 DEF F!Step

(* A read takes what fits in the buffer, and leaves the rest.              *)
LEMMA FirstOf ==
  ASSUME NEW T, NEW s \in Seq(T), NEW m \in Nat, m <= Len(s)
  PROVE  /\ SubSeq(s, 1, m) \in Seq(T) /\ Len(SubSeq(s, 1, m)) = m
         /\ \A k \in 1..m : SubSeq(s, 1, m)[k] = s[k]
<1>1. \A k \in 1..m : s[k] \in T
  OBVIOUS
<1>2. PICK one \in Int : one = 1
  OBVIOUS
<1>3. \A k \in one..m : s[k] \in T
  BY <1>1, <1>2
<1>4. /\ SubSeq(s, one, m) \in Seq(T)
      /\ Len(SubSeq(s, one, m)) = IF one <= m THEN m - one + 1 ELSE 0
      /\ \A k \in 1..(m - one + 1) : SubSeq(s, one, m)[k] = s[one + k - 1]
  BY <1>3, SubSeqProperties
<1> QED BY <1>2, <1>4

LEMMA RestOf ==
  ASSUME NEW T, NEW s \in Seq(T), NEW m \in Nat, m <= Len(s)
  PROVE  /\ SubSeq(s, m + 1, Len(s)) \in Seq(T)
         /\ Len(SubSeq(s, m + 1, Len(s))) = Len(s) - m
         /\ \A k \in 1..(Len(s) - m) : SubSeq(s, m + 1, Len(s))[k] = s[m + k]
<1>1. PICK a \in Int, n \in Int : a = m + 1 /\ n = Len(s)
  OBVIOUS
<1>2. \A k \in a..n : s[k] \in T
  BY <1>1
<1>3. /\ SubSeq(s, a, n) \in Seq(T)
      /\ Len(SubSeq(s, a, n)) = IF a <= n THEN n - a + 1 ELSE 0
      /\ \A k \in 1..(n - a + 1) : SubSeq(s, a, n)[k] = s[a + k - 1]
  BY <1>2, SubSeqProperties
<1> QED BY <1>1, <1>3

\* Of s, a buffer with room for b takes the first m.
Splits(s, T, b, m) ==
  /\ m <= Len(s) /\ m = F!Min({b, Len(s)})
  /\ m = IF b <= Len(s) THEN b ELSE Len(s)
  /\ SubSeq(s, 1, m) \in Seq(T) /\ Len(SubSeq(s, 1, m)) = m
  /\ \A k \in 1..m : SubSeq(s, 1, m)[k] = s[k]
  /\ SubSeq(s, b + 1, Len(s)) \in Seq(T)
  /\ Len(SubSeq(s, b + 1, Len(s))) = Len(s) - m
  /\ \A k \in 1..(Len(s) - m) : SubSeq(s, b + 1, Len(s))[k] = s[m + k]

LEMMA ReadSplits ==
  ASSUME NEW T, NEW s \in Seq(T), NEW b \in Nat \ {0}
  PROVE  \E m \in Nat : Splits(s, T, b, m)
<1>1. PICK n \in Nat : n = Len(s)
  OBVIOUS
<1>2. PICK m \in Nat : m = IF b <= n THEN b ELSE n
  OBVIOUS
<1>3. m <= Len(s) /\ m = F!Min({b, Len(s)})
  BY <1>1, <1>2, LowerOfTwo
<1>4. SubSeq(s, b + 1, Len(s)) = SubSeq(s, m + 1, Len(s))
  <2>1. CASE b <= n
    BY <1>2, <2>1
  <2>2. CASE n < b
    <3>1. b + 1 \in Int /\ m + 1 \in Int /\ n \in Int /\ n < b + 1 /\ n < m + 1
      BY <1>2, <2>2
    <3> QED BY <1>1, <3>1, SubSeqEmpty, Zenon
  <2> QED BY <1>1, <2>1, <2>2
<1>5. /\ SubSeq(s, 1, m) \in Seq(T) /\ Len(SubSeq(s, 1, m)) = m
      /\ \A k \in 1..m : SubSeq(s, 1, m)[k] = s[k]
  BY <1>3, FirstOf
<1>6. /\ SubSeq(s, m + 1, Len(s)) \in Seq(T)
      /\ Len(SubSeq(s, m + 1, Len(s))) = Len(s) - m
      /\ \A k \in 1..(Len(s) - m) : SubSeq(s, m + 1, Len(s))[k] = s[m + k]
  BY <1>3, RestOf
<1>7. m = IF b <= Len(s) THEN b ELSE Len(s)
  BY <1>1, <1>2
<1>8. Splits(s, T, b, m)
  BY <1>3, <1>4, <1>5, <1>6, <1>7, Zenon DEF Splits
<1> QED BY <1>8

LEMMA FifoTypeStep ==
  ASSUME FifoType, FifoNames, NEW p \in F!Processes, F!Step(p)
  PROVE  FifoType'
<1> DEFINE Ps == F!Processes
           R == 0..(Parts - 1)
<1>1. /\ number_of_children \in 1..Parts /\ Parts \in Nat
      /\ fifoSizes \in (Nat \ {0}) \X (Nat \ {0})
      /\ F!BuffSize \in Nat \ {0}
      /\ pass \in [Ps -> 0..number_of_children]
      /\ fifo \in Seq(R) /\ sums \in [Ps -> Seq(R)]
      /\ failed \subseteq Ps
  BY FifoConstants DEF FifoType, F!BuffSize
<1>2. /\ UNCHANGED <<number_of_children, fifoSizes>>
      /\ \E to \in F!Ended \cup {"none", "loop", "exec", "open", "write", "remove"} :
           \/ fifoPc' = [fifoPc EXCEPT ![p] = to]
           \/ fifoPc' = [fifoPc EXCEPT ![p \cup {pass[p]}] = "exec"]
  BY DEF F!Step, F!Fork, F!ForkFails, F!Exec, F!ExecFails, F!Open, F!Write, F!Read,
         F!Remove, F!parameters, F!Ended
<1>3. fifoPc' \in [Ps -> F!Ended \cup {"none", "loop", "exec", "open", "write", "remove"}]
  BY <1>2 DEF FifoType
<1>4. exists' \in BOOLEAN
  <2>1. CASE exists' = FALSE
    BY <2>1, Zenon
  <2>2. CASE exists' = exists
    BY <2>2, Zenon DEF FifoType
  <2> QED BY <2>1, <2>2 DEF F!Step, F!Fork, F!ForkFails, F!Exec, F!ExecFails, F!Open,
            F!Write, F!Read, F!Remove
<1>5. pass' \in [Ps -> 0..number_of_children]
  <2>1. CASE F!Fork(p)
    <3>1. /\ pass[p] < number_of_children
          /\ pass' = [pass EXCEPT ![p] = pass[p] + 1, ![p \cup {pass[p]}] = pass[p]]
      BY <2>1 DEF F!Fork
    <3>2. pass[p] + 1 \in 0..number_of_children /\ pass[p] \in 0..number_of_children
      BY <1>1, <3>1
    <3> QED BY <1>1, <3>1, <3>2
  <2>2. CASE F!ExecFails(p)
    <3>1. pass[p] < number_of_children /\ pass' = [pass EXCEPT ![p] = pass[p] + 1]
      BY <2>2 DEF F!ExecFails, FifoNames
    <3>2. pass[p] + 1 \in 0..number_of_children
      BY <1>1, <3>1
    <3> QED BY <1>1, <3>1, <3>2
  <2>3. CASE UNCHANGED pass
    BY <1>1, <2>3
  <2> QED BY <2>1, <2>2, <2>3 DEF F!Step, F!ForkFails, F!Exec, F!Open,
            F!Write, F!Read, F!Remove
<1>6. fifo' \in Seq(R) /\ sums' \in [Ps -> Seq(R)]
  <2>1. CASE F!Write(p)
    <3>1. p # {}
      BY <2>1 DEF F!Write, FifoNames
    <3>2. F!Part(p) \in R
      BY <3>1, PartIsLast
    <3> QED BY <1>1, <2>1, <3>2 DEF F!Write
  <2>2. CASE F!Read(p)
    <3> DEFINE m == F!Min({F!BuffSize, Len(fifo)})
               first == SubSeq(fifo, 1, m)
               rest == SubSeq(fifo, F!BuffSize + 1, Len(fifo))
    <3>1. sums' = [sums EXCEPT ![p] = first] /\ fifo' = rest
      BY <2>2 DEF F!Read
    <3>2. first \in Seq(R) /\ rest \in Seq(R)
      <4>1. PICK b \in Nat \ {0} : b = F!BuffSize
        BY <1>1
      <4> HIDE DEF R
      <4>2. fifo \in Seq(R)
        BY <1>1
      <4>3. PICK l \in Nat : Splits(fifo, R, b, l)
        BY <4>2, ReadSplits
      <4>4. /\ l = F!Min({b, Len(fifo)})
            /\ SubSeq(fifo, 1, l) \in Seq(R)
            /\ SubSeq(fifo, b + 1, Len(fifo)) \in Seq(R)
        BY <4>3, Zenon DEF Splits
      <4> QED BY <4>1, <4>4
    <3> HIDE DEF first, rest, R
    <3> QED BY <1>1, <3>1, <3>2
  <2>3. CASE UNCHANGED <<fifo, sums>>
    BY <1>1, <2>3
  <2> QED BY <2>1, <2>2, <2>3 DEF F!Step, F!Fork, F!ForkFails, F!Exec, F!ExecFails, F!Open,
            F!Remove
<1>7. failed' \subseteq Ps
  BY <1>1 DEF F!Step, F!Fork, F!ForkFails, F!Exec, F!ExecFails, F!Open, F!Write, F!Read,
              F!Remove
<1> QED BY <1>1, <1>2, <1>3, <1>4, <1>5, <1>6, <1>7 DEF FifoType

(* What is written is in the pipe or added.                                *)

Waiting(part) == {k \in DOMAIN fifo : fifo[k] = part}

Summed(part) ==
  {r \in F!Processes \X (1..F!BuffSize) :
     r[2] \in DOMAIN sums[r[1]] /\ sums[r[1]][r[2]] = part}

Written(part) == {p \in F!Processes : fifoPc[p] = "written" /\ F!Part(p) = part}

Conserved(part) ==
  Cardinality(Waiting(part)) + Cardinality(Summed(part)) = Cardinality(Written(part))

LEMMA PlacesFinite ==
  ASSUME FifoType, NEW part
  PROVE  /\ IsFiniteSet(Waiting(part)) /\ Cardinality(Waiting(part)) \in Nat
         /\ IsFiniteSet(Summed(part)) /\ Cardinality(Summed(part)) \in Nat
         /\ IsFiniteSet(Written(part)) /\ Cardinality(Written(part)) \in Nat
<1>1. IsFiniteSet(F!Processes)
  <2>1. IsFiniteSet(0..(Parts - 1))
    BY FifoConstants, FS_Interval
  <2> QED BY <2>1, FS_SUBSET DEF F!Processes
<1>2. IsFiniteSet(F!Processes \X (1..F!BuffSize))
  <2>1. F!BuffSize \in Nat
    BY DEF FifoType, F!BuffSize
  <2>2. IsFiniteSet(1..F!BuffSize)
    BY <2>1, FS_Interval
  <2> QED BY <1>1, <2>2, FS_Product
<1>3. IsFiniteSet(1..Len(fifo)) /\ DOMAIN fifo = 1..Len(fifo)
  <2>1. Len(fifo) \in Nat /\ DOMAIN fifo = 1..Len(fifo)
    BY DEF FifoType
  <2> QED BY <2>1, FS_Interval
<1>4. IsFiniteSet(Waiting(part))
  BY <1>3, FS_Subset DEF Waiting
<1>5. IsFiniteSet(Summed(part))
  BY <1>2, FS_Subset DEF Summed
<1>6. IsFiniteSet(Written(part))
  BY <1>1, FS_Subset DEF Written
<1> QED BY <1>4, <1>5, <1>6, FS_CardinalityType

\* A one-to-one image has as many elements.
LEMMA SameSize ==
  ASSUME NEW S, IsFiniteSet(S), NEW T, NEW f \in [S -> T],
         \A x, y \in S : f[x] = f[y] => x = y,
         \A z \in T : \E x \in S : f[x] = z
  PROVE  IsFiniteSet(T) /\ Cardinality(T) = Cardinality(S)
<1>1. f \in Bijection(S, T)
  BY DEF Bijection, Injection, Surjection, IsInjective
<1>2. ExistsBijection(S, T)
  BY <1>1 DEF ExistsBijection
<1> QED BY <1>2, FS_Bijection

LEMMA ConservedStep ==
  ASSUME FifoType, FifoNames, FifoType', NEW p \in F!Processes, F!Step(p),
         NEW part \in 0..(Parts - 1), Conserved(part)
  PROVE  Conserved(part)'
<1> DEFINE Ps == F!Processes
<1>1. /\ fifoPc \in [Ps -> F!Ended \cup {"none", "loop", "exec", "open", "write", "remove"}]
      /\ fifo \in Seq(0..(Parts - 1)) /\ sums \in [Ps -> Seq(0..(Parts - 1))]
      /\ F!BuffSize \in Nat \ {0}
  BY DEF FifoType, F!BuffSize
<1>2. F!BuffSize' = F!BuffSize
  BY DEF F!Step, F!Fork, F!ForkFails, F!Exec, F!ExecFails, F!Open, F!Write, F!Read,
         F!Remove, F!parameters, F!BuffSize
<1>3. /\ IsFiniteSet(Waiting(part)) /\ Cardinality(Waiting(part)) \in Nat
      /\ IsFiniteSet(Summed(part)) /\ Cardinality(Summed(part)) \in Nat
      /\ IsFiniteSet(Written(part)) /\ Cardinality(Written(part)) \in Nat
  BY PlacesFinite
<1>4. ASSUME UNCHANGED <<fifo, sums>>,
             \A q \in Ps : fifoPc'[q] = "written" <=> fifoPc[q] = "written"
      PROVE  Conserved(part)'
  <2>1. Written(part)' = Written(part)
    BY <1>4 DEF Written
  <2>2. Waiting(part)' = Waiting(part) /\ Summed(part)' = Summed(part)
    BY <1>2, <1>4 DEF Waiting, Summed
  <2> QED BY <2>1, <2>2 DEF Conserved
<1>5. CASE F!Fork(p)
  <2> DEFINE c == p \cup {pass[p]}
  <2>1. /\ fifoPc' = [fifoPc EXCEPT ![c] = "exec"]
        /\ fifoPc[p] = "loop" /\ pass[p] < number_of_children
        /\ UNCHANGED <<fifo, sums>>
    BY <1>5 DEF F!Fork
  <2>2. fifoPc[c] = "none"
    <3>1. pass[p] \in 0..(Parts - 1) /\ pass[p] <= pass[p]
      BY <2>1, FifoConstants DEF FifoType
    <3>2. \A e \in p : e < pass[p]
      BY <2>1 DEF FifoNames
    <3> QED BY <3>1, <3>2, Zenon DEF FifoNames
  <2> HIDE DEF c
  <2> QED BY <1>1, <1>4, <2>1, <2>2
<1>6. CASE F!ForkFails(p) \/ F!Exec(p) \/ F!ExecFails(p) \/ F!Open(p) \/ F!Remove(p)
  BY <1>1, <1>4, <1>6 DEF F!ForkFails, F!Exec, F!ExecFails, F!Open, F!Remove
<1>7. CASE F!Write(p)
  <2>1. /\ fifoPc[p] = "write"
        /\ fifo' = Append(fifo, F!Part(p))
        /\ fifoPc' = [fifoPc EXCEPT ![p] = "written"]
        /\ UNCHANGED sums
    BY <1>7 DEF F!Write
  <2>2. /\ F!Part(p) \in 0..(Parts - 1) /\ Len(fifo) \in Nat
        /\ DOMAIN fifo = 1..Len(fifo) /\ DOMAIN fifo' = 1..(Len(fifo) + 1)
        /\ \A k \in 1..Len(fifo) : fifo'[k] = fifo[k]
        /\ fifo'[Len(fifo) + 1] = F!Part(p)
    <3>1. p # {}
      BY <2>1 DEF FifoNames
    <3>2. F!Part(p) \in 0..(Parts - 1)
      BY <3>1, PartIsLast
    <3> QED BY <1>1, <2>1, <3>2
  <2>3. Summed(part)' = Summed(part)
    BY <1>2, <2>1 DEF Summed
  <2>4. CASE F!Part(p) = part
    <3>1. Written(part)' = Written(part) \cup {p} /\ p \notin Written(part)
      BY <1>1, <2>1, <2>4 DEF Written
    <3>2. /\ Waiting(part)' = Waiting(part) \cup {Len(fifo) + 1}
          /\ Len(fifo) + 1 \notin Waiting(part)
      BY <2>2, <2>4 DEF Waiting
    <3>3. Cardinality(Written(part)') = Cardinality(Written(part)) + 1
      BY <1>3, <3>1, FS_AddElement
    <3>4. Cardinality(Waiting(part)') = Cardinality(Waiting(part)) + 1
      BY <1>3, <3>2, FS_AddElement
    <3> QED BY <1>3, <2>3, <3>3, <3>4 DEF Conserved
  <2>5. CASE F!Part(p) # part
    <3>1. Written(part)' = Written(part)
      BY <1>1, <2>1, <2>5 DEF Written
    <3>2. Waiting(part)' = Waiting(part)
      BY <2>2, <2>5 DEF Waiting
    <3> QED BY <2>3, <3>1, <3>2 DEF Conserved
  <2> QED BY <2>4, <2>5
<1>8. CASE F!Read(p)
  <2>1. PICK n \in Nat : n = Len(fifo)
    BY <1>1
  <2>2. PICK m \in Nat :
          /\ m <= n /\ m <= F!BuffSize
          /\ Len(sums'[p]) = m /\ DOMAIN sums'[p] = 1..m
          /\ \A k \in 1..m : sums'[p][k] = fifo[k]
          /\ DOMAIN fifo' = 1..(n - m)
          /\ \A k \in 1..(n - m) : fifo'[k] = fifo[m + k]
          /\ \A q \in Ps : q # p => sums'[q] = sums[q]
    <3> DEFINE R == 0..(Parts - 1)
    <3>1. PICK b \in Nat \ {0} : b = F!BuffSize
      BY <1>1
    <3>2. fifo \in Seq(R)
      BY <1>1
    <3> HIDE DEF R
    <3>3. PICK m \in Nat :
            /\ m <= Len(fifo) /\ m = F!Min({b, Len(fifo)})
            /\ m = IF b <= Len(fifo) THEN b ELSE Len(fifo)
            /\ SubSeq(fifo, 1, m) \in Seq(R) /\ Len(SubSeq(fifo, 1, m)) = m
            /\ \A k \in 1..m : SubSeq(fifo, 1, m)[k] = fifo[k]
            /\ SubSeq(fifo, b + 1, Len(fifo)) \in Seq(R)
            /\ Len(SubSeq(fifo, b + 1, Len(fifo))) = Len(fifo) - m
            /\ \A k \in 1..(Len(fifo) - m) : SubSeq(fifo, b + 1, Len(fifo))[k] = fifo[m + k]
      <4>1. PICK m \in Nat : Splits(fifo, R, b, m)
        BY <3>2, ReadSplits
      <4> QED BY <4>1, Zenon DEF Splits
    <3>4. /\ sums' = [sums EXCEPT ![p] = SubSeq(fifo, 1, m)]
          /\ fifo' = SubSeq(fifo, b + 1, Len(fifo))
      BY <1>8, <3>1, <3>3 DEF F!Read
    <3>5. sums'[p] = SubSeq(fifo, 1, m) /\ \A q \in Ps : q # p => sums'[q] = sums[q]
      BY <1>1, <3>4
    <3>6. /\ sums'[p] \in Seq(R) /\ Len(sums'[p]) = m
          /\ \A k \in 1..m : sums'[p][k] = fifo[k]
      BY <3>3, <3>5, Zenon
    <3>7. /\ fifo' \in Seq(R) /\ Len(fifo') = n - m
          /\ \A k \in 1..(n - m) : fifo'[k] = fifo[m + k]
      <4>1. /\ fifo' \in Seq(R) /\ Len(fifo') = Len(fifo) - m
            /\ \A k \in 1..(Len(fifo) - m) : fifo'[k] = fifo[m + k]
        <5> DEFINE rest == SubSeq(fifo, b + 1, Len(fifo))
        <5>1. fifo' = rest
          BY <3>4
        <5>2. /\ rest \in Seq(R) /\ Len(rest) = Len(fifo) - m
              /\ \A k \in 1..(Len(fifo) - m) : rest[k] = fifo[m + k]
          BY <3>3, Zenon
        <5> HIDE DEF rest
        <5> QED BY <5>1, <5>2
      <4>2. Len(fifo) = n
        BY <2>1
      <4>3. fifo' \in Seq(R) /\ Len(fifo') = n - m
        BY <4>1, <4>2
      <4>4. ASSUME NEW k \in 1..(n - m) PROVE fifo'[k] = fifo[m + k]
        <5>1. k \in 1..(Len(fifo) - m)
          BY <4>2
        <5> QED BY <4>1, <5>1, Zenon
      <4> QED BY <4>3, <4>4, Zenon
    <3>8. m <= n /\ m <= F!BuffSize
      <4>1. m <= Len(fifo) /\ m = IF b <= Len(fifo) THEN b ELSE Len(fifo)
        BY <3>3, Zenon
      <4>2. m <= n /\ m = IF b <= n THEN b ELSE n
        BY <2>1, <4>1, Zenon
      <4>3. m <= b
        BY <4>2
      <4> QED BY <3>1, <4>2, <4>3
    <3>9. DOMAIN sums'[p] = 1..m /\ DOMAIN fifo' = 1..(n - m)
      BY <3>6, <3>7
    <3> QED BY <3>5, <3>6, <3>7, <3>8, <3>9
  <2>3. sums[p] = <<>> /\ fifoPc[p] = "loop"
    BY <1>8 DEF F!Read, FifoNames
  <2>4. Written(part)' = Written(part)
    <3>1. PICK to \in {"failed", "remove"} : fifoPc' = [fifoPc EXCEPT ![p] = to]
      BY <1>8 DEF F!Read
    <3> QED BY <1>1, <2>3, <3>1 DEF Written
  <2> DEFINE Taken == {k \in 1..m : fifo[k] = part}
             Left  == {k \in (m + 1)..n : fifo[k] = part}
  <2>5. /\ Waiting(part) = Taken \cup Left /\ Taken \cap Left = {}
        /\ Taken \subseteq Waiting(part) /\ Left \subseteq Waiting(part)
    BY <1>1, <2>1, <2>2 DEF Waiting
  <2>6. /\ IsFiniteSet(Taken) /\ Cardinality(Taken) \in Nat
        /\ IsFiniteSet(Left) /\ Cardinality(Left) \in Nat
    <3> HIDE DEF Taken, Left
    <3>1. IsFiniteSet(Taken) /\ IsFiniteSet(Left)
      BY <1>3, <2>5, FS_Subset
    <3> QED BY <3>1, FS_CardinalityType
  <2>7. Cardinality(Waiting(part)) = Cardinality(Taken) + Cardinality(Left)
    <3> HIDE DEF Taken, Left
    <3>1. Cardinality(Taken \cap Left) = 0
      BY <2>5, FS_EmptySet
    <3> QED BY <2>5, <2>6, <3>1, FS_Union
  <2>8. Cardinality(Waiting(part)') = Cardinality(Left)
    <3> DEFINE f == [k \in Left |-> k - m]
    <3>1. Waiting(part)' = {k \in 1..(n - m) : fifo[m + k] = part}
      BY <2>2 DEF Waiting
    <3>2. f \in [Left -> Waiting(part)']
      <4>1. \A k \in Left : k - m \in 1..(n - m) /\ m + (k - m) = k
        BY <2>2
      <4> QED BY <3>1, <4>1
    <3>3. \A k, l \in Left : f[k] = f[l] => k = l
      BY <2>2
    <3>4. ASSUME NEW k \in Waiting(part)' PROVE \E l \in Left : f[l] = k
      <4>1. m + k \in Left /\ (m + k) - m = k
        BY <2>2, <3>1, <3>4
      <4> QED BY <4>1
    <3> HIDE DEF f, Left
    <3> QED BY <2>6, <3>2, <3>3, <3>4, SameSize
  <2>9. Cardinality(Summed(part)') = Cardinality(Summed(part)) + Cardinality(Taken)
    <3> DEFINE Here == {p} \X Taken
               f == [k \in Taken |-> <<p, k>>]
    <3>1. Summed(part)' = Summed(part) \cup Here
      <4>1. ASSUME NEW q \in Ps, NEW k \in 1..F!BuffSize
            PROVE  <<q, k>> \in Summed(part)' <=> <<q, k>> \in Summed(part) \cup Here
        <5>1. CASE q = p
          <6>1. <<q, k>> \notin Summed(part)
            BY <2>3, <5>1 DEF Summed
          <6>2. <<q, k>> \in Summed(part)' <=> k \in 1..m /\ fifo[k] = part
            BY <1>2, <2>2, <5>1 DEF Summed
          <6> QED BY <5>1, <6>1, <6>2
        <5>2. CASE q # p
          BY <1>2, <2>2, <5>2 DEF Summed
        <5> QED BY <5>1, <5>2
      <4>2. Summed(part)' \subseteq Ps \X (1..F!BuffSize)
        BY <1>2 DEF Summed
      <4>3. Summed(part) \subseteq Ps \X (1..F!BuffSize)
        BY DEF Summed
      <4>4. Here \subseteq Ps \X (1..F!BuffSize)
        BY <1>1, <2>2
      <4> HIDE DEF Here
      <4> QED BY <4>1, <4>2, <4>3, <4>4
    <3>2. Summed(part) \cap Here = {}
      BY <2>3 DEF Summed
    <3>3. IsFiniteSet(Here) /\ Cardinality(Here) = Cardinality(Taken)
      <4>1. f \in [Taken -> Here]
        OBVIOUS
      <4>2. \A k, l \in Taken : f[k] = f[l] => k = l
        OBVIOUS
      <4>3. \A r \in Here : \E k \in Taken : f[k] = r
        OBVIOUS
      <4> HIDE DEF f, Taken, Here
      <4> QED BY <2>6, <4>1, <4>2, <4>3, SameSize
    <3> HIDE DEF Here, Taken
    <3>4. Cardinality(Summed(part) \cap Here) = 0
      BY <3>2, FS_EmptySet
    <3>5. Cardinality(Summed(part) \cup Here)
            = Cardinality(Summed(part)) + Cardinality(Here)
                - Cardinality(Summed(part) \cap Here)
      BY <1>3, <3>3, FS_Union
    <3> QED BY <1>3, <2>6, <3>1, <3>3, <3>4, <3>5
  <2> HIDE DEF Taken, Left
  <2> QED BY <1>3, <2>4, <2>6, <2>7, <2>8, <2>9 DEF Conserved
<1> QED BY <1>5, <1>6, <1>7, <1>8 DEF F!Step

(* Where no execl fails: the children have the names of single passes,     *)
(* each of them writes, and the pipe has what they have written, until     *)
(* main, which has waited for all of them, takes it.                       *)

WrittenParts == {k \in 0..(Parts - 1) : fifoPc[{k}] = "written"}

MainAdds ==
  failed = {} =>
    /\ \A p \in F!Processes : p # {} /\ fifoPc[p] # "none" =>
         /\ \E k \in 0..(pass[{}] - 1) : p = {k}
         /\ fifoPc[p] \in {"exec", "open", "write", "written"}
    /\ \A k \in 0..(pass[{}] - 1) : fifoPc[{k}] # "none"
    /\ fifoPc[{}] # "done" => exists
    /\ fifoPc[{}] = "loop" =>
         /\ \A j, k \in DOMAIN fifo : fifo[j] = fifo[k] => j = k
         /\ \A k \in DOMAIN fifo : fifo[k] \in WrittenParts
         /\ Len(fifo) = Cardinality(WrittenParts)
    /\ fifoPc[{}] \in {"remove", "done"} =>
         /\ pass[{}] = number_of_children
         /\ \A k \in 0..(number_of_children - 1) : fifoPc[{k}] = "written"
         /\ \A j, k \in DOMAIN sums[{}] : sums[{}][j] = sums[{}][k] => j = k
         /\ Len(sums[{}]) = F!Min({number_of_children, F!BuffSize})

LEMMA Singles ==
  /\ {} \in F!Processes
  /\ \A k \in 0..(Parts - 1) :
       {k} \in F!Processes /\ {k} # {} /\ F!Part({k}) = k /\ F!Parent({k}) = {}
<1>1. {} \in F!Processes
  BY DEF F!Processes
<1>2. ASSUME NEW k \in 0..(Parts - 1)
      PROVE  {k} \in F!Processes /\ {k} # {} /\ F!Part({k}) = k /\ F!Parent({k}) = {}
  <2>1. {k} \in F!Processes /\ {k} # {}
    BY DEF F!Processes
  <2>2. F!Part({k}) = k
    BY <2>1, PartIsLast
  <2> QED BY <2>1, <2>2 DEF F!Part, F!Parent
<1> QED BY <1>1, <1>2

LEMMA FirstPasses ==
  FifoType =>
    /\ pass[{}] \in 0..number_of_children
    /\ \A k \in 0..(number_of_children - 1) :
         /\ k \in 0..(Parts - 1)
         /\ {k} \in F!Processes /\ {k} # {} /\ F!Parent({k}) = {}
    /\ \A k \in 0..(pass[{}] - 1) :
         /\ k \in 0..(Parts - 1)
         /\ {k} \in F!Processes /\ {k} # {}
<1> SUFFICES ASSUME FifoType
             PROVE  /\ pass[{}] \in 0..number_of_children
                    /\ \A k \in 0..(number_of_children - 1) :
                         /\ k \in 0..(Parts - 1)
                         /\ {k} \in F!Processes /\ {k} # {} /\ F!Parent({k}) = {}
                    /\ \A k \in 0..(pass[{}] - 1) :
                         /\ k \in 0..(Parts - 1)
                         /\ {k} \in F!Processes /\ {k} # {}
  OBVIOUS
<1>1. /\ number_of_children \in 1..Parts /\ Parts \in Nat
      /\ pass[{}] \in 0..number_of_children
  BY Singles, FifoConstants DEF FifoType
<1>2. ASSUME NEW k \in 0..(number_of_children - 1)
      PROVE  /\ k \in 0..(Parts - 1)
             /\ {k} \in F!Processes /\ {k} # {} /\ F!Parent({k}) = {}
  <2>1. k \in 0..(Parts - 1)
    BY <1>1
  <2> QED BY <2>1, Singles, Zenon
<1>3. ASSUME NEW k \in 0..(pass[{}] - 1)
      PROVE  k \in 0..(Parts - 1) /\ {k} \in F!Processes /\ {k} # {}
  <2>1. k \in 0..(number_of_children - 1)
    BY <1>1
  <2> QED BY <1>2, <2>1
<1> QED BY <1>1, <1>2, <1>3

LEMMA MainInit == F!Init \/ FifoEnded => MainAdds
<1> SUFFICES ASSUME F!Init \/ FifoEnded PROVE MainAdds
  OBVIOUS
<1>1. /\ fifoPc \in [F!Processes -> {"none", "loop", "failed"}]
      /\ \A p \in F!Processes : IF p = {} THEN fifoPc[p] \in {"loop", "failed"}
                                          ELSE fifoPc[p] = "none"
      /\ exists = TRUE /\ fifo = <<>>
      /\ pass = [p \in F!Processes |-> 0]
  BY DEF F!Init, FifoEnded, F!main
<1>2. WrittenParts = {}
  BY <1>1, Singles DEF WrittenParts
<1>3. Cardinality(WrittenParts) = 0
  BY <1>2, FS_EmptySet
<1>4. pass[{}] = 0 /\ 0..(0 - 1) = {} /\ fifoPc[{}] \in {"loop", "failed"}
  BY <1>1, Singles
<1> QED BY <1>1, <1>3, <1>4 DEF MainAdds

LEMMA MainStep ==
  ASSUME FifoType, FifoNames, MainAdds, NEW p \in F!Processes, F!Step(p)
  PROVE  MainAdds'
<1> DEFINE Ps == F!Processes
<1>1. /\ fifoPc \in [Ps -> F!Ended \cup {"none", "loop", "exec", "open", "write", "remove"}]
      /\ fifo \in Seq(0..(Parts - 1)) /\ sums \in [Ps -> Seq(0..(Parts - 1))]
      /\ F!BuffSize \in Nat \ {0} /\ number_of_children \in 1..Parts
      /\ Parts \in Nat
      /\ pass \in [Ps -> 0..number_of_children]
      /\ {} \in Ps
  BY Singles, FifoConstants DEF FifoType, F!BuffSize
<1>2. F!BuffSize' = F!BuffSize /\ number_of_children' = number_of_children
  BY DEF F!Step, F!Fork, F!ForkFails, F!Exec, F!ExecFails, F!Open, F!Write, F!Read,
         F!Remove, F!parameters, F!BuffSize
<1> SUFFICES ASSUME failed' = {} PROVE MainAdds'
  BY DEF MainAdds
<1>3. ~F!ExecFails(p) /\ failed = {}
  BY DEF F!Step, F!Fork, F!ForkFails, F!Exec, F!ExecFails, F!Open, F!Write, F!Read, F!Remove
<1>4. p = {} \/ \E k \in 0..(pass[{}] - 1) : p = {k}
  <2>1. fifoPc[p] # "none"
    BY DEF F!Step, F!Fork, F!ForkFails, F!Exec, F!ExecFails, F!Open, F!Write, F!Read, F!Remove
  <2> QED BY <1>3, <2>1 DEF MainAdds
<1>5. CASE p = {} /\ F!Fork(p)
  <2> DEFINE k == pass[{}]
  <2>1. /\ fifoPc[{}] = "loop" /\ k < number_of_children
        /\ fifoPc' = [fifoPc EXCEPT ![{k}] = "exec"]
        /\ pass' = [pass EXCEPT ![{}] = k + 1, ![{k}] = k]
        /\ UNCHANGED <<exists, fifo, sums>>
    BY <1>5 DEF F!Fork
  <2>2. k \in 0..(Parts - 1) /\ {k} \in Ps /\ {k} # {}
    <3>1. k \in 0..(Parts - 1)
      BY <1>1, <2>1
    <3> QED BY <3>1, Singles
  <2>3. fifoPc[{k}] = "none"
    <3>1. fifoPc[{k}] # "none" => \E l \in 0..(k - 1) : {k} = {l}
      BY <1>3, <2>2 DEF MainAdds
    <3> QED BY <2>2, <3>1
  <2>4. /\ \A q \in Ps : fifoPc'[q] = IF q = {k} THEN "exec" ELSE fifoPc[q]
        /\ pass'[{}] = k + 1
    BY <1>1, <2>1, <2>2
  <2>5. 0..((k + 1) - 1) = (0..(k - 1)) \cup {k} /\ 0..(k - 1) \subseteq 0..(Parts - 1)
    <3>1. PICK l \in Nat : l = k /\ l <= Parts - 1
      BY <2>2
    <3>2. 0..((l + 1) - 1) = (0..(l - 1)) \cup {l}
      OBVIOUS
    <3>3. 0..(l - 1) \subseteq 0..(Parts - 1)
      BY <1>1, <3>1
    <3> QED BY <3>1, <3>2, <3>3
  <2>6. WrittenParts' = WrittenParts
    BY <2>3, <2>4, Singles DEF WrittenParts
  <2>7. ASSUME NEW q \in Ps, q # {}, fifoPc'[q] # "none"
        PROVE  /\ \E l \in 0..(pass'[{}] - 1) : q = {l}
               /\ fifoPc'[q] \in {"exec", "open", "write", "written"}
    <3>1. CASE q = {k}
      BY <2>2, <2>4, <2>5, <3>1
    <3>2. CASE q # {k}
      <4>1. \E l \in 0..(k - 1) : q = {l}
        BY <1>3, <2>4, <2>7, <3>2 DEF MainAdds
      <4>2. fifoPc[q] \in {"exec", "open", "write", "written"}
        BY <1>3, <2>4, <2>7, <3>2 DEF MainAdds
      <4> QED BY <2>4, <2>5, <3>2, <4>1, <4>2
    <3> QED BY <3>1, <3>2
  <2>8. ASSUME NEW l \in 0..(pass'[{}] - 1) PROVE fifoPc'[{l}] # "none"
    <3>1. CASE l = k
      BY <2>2, <2>4, <3>1
    <3>2. CASE l \in 0..(k - 1)
      <4>1. fifoPc[{l}] # "none"
        BY <1>3, <3>2 DEF MainAdds
      <4>2. {l} \in Ps
        BY <2>5, <3>2, Singles
      <4> QED BY <2>4, <4>1, <4>2
    <3> QED BY <2>4, <2>5, <3>1, <3>2
  <2>9. fifoPc'[{}] = "loop" /\ exists'
    BY <1>1, <1>3, <2>1, <2>2, <2>4 DEF MainAdds
  <2> HIDE DEF k
  <2> QED BY <1>3, <2>1, <2>6, <2>7, <2>8, <2>9 DEF MainAdds
<1>6. CASE p = {} /\ F!Read(p)
  <2>1. /\ fifoPc[{}] = "loop" /\ pass[{}] = number_of_children
        /\ F!Waited({})
        /\ \E to \in {"failed", "remove"} : fifoPc' = [fifoPc EXCEPT ![{}] = to]
        /\ sums' = [sums EXCEPT ![{}] = SubSeq(fifo, 1, F!Min({F!BuffSize, Len(fifo)}))]
        /\ UNCHANGED <<pass, exists>>
    BY <1>6 DEF F!Read
  <2>2. \A k \in 0..(number_of_children - 1) : fifoPc[{k}] = "written"
    <3> SUFFICES ASSUME NEW k \in 0..(number_of_children - 1) PROVE fifoPc[{k}] = "written"
      OBVIOUS
    <3>1. k \in 0..(Parts - 1)
      BY <1>1
    <3>2. {k} \in Ps /\ {k} # {} /\ F!Parent({k}) = {}
      BY <3>1, Singles
    <3>3. fifoPc[{k}] \in F!Ended \cup {"none"}
      BY <2>1, <3>2 DEF F!Waited, F!main
    <3>4. fifoPc[{k}] # "none" /\ fifoPc[{k}] \in {"exec", "open", "write", "written"}
      BY <1>3, <2>1, <3>2 DEF MainAdds
    <3> QED BY <3>3, <3>4 DEF F!Ended
  <2>3. WrittenParts = 0..(number_of_children - 1)
    <3>1. ASSUME NEW k \in WrittenParts PROVE k \in 0..(number_of_children - 1)
      <4>1. {k} \in Ps /\ {k} # {} /\ fifoPc[{k}] = "written"
        BY Singles DEF WrittenParts
      <4>2. \E l \in 0..(pass[{}] - 1) : {k} = {l}
        BY <1>3, <4>1 DEF MainAdds
      <4> QED BY <2>1, <4>2
    <3>2. 0..(number_of_children - 1) \subseteq 0..(Parts - 1)
      BY <1>1
    <3> QED BY <2>2, <3>1, <3>2 DEF WrittenParts
  <2>4. Len(fifo) = number_of_children
    <3>1. number_of_children \in Nat \ {0}
      BY <1>1
    <3>2. Cardinality(0..(number_of_children - 1)) = number_of_children
      BY <3>1, FS_Interval
    <3> QED BY <1>3, <2>1, <2>3, <3>2 DEF MainAdds
  <2>5. /\ \A j, k \in DOMAIN sums'[{}] : sums'[{}][j] = sums'[{}][k] => j = k
        /\ Len(sums'[{}]) = F!Min({number_of_children, F!BuffSize})
    <3> DEFINE R == 0..(Parts - 1)
    <3>1. PICK b \in Nat \ {0} : b = F!BuffSize
      BY <1>1
    <3>2. fifo \in Seq(R)
      BY <1>1
    <3> HIDE DEF R
    <3>3. PICK m \in Nat :
            /\ m <= Len(fifo) /\ m = F!Min({b, Len(fifo)})
            /\ m = IF b <= Len(fifo) THEN b ELSE Len(fifo)
            /\ SubSeq(fifo, 1, m) \in Seq(R) /\ Len(SubSeq(fifo, 1, m)) = m
            /\ \A k \in 1..m : SubSeq(fifo, 1, m)[k] = fifo[k]
            /\ SubSeq(fifo, b + 1, Len(fifo)) \in Seq(R)
            /\ Len(SubSeq(fifo, b + 1, Len(fifo))) = Len(fifo) - m
            /\ \A k \in 1..(Len(fifo) - m) : SubSeq(fifo, b + 1, Len(fifo))[k] = fifo[m + k]
      <4>1. PICK m \in Nat : Splits(fifo, R, b, m)
        BY <3>2, ReadSplits
      <4> QED BY <4>1, Zenon DEF Splits
    <3>4. sums'[{}] = SubSeq(fifo, 1, m)
      BY <1>1, <2>1, <3>1, <3>3
    <3>5. /\ sums'[{}] \in Seq(R) /\ Len(sums'[{}]) = m
          /\ \A k \in 1..m : sums'[{}][k] = fifo[k]
      BY <3>3, <3>4, Zenon
    <3>6. DOMAIN sums'[{}] = 1..m /\ 1..m \subseteq DOMAIN fifo
      <4>1. DOMAIN sums'[{}] = 1..m
        BY <3>5
      <4>2. PICK n \in Nat : n = Len(fifo) /\ DOMAIN fifo = 1..n
        BY <3>2
      <4>3. 1..m \subseteq 1..n
        BY <3>3, <4>2
      <4> QED BY <4>1, <4>2, <4>3
    <3>7. \A j, k \in DOMAIN fifo : fifo[j] = fifo[k] => j = k
      BY <1>3, <2>1 DEF MainAdds
    <3>8. m = F!Min({number_of_children, F!BuffSize})
      <4>1. {b, Len(fifo)} = {number_of_children, F!BuffSize}
        BY <2>4, <3>1
      <4> QED BY <3>3, <4>1
    <3> QED BY <3>5, <3>6, <3>7, <3>8
  <2>6. PICK to \in {"failed", "remove"} :
          \A q \in Ps : fifoPc'[q] = IF q = {} THEN to ELSE fifoPc[q]
    BY <1>1, <2>1
  <2>7. \A k \in 0..(number_of_children - 1) :
          fifoPc'[{k}] = "written"
    <3>1. \A k \in 0..(number_of_children - 1) : {k} \in Ps /\ {k} # {}
      BY FirstPasses
    <3> QED BY <2>2, <2>6, <3>1
  <2>8. \A q \in Ps : q # {} /\ fifoPc'[q] # "none" =>
          /\ \E k \in 0..(pass'[{}] - 1) : q = {k}
          /\ fifoPc'[q] \in {"exec", "open", "write", "written"}
    BY <1>3, <2>1, <2>6 DEF MainAdds
  <2>9. \A k \in 0..(pass'[{}] - 1) : fifoPc'[{k}] # "none"
    BY <2>1, <2>7
  <2>10. exists' /\ fifoPc'[{}] \in {"failed", "remove"}
    BY <1>1, <1>3, <2>1, <2>6 DEF MainAdds
  <2>11. Len(sums'[{}]) = F!Min({number_of_children', F!BuffSize'})
    BY <1>2, <2>5
  <2> QED BY <1>2, <2>1, <2>5, <2>7, <2>8, <2>9, <2>10, <2>11 DEF MainAdds, F!Min
<1>7. CASE p = {} /\ (F!ForkFails(p) \/ F!Remove(p))
  <2>1. PICK to \in {"failed", "done"} :
          /\ \A q \in Ps : fifoPc'[q] = IF q = {} THEN to ELSE fifoPc[q]
          /\ to = "done" => fifoPc[{}] = "remove"
          /\ to = "failed" => exists' = exists /\ fifoPc[{}] = "loop"
          /\ UNCHANGED <<pass, fifo, sums>>
    BY <1>1, <1>7 DEF F!ForkFails, F!Remove
  <2>2. \A q \in Ps : q # {} /\ fifoPc'[q] # "none" =>
          /\ \E k \in 0..(pass'[{}] - 1) : q = {k}
          /\ fifoPc'[q] \in {"exec", "open", "write", "written"}
    BY <1>3, <2>1 DEF MainAdds
  <2>3. \A k \in 0..(pass[{}] - 1) : {k} \in Ps /\ {k} # {}
    BY FirstPasses
  <2>4. \A k \in 0..(pass'[{}] - 1) : fifoPc'[{k}] # "none"
    BY <1>3, <2>1, <2>3 DEF MainAdds
  <2>5. CASE to = "failed"
    <3>1. fifoPc'[{}] = "failed" /\ exists'
      BY <1>1, <1>3, <2>1, <2>5 DEF MainAdds
    <3> QED BY <2>2, <2>4, <3>1 DEF MainAdds
  <2>6. CASE to = "done"
    <3>1. pass[{}] = number_of_children
      BY <1>3, <2>1, <2>6 DEF MainAdds
    <3>2. \A k \in 0..(number_of_children' - 1) : fifoPc'[{k}] = "written"
      BY <1>2, <1>3, <2>1, <2>3, <2>6, <3>1 DEF MainAdds
    <3>3. /\ \A j, k \in DOMAIN sums'[{}] : sums'[{}][j] = sums'[{}][k] => j = k
          /\ Len(sums'[{}]) = F!Min({number_of_children', F!BuffSize'})
      BY <1>2, <1>3, <2>1, <2>6 DEF MainAdds
    <3>4. fifoPc'[{}] = "done"
      BY <1>1, <2>1, <2>6
    <3> QED BY <1>2, <2>1, <2>2, <2>4, <3>1, <3>2, <3>3, <3>4 DEF MainAdds, F!Min
  <2> QED BY <2>5, <2>6
<1>8. CASE p # {} /\ (F!Exec(p) \/ F!Open(p))
  <2>1. PICK to \in {"open", "write", "lost"} :
          /\ fifoPc[p] \in {"exec", "open"}
          /\ \A q \in Ps : fifoPc'[q] = IF q = p THEN to ELSE fifoPc[q]
          /\ to = "lost" => fifoPc[p] = "open" /\ ~exists
          /\ UNCHANGED <<pass, fifo, sums, exists>>
    BY <1>1, <1>8 DEF F!Exec, F!Open
  <2>2. PICK l \in 0..(pass[{}] - 1) : p = {l}
    BY <1>4, <1>8
  <2>3. fifoPc[{}] \notin {"remove", "done"}
    BY <1>3, <2>1, <2>2 DEF MainAdds
  <2>4. to # "lost" /\ fifoPc'[{}] = fifoPc[{}]
    BY <1>1, <1>3, <1>8, <2>1, <2>3 DEF MainAdds
  <2>5. WrittenParts' = WrittenParts
    BY <2>1, <2>4, Singles DEF WrittenParts
  <2>6. \A q \in Ps : q # {} /\ fifoPc'[q] # "none" =>
          /\ \E k \in 0..(pass'[{}] - 1) : q = {k}
          /\ fifoPc'[q] \in {"exec", "open", "write", "written"}
    BY <1>3, <2>1, <2>2, <2>4 DEF MainAdds
  <2>7. \A k \in 0..(pass'[{}] - 1) : fifoPc'[{k}] # "none"
    <3>1. \A k \in 0..(pass[{}] - 1) : {k} \in Ps
      BY FirstPasses
    <3> QED BY <1>3, <2>1, <2>4, <3>1 DEF MainAdds
  <2> QED BY <1>3, <2>1, <2>3, <2>4, <2>5, <2>6, <2>7 DEF MainAdds
<1>9. CASE p # {} /\ F!Write(p)
  <2>1. /\ fifoPc[p] = "write"
        /\ fifo' = Append(fifo, F!Part(p))
        /\ \A q \in Ps : fifoPc'[q] = IF q = p THEN "written" ELSE fifoPc[q]
        /\ UNCHANGED <<pass, sums, exists>>
    BY <1>1, <1>9 DEF F!Write
  <2>2. PICK l \in 0..(pass[{}] - 1) : p = {l}
    BY <1>4, <1>9
  <2>3. l \in 0..(Parts - 1) /\ F!Part(p) = l /\ \A k \in 0..(pass[{}] - 1) : {k} \in Ps
    <3>1. 0..(pass[{}] - 1) \subseteq 0..(Parts - 1)
      BY <1>1
    <3> QED BY <2>2, <3>1, Singles
  <2>4. fifoPc[{}] \notin {"remove", "done"} /\ fifoPc'[{}] = fifoPc[{}]
    <3>1. fifoPc[{}] \notin {"remove", "done"}
      BY <1>3, <2>1, <2>2 DEF MainAdds
    <3> QED BY <1>1, <1>9, <2>1, <3>1
  <2>5. WrittenParts' = WrittenParts \cup {l} /\ l \notin WrittenParts
    <3>1. \A k \in 0..(Parts - 1) : {k} = p <=> k = l
      BY <2>2
    <3> QED BY <2>1, <2>2, <2>3, <3>1, Singles DEF WrittenParts
  <2>6. /\ Len(fifo) \in Nat /\ DOMAIN fifo = 1..Len(fifo)
        /\ Len(fifo') = Len(fifo) + 1 /\ DOMAIN fifo' = 1..(Len(fifo) + 1)
        /\ \A k \in 1..Len(fifo) : fifo'[k] = fifo[k]
        /\ fifo'[Len(fifo) + 1] = l
    BY <1>1, <2>1, <2>3
  <2>7. ASSUME fifoPc[{}] = "loop"
        PROVE  /\ \A j, k \in DOMAIN fifo' : fifo'[j] = fifo'[k] => j = k
               /\ \A k \in DOMAIN fifo' : fifo'[k] \in WrittenParts'
               /\ Len(fifo') = Cardinality(WrittenParts')
    <3>1. /\ \A j, k \in DOMAIN fifo : fifo[j] = fifo[k] => j = k
          /\ \A k \in DOMAIN fifo : fifo[k] \in WrittenParts
          /\ Len(fifo) = Cardinality(WrittenParts)
      BY <1>3, <2>7 DEF MainAdds
    <3>2. \A k \in DOMAIN fifo' : fifo'[k] \in WrittenParts'
      BY <2>5, <2>6, <3>1
    <3>3. \A k \in 1..Len(fifo) : fifo[k] # l
      BY <2>5, <2>6, <3>1
    <3>4. \A j, k \in DOMAIN fifo' : fifo'[j] = fifo'[k] => j = k
      BY <2>6, <3>1, <3>3
    <3>5. IsFiniteSet(WrittenParts)
      <4>1. IsFiniteSet(0..(Parts - 1))
        BY <1>1, FS_Interval
      <4> QED BY <4>1, FS_Subset DEF WrittenParts
    <3>6. Cardinality(WrittenParts') = Cardinality(WrittenParts) + 1
      BY <2>5, <3>5, FS_AddElement
    <3> QED BY <2>6, <3>1, <3>2, <3>4, <3>6
  <2>8. \A q \in Ps : q # {} /\ fifoPc'[q] # "none" =>
          /\ \E k \in 0..(pass'[{}] - 1) : q = {k}
          /\ fifoPc'[q] \in {"exec", "open", "write", "written"}
    BY <1>3, <2>1, <2>2 DEF MainAdds
  <2>9. \A k \in 0..(pass'[{}] - 1) : fifoPc'[{k}] # "none"
    BY <1>3, <2>1, <2>3 DEF MainAdds
  <2> QED BY <1>3, <2>1, <2>4, <2>7, <2>8, <2>9 DEF MainAdds
<1>10. fifoPc[p] \in {"loop", "remove"} => p = {}
  BY <1>3 DEF MainAdds
<1>11. p = {} => fifoPc[p] \notin {"exec", "open", "write"}
  BY DEF FifoNames
<1> QED BY <1>3, <1>5, <1>6, <1>7, <1>8, <1>9, <1>10, <1>11
      DEF F!Step, F!Fork, F!ForkFails, F!Exec, F!Open, F!Write, F!Read, F!Remove

(* All together: the part that stays for main, and for the other programs. *)

FifoInv ==
  /\ FifoType /\ FifoNames /\ MainAdds
  /\ \A part \in 0..(Parts - 1) : Conserved(part)

LEMMA ConservedInit ==
  ASSUME F!Init \/ FifoEnded, FifoType, NEW part \in 0..(Parts - 1)
  PROVE  Conserved(part)
<1>1. /\ fifo = <<>>
      /\ \A p \in F!Processes : fifoPc[p] # "written" /\ sums[p] = <<>>
  BY DEF F!Init, FifoEnded
<1>2. Waiting(part) = {} /\ Summed(part) = {} /\ Written(part) = {}
  BY <1>1 DEF Waiting, Summed, Written
<1>3. /\ Cardinality(Waiting(part)) = 0 /\ Cardinality(Summed(part)) = 0
      /\ Cardinality(Written(part)) = 0
  BY <1>2, FS_EmptySet
<1> QED BY <1>3 DEF Conserved

LEMMA FifoHolds == F!Init \/ FifoEnded => FifoInv
<1>1. F!Init \/ FifoEnded => FifoType /\ FifoNames
  BY FifoInit
<1> QED BY <1>1, MainInit, ConservedInit DEF FifoInv

LEMMA FifoStep ==
  ASSUME FifoInv, F!Next \/ UNCHANGED named
  PROVE  FifoInv'
<1>1. CASE F!Next
  <2>1. PICK p \in F!Processes : F!Step(p)
    BY <1>1 DEF F!Next
  <2>2. FifoType'
    BY <2>1, FifoTypeStep DEF FifoInv
  <2>3. FifoNames'
    BY <2>1, FifoNamesStep DEF FifoInv
  <2>4. MainAdds'
    BY <2>1, MainStep DEF FifoInv
  <2>5. ASSUME NEW part \in 0..(Parts - 1) PROVE Conserved(part)'
    BY <2>1, <2>2, ConservedStep DEF FifoInv
  <2> QED BY <2>2, <2>3, <2>4, <2>5 DEF FifoInv
<1>2. CASE UNCHANGED named
  <2>1. FifoType' /\ FifoNames'
    BY <1>2 DEF named, FifoInv, FifoType, FifoNames
  <2>2. MainAdds'
    BY <1>2 DEF named, FifoInv, MainAdds, WrittenParts, F!BuffSize
  <2>3. ASSUME NEW part \in 0..(Parts - 1) PROVE Conserved(part)'
    BY <1>2 DEF named, FifoInv, Conserved, Waiting, Summed, Written, F!BuffSize
  <2> QED BY <2>1, <2>2, <2>3 DEF FifoInv
<1> QED BY <1>1, <1>2

LEMMA FifoAdds == FifoInv => ResultsAddedOnce
<1> SUFFICES ASSUME FifoInv PROVE ResultsAddedOnce
  OBVIOUS
<1>1. ASSUME fifoPc[{}] = "done", failed = {}
      PROVE  /\ F!IsInjective(sums[{}])
             /\ Len(sums[{}]) = F!Min({number_of_children, F!BuffSize})
  BY <1>1 DEF FifoInv, MainAdds, F!IsInjective
<1>2. \A S : F!Cardinality(S) = Cardinality(S)
  BY DEF F!Cardinality, Cardinality
<1>3. ASSUME NEW part \in 0..(Parts - 1)
      PROVE  F!Cardinality(Waiting(part)) + F!Cardinality(Summed(part))
               = F!Cardinality(Written(part))
  BY <1>2 DEF FifoInv, Conserved
<1> QED BY <1>1, <1>3
      DEF ResultsAddedOnce, F!ResultsAddedOnce, F!main, Waiting, Summed, Written

(***************************************************************************)
(* If no execl fails, main adds each result once, or as many as its buffer *)
(* has room for; and whatever fails, each result that was written is in    *)
(* the pipe or was added by exactly one process (lab5/zad3/program.c and   *)
(* calculate.c), for any number of parts and any sizes of the pipe and the *)
(* buffer.                                                                 *)
(***************************************************************************)
THEOREM AddedOnce == ProgramsSpec => []ResultsAddedOnce
<1>1. ProgramsInit => FifoInv
  BY FifoHolds DEF ProgramsInit
<1>2. FifoInv /\ [ProgramsNext]_programs => FifoInv'
  BY FifoStep DEF ProgramsNext, programs
<1> QED BY <1>1, <1>2, FifoAdds, PTL DEF ProgramsSpec

-----------------------------------------------------------------------------
(* The types of lab5/zad2: what pipe has opened fits, and every partial    *)
(* result is a set of blocks of the interval.                              *)

PipeBounds ==
  /\ width \in Widths /\ N \in Children
  /\ \A k \in 0..N : range[k] <= P!Blocks
  /\ fds \in 0..MaxFds
  /\ pipeStatus \in {"fork", "child", "read"} /\ i \notin unpiped => fds + 2 <= MaxFds
  /\ unpiped \subseteq 0..(N - 1)
  /\ out \in P!PartialResults
  /\ \A k \in 1..Len(results) : results[k] \in P!PartialResults
  /\ \A k \in 1..Len(added) : added[k] \in P!PartialResults

LEMMA PipeBoundsInit == P!Init \/ PipeEnded => PipeBounds
<1> SUFFICES ASSUME P!Init \/ PipeEnded PROVE PipeBounds
  OBVIOUS
<1>1. /\ width \in Widths /\ fds = 0 /\ i = 0 /\ unpiped = {}
      /\ pipeStatus \in {"pipe", "failed"} /\ out = P!Uninitialized
      /\ results = <<>> /\ added = <<>>
  BY DEF P!Init, PipeEnded
<1>2. P!Blocks \in Nat
  BY <1>1, PipeConstants, Division DEF P!Blocks
<1>3. PICK n \in Children : range \in [0..n -> 0..P!Blocks]
  <2>1. CASE P!Init
    <3>1. PICK n \in Children : range \in P!split_array(n, width)
      BY <2>1 DEF P!Init
    <3>2. range \in [0..n -> 0..P!Blocks]
      BY <3>1 DEF P!split_array, P!Blocks
    <3> QED BY <3>2
  <2>2. CASE PipeEnded
    <3>1. PICK n : n \in Children /\ n = (CHOOSE m \in Children : TRUE)
      BY ProgramsAssumption
    <3>2. range = [k \in 0..n |-> 0]
      BY <2>2, <3>1 DEF PipeEnded
    <3>3. range \in [0..n -> 0..P!Blocks]
      BY <1>2, <3>2
    <3> QED BY <3>1, <3>3
  <2> QED BY <2>1, <2>2
<1>4. n \in Nat \ {0} /\ N = n
  <2>1. n \in Nat \ {0} /\ n \in Nat
    BY PipeConstants
  <2>2. DOMAIN range = 0..n
    BY <1>3
  <2> QED BY <2>1, <2>2, PointsAreChildren, Zenon
<1>5. MaxFds \in Nat
  BY ProgramsAssumption
<1>6. out \in P!PartialResults
  BY <1>1, Zenon DEF P!PartialResults
<1>7. \A k \in 0..N : range[k] <= P!Blocks
  BY <1>2, <1>3, <1>4
<1>8. N \in Children /\ fds \in 0..MaxFds /\ unpiped \subseteq 0..(N - 1)
  BY <1>1, <1>3, <1>4, <1>5
<1>9. Len(results) = 0 /\ Len(added) = 0
  BY <1>1
<1> QED BY <1>1, <1>6, <1>7, <1>8, <1>9 DEF PipeBounds

LEMMA PipeBoundsStep == PipeInv /\ PipeBounds /\ P!Next => PipeBounds'
<1> SUFFICES ASSUME PipeInv, PipeBounds, P!Next PROVE PipeBounds'
  OBVIOUS
<1>1. /\ width' = width /\ range' = range /\ N' = N /\ P!Blocks' = P!Blocks
      /\ P!PartialResults' = P!PartialResults
  <2>1. UNCHANGED <<width, range>>
    BY DEF P!Next, P!Pipe, P!Fork, P!ForkFails, P!Child, P!Read, P!Return, P!parameters
  <2> QED BY <2>1 DEF N, P!number_of_children, P!Blocks, P!PartialResults
<1>2. /\ N \in Nat /\ i \in Nat /\ i <= N /\ MaxFds \in Nat
      /\ results \in Seq(SUBSET Int) /\ added \in Seq(SUBSET Int)
  BY ProgramsAssumption DEF PipeInv, PipeSplit, PipeType
<1>3. CASE P!Pipe
  <2>1. /\ i < N
        /\ \/ fds + 2 <= MaxFds /\ unpiped' = unpiped
           \/ unpiped' = unpiped \cup {i}
        /\ UNCHANGED <<i, fds, out, results, added>>
    BY <1>3 DEF P!Pipe, N
  <2>2. unpiped' \subseteq 0..(N - 1)
    <3>1. i \in 0..(N - 1)
      BY <1>2, <2>1
    <3>2. unpiped \subseteq 0..(N - 1)
      BY DEF PipeBounds
    <3> QED BY <2>1, <3>1, <3>2, Zenon
  <2>3. i \notin unpiped' => fds' + 2 <= MaxFds
    BY <2>1
  <2> QED BY <1>1, <2>1, <2>2, <2>3 DEF PipeBounds
<1>4. CASE P!Fork \/ P!ForkFails \/ P!Return
  <2>1. /\ pipeStatus' \in {"child", "failed", "done"}
        /\ pipeStatus' = "child" => pipeStatus = "fork"
        /\ UNCHANGED <<i, fds, unpiped, out, results, added>>
    BY <1>4 DEF P!Fork, P!ForkFails, P!Return
  <2> QED BY <1>1, <2>1 DEF PipeBounds
<1>5. CASE P!Child
  <2>1. PICK result \in P!calculate(range[i], range[i + 1]) :
          results' = Append(results, result)
    BY <1>5 DEF P!Child
  <2>2. /\ pipeStatus = "child" /\ pipeStatus' = "read"
        /\ UNCHANGED <<i, fds, unpiped, out, added>>
    BY <1>5 DEF P!Child
  <2>3. /\ range[i] \in Nat /\ range[i + 1] \in Nat /\ range[i + 1] <= P!Blocks
        /\ P!Blocks \in Nat
    BY <1>2, <2>2 DEF PipeInv, PipeSplit, PipeType, PipeBounds
  <2>4. result \in P!PartialResults /\ result \in SUBSET Int
    BY <2>1, <2>3 DEF P!calculate, P!PartialResults
  <2>5. \A k \in 1..Len(results') : results'[k] \in P!PartialResults
    BY <1>2, <2>1, <2>4 DEF PipeBounds
  <2> QED BY <1>1, <2>2, <2>5 DEF PipeBounds
<1>6. CASE P!Read
  <2>1. /\ pipeStatus = "read" /\ pipeStatus' = "pipe" /\ i' = i + 1
        /\ fds' \in IF i \in unpiped THEN {fds, fds - 1} \cap Nat ELSE {fds + 1}
        /\ out' = IF pipeBuffer = <<>> THEN out ELSE pipeBuffer[1]
        /\ added' = Append(added, out')
        /\ UNCHANGED <<unpiped, results>>
    BY <1>6 DEF P!Read
  <2>2. fds' \in 0..MaxFds
    BY <1>2, <2>1 DEF PipeBounds
  <2>3. out' \in P!PartialResults
    <3>1. out' = out \/ (Len(results) = i + 1 /\ out' = results[i + 1])
      BY <2>1 DEF PipeInv, PipeResults
    <3> QED BY <1>2, <3>1 DEF PipeBounds
  <2>4. out' \in SUBSET Int
    BY <2>3 DEF P!PartialResults, P!Uninitialized
  <2>5. \A k \in 1..Len(added') : added'[k] \in P!PartialResults
    BY <1>2, <2>1, <2>3, <2>4 DEF PipeBounds
  <2> QED BY <1>1, <2>1, <2>2, <2>3, <2>5 DEF PipeBounds
<1> QED BY <1>3, <1>4, <1>5, <1>6 DEF P!Next

LEMMA PipeTypes == PipeInv /\ PipeBounds => P!TypeOK
<1> SUFFICES ASSUME PipeInv, PipeBounds PROVE P!TypeOK
  OBVIOUS
<1>1. /\ N \in Nat \ {0} /\ i \in 0..N /\ range \in [0..N -> Nat] /\ P!Blocks \in Nat
      /\ results \in Seq(SUBSET Int) /\ added \in Seq(SUBSET Int)
      /\ Len(added) = i /\ Len(results) <= N
      /\ pipeStatus \in {"pipe", "fork", "child", "read", "done", "failed"}
  BY DEF PipeInv, PipeSplit, PipeType, PipeResults, PipeAdded
<1>2. range \in UNION {[0..n -> 0..P!Blocks] : n \in Children}
  <2>1. range \in [0..N -> 0..P!Blocks]
    BY <1>1 DEF PipeBounds
  <2> QED BY <2>1 DEF PipeBounds
<1>3. \A s \in {results, added} :
        DOMAIN s \subseteq 1..N /\ \A k \in DOMAIN s : s[k] \in P!PartialResults
  BY <1>1 DEF PipeBounds
<1>4. /\ DOMAIN pipeBuffer \subseteq 1..N
      /\ \A k \in DOMAIN pipeBuffer : pipeBuffer[k] \in P!PartialResults
  <2>1. \/ pipeBuffer = <<>>
        \/ Len(results) = i + 1 /\ pipeBuffer = <<results[i + 1]>>
    BY DEF PipeInv, PipeResults
  <2> QED BY <1>1, <2>1 DEF PipeBounds
<1> QED BY <1>1, <1>2, <1>3, <1>4 DEF P!TypeOK, PipeBounds, N

-----------------------------------------------------------------------------
(* The types of lab5/zad3: a result is written where there is room for it. *)

FifoBounds ==
  /\ fifoWidth \in {"positive", "zero"}
  /\ fifoSizes \in Sizes
  /\ Len(fifo) <= F!Capacity

LEMMA FifoBoundsInit == F!Init \/ FifoEnded => FifoBounds
<1> SUFFICES ASSUME F!Init \/ FifoEnded PROVE FifoBounds
  OBVIOUS
<1>1. fifoWidth \in {"positive", "zero"} /\ fifoSizes \in Sizes /\ fifo = <<>>
  BY ProgramsAssumption DEF F!Init, FifoEnded
<1>2. F!Capacity \in Nat
  BY <1>1, FifoConstants DEF F!Capacity
<1> QED BY <1>1, <1>2 DEF FifoBounds

LEMMA FifoBoundsStep ==
  ASSUME FifoInv, FifoBounds, NEW p \in F!Processes, F!Step(p)
  PROVE  FifoBounds'
<1> DEFINE R == 0..(Parts - 1)
<1>1. UNCHANGED <<fifoWidth, fifoSizes>>
  BY DEF F!Step, F!Fork, F!ForkFails, F!Exec, F!ExecFails, F!Open, F!Write, F!Read,
         F!Remove, F!parameters
<1>2. F!Capacity \in Nat /\ F!Capacity' = F!Capacity
  BY <1>1, FifoConstants DEF F!Capacity, FifoBounds
<1>3. fifo \in Seq(R) /\ F!BuffSize \in Nat \ {0}
  BY DEF FifoInv, FifoType, F!BuffSize
<1>4. Len(fifo') <= F!Capacity
  <2>1. CASE F!Write(p)
    BY <1>2, <1>3, <2>1 DEF F!Write
  <2>2. CASE F!Read(p)
    <3>1. fifo' = SubSeq(fifo, F!BuffSize + 1, Len(fifo))
      BY <2>2 DEF F!Read
    <3>2. PICK b \in Nat \ {0} : b = F!BuffSize
      BY <1>3
    <3> HIDE DEF R
    <3>3. PICK l \in Nat : Splits(fifo, R, b, l)
      BY <1>3, ReadSplits
    <3>4. l <= Len(fifo) /\ Len(SubSeq(fifo, b + 1, Len(fifo))) = Len(fifo) - l
      BY <3>3, Zenon DEF Splits
    <3> QED BY <1>2, <1>3, <3>1, <3>2, <3>4 DEF FifoBounds
  <2>3. CASE UNCHANGED fifo
    BY <2>3 DEF FifoBounds
  <2> QED BY <2>1, <2>2, <2>3 DEF F!Step, F!Fork, F!ForkFails, F!Exec, F!ExecFails,
            F!Open, F!Remove
<1> QED BY <1>1, <1>2, <1>4 DEF FifoBounds

LEMMA FifoTypes == FifoInv /\ FifoBounds => F!TypeOK
<1> SUFFICES ASSUME FifoInv, FifoBounds PROVE F!TypeOK
  OBVIOUS
<1>1. pass \in [F!Processes -> 0..Parts]
  <2>1. number_of_children \in 1..Parts /\ Parts \in Nat
    BY FifoConstants DEF FifoInv, FifoType
  <2>2. \A x \in 0..number_of_children : x \in 0..Parts
    BY <2>1
  <2>3. pass \in [F!Processes -> 0..number_of_children]
    BY DEF FifoInv, FifoType
  <2> QED BY <2>2, <2>3
<1> QED BY <1>1 DEF FifoInv, FifoType, FifoBounds, F!TypeOK

-----------------------------------------------------------------------------
(* The types of lab4/zad1: a process raises the signal once in each        *)
(* program that it runs, and it runs two at most.                          *)

InheritBounds ==
  /\ terminal \in BOOLEAN
  /\ argc \in {3, 4}
  /\ stdout \in [I!Processes -> Seq(I!Lines)]
  /\ output \in Seq(I!Lines)
  /\ raised \in [I!Processes -> 0..2]
  /\ inheritPc["parent"] \in {"main", "install", "block", "raise"} => raised["parent"] <= argc - 3
  /\ raised["parent"] <= argc - 2
  /\ raised["child"] = 0 \/ inheritPc["child"] \in {"report", "exit", "done", "killed"}
  /\ raised["child"] <= 1

LEMMA InheritBoundsInit == I!Init \/ InheritanceEnded => InheritBounds
<1> SUFFICES ASSUME I!Init \/ InheritanceEnded PROVE InheritBounds
  OBVIOUS
<1>1. /\ terminal \in BOOLEAN /\ argc \in {3, 4}
      /\ stdout = [p \in I!Processes |-> <<>>] /\ output = <<>>
      /\ raised = [p \in I!Processes |-> 0]
  BY DEF I!Init, InheritanceEnded
<1>2. raised \in [I!Processes -> 0..2] /\ \A p \in I!Processes : raised[p] = 0
  BY <1>1
<1> QED BY <1>1, <1>2 DEF InheritBounds, I!Processes

LEMMA Words ==
  ASSUME NEW S, NEW a \in S, NEW b \in S
  PROVE  <<>> \in Seq(S) /\ <<a>> \in Seq(S) /\ <<a, b>> \in Seq(S)
OBVIOUS

\* What printf adds to the buffer or to the output are lines.
LEMMA PrintfTypes ==
  ASSUME NEW p \in I!Processes, NEW lines \in Seq(I!Reports),
         stdout \in [I!Processes -> Seq(I!Lines)],
         output \in Seq(I!Lines), terminal \in BOOLEAN,
         I!printf(p, lines)
  PROVE  /\ stdout' \in [I!Processes -> Seq(I!Lines)]
         /\ output' \in Seq(I!Lines)
<1> DEFINE L == I!Lines
           printed == [k \in DOMAIN lines |-> <<p, lines[k]>>]
<1>1. printed \in Seq(L)
  <2>1. printed \in [1..Len(lines) -> L]
    BY DEF I!Lines
  <2> QED BY <2>1
<1> HIDE DEF L
<1>2. /\ output' = IF terminal THEN output \o printed ELSE output
      /\ stdout' = IF terminal THEN stdout
                               ELSE [stdout EXCEPT ![p] = stdout[p] \o printed]
  BY DEF I!printf
<1> HIDE DEF printed
<1>3. stdout \in [I!Processes -> Seq(L)] /\ output \in Seq(L)
  BY DEF L
<1>4. output \o printed \in Seq(L) /\ stdout[p] \o printed \in Seq(L)
  BY <1>1, <1>3
<1>5. stdout' \in [I!Processes -> Seq(L)] /\ output' \in Seq(L)
  BY <1>2, <1>3, <1>4
<1> QED BY <1>5 DEF L

LEMMA InheritBoundsStep == InheritInv /\ InheritBounds /\ I!Next => InheritBounds'
<1> SUFFICES ASSUME InheritInv, InheritBounds, I!Next PROVE InheritBounds'
  OBVIOUS
<1> DEFINE Texts == Seq(I!Lines)
<1>1. CASE \E p \in I!Processes : I!raise_signal(p)
  <2>1. PICK p \in I!Processes : I!raise_signal(p)
    BY <1>1
  <2> DEFINE lines == IF disposition[p] = "handler" /\ ~blocked[p]
                        THEN <<"raising", "handling">> ELSE <<"raising">>
  <2>2. lines \in Seq(I!Reports)
    <3>1. "raising" \in I!Reports /\ "handling" \in I!Reports
      BY DEF I!Reports
    <3> QED BY <3>1, Words
  <2>3. I!printf(p, lines)
    BY <2>1 DEF I!raise_signal
  <2> HIDE DEF lines
  <2>4. stdout' \in [I!Processes -> Texts] /\ output' \in Texts
    BY <2>2, <2>3, PrintfTypes DEF InheritBounds
  <2>5. /\ UNCHANGED <<terminal, argc>>
        /\ raised' = [raised EXCEPT ![p] = raised[p] + 1]
        /\ inheritPc[p] = "raise"
        /\ \E to \in {"report", "killed"} : inheritPc' = [inheritPc EXCEPT ![p] = to]
    BY <2>1 DEF I!raise_signal, I!parameters
  <2> HIDE DEF Texts
  <2>6. /\ raised' \in [I!Processes -> 0..2]
        /\ inheritPc'["parent"] \in {"main", "install", "block", "raise"} =>
             raised'["parent"] <= argc' - 3
        /\ raised'["parent"] <= argc' - 2
        /\ raised'["child"] = 0 \/ inheritPc'["child"] \in {"report", "exit", "done", "killed"}
        /\ raised'["child"] <= 1
    BY <2>5 DEF InheritBounds, InheritInv, I!Processes
  <2> QED BY <2>4, <2>5, <2>6 DEF InheritBounds, Texts
<1>2. CASE \E p \in I!Processes : I!print_is_pending(p)
  <2>1. PICK p \in I!Processes : I!print_is_pending(p)
    BY <1>2
  <2> DEFINE lines == IF command # "pending" THEN <<>>
                      ELSE IF inheritPending[p] THEN <<"pending">> ELSE <<"not pending">>
  <2>2. lines \in Seq(I!Reports)
    <3>1. "pending" \in I!Reports /\ "not pending" \in I!Reports
      BY DEF I!Reports
    <3> QED BY <3>1, Words
  <2>3. I!printf(p, lines)
    BY <2>1 DEF I!print_is_pending
  <2> HIDE DEF lines
  <2>4. stdout' \in [I!Processes -> Texts] /\ output' \in Texts
    BY <2>2, <2>3, PrintfTypes DEF InheritBounds
  <2>5. /\ UNCHANGED <<terminal, argc, raised>>
        /\ inheritPc[p] = "report"
        /\ inheritPc' = [inheritPc EXCEPT ![p] = IF p = "parent" THEN function ELSE "exit"]
    BY <2>1 DEF I!print_is_pending, I!parameters
  <2> HIDE DEF Texts
  <2>6. /\ raised'["child"] = 0 \/ inheritPc'["child"] \in {"report", "exit", "done", "killed"}
        /\ inheritPc'["parent"] \in {"main", "install", "block", "raise"} =>
             raised'["parent"] <= argc' - 3
    BY <2>5 DEF InheritBounds, InheritInv, I!Processes, I!Functions
  <2> QED BY <2>4, <2>5, <2>6 DEF InheritBounds, Texts
<1>3. CASE \E p \in I!Processes : I!Exit(p)
  <2>1. PICK p \in I!Processes : I!Exit(p)
    BY <1>3
  <2>2. /\ UNCHANGED <<terminal, argc, raised>>
        /\ inheritPc' = [inheritPc EXCEPT ![p] = "done"]
        /\ output' = output \o stdout[p] /\ stdout' = [stdout EXCEPT ![p] = <<>>]
    BY <2>1 DEF I!Exit, I!parameters
  <2>3. stdout' \in [I!Processes -> Texts] /\ output' \in Texts
    <3>1. stdout \in [I!Processes -> Texts] /\ output \in Texts /\ <<>> \in Texts
      BY DEF InheritBounds
    <3>2. output \o stdout[p] \in Texts
      BY <3>1
    <3> HIDE DEF Texts
    <3> QED BY <2>2, <3>1, <3>2
  <2> HIDE DEF Texts
  <2>4. /\ raised'["child"] = 0 \/ inheritPc'["child"] \in {"report", "exit", "done", "killed"}
        /\ inheritPc'["parent"] \in {"main", "install", "block", "raise"} =>
             raised'["parent"] <= argc' - 3
    BY <2>2 DEF InheritBounds, InheritInv, I!Processes
  <2> QED BY <2>2, <2>3, <2>4 DEF InheritBounds, Texts
<1>4. CASE I!Fork \/ I!Exec
  <2>1. stdout' \in [I!Processes -> Texts]
    <3>1. stdout \in [I!Processes -> Texts] /\ <<>> \in Texts
      BY DEF InheritBounds
    <3> HIDE DEF Texts
    <3> QED BY <1>4, <3>1 DEF I!Fork, I!Exec, I!Processes
  <2>2. /\ UNCHANGED <<terminal, output, raised>>
        /\ argc' = argc \/ (argc = 3 /\ argc' = 4)
    BY <1>4 DEF I!Fork, I!Exec, I!parameters
  <2> HIDE DEF Texts
  <2>3. /\ raised'["child"] = 0 \/ inheritPc'["child"] \in {"report", "exit", "done", "killed"}
        /\ inheritPc'["parent"] \in {"main", "install", "block", "raise"} =>
             raised'["parent"] <= argc' - 3
        /\ raised'["parent"] <= argc' - 2
    BY <1>4, <2>2 DEF InheritBounds, InheritInv, I!Processes, I!Fork, I!Exec
  <2> QED BY <2>1, <2>2, <2>3 DEF InheritBounds, Texts
<1>5. CASE I!ForkFails \/ I!Wait \/ I!ExecNot
  BY <1>5 DEF InheritBounds, InheritInv, I!Processes, I!parameters, I!ForkFails, I!Wait, I!ExecNot
<1>6. CASE \E p \in I!Processes : I!Main(p) \/ I!Install(p) \/ I!Block(p)
  BY <1>6 DEF InheritBounds, InheritInv, I!Processes, I!parameters, I!Main, I!Install, I!Block
<1> QED BY <1>1, <1>2, <1>3, <1>4, <1>5, <1>6 DEF I!Next

LEMMA InheritTypes == InheritInv /\ InheritBounds => I!TypeOK
BY DEF InheritInv, InheritBounds, I!TypeOK

-----------------------------------------------------------------------------
(* lab2: what each program has put into the output file when it has read   *)
(* the input up to, or down to, pos.                                       *)

Translated(k) == IF input[k] = search THEN replace ELSE input[k]

Before == Len(C!Created)

Kept == /\ Len(fileOutput) >= Before
        /\ \A k \in 1..Before : fileOutput[k] = C!Created[k]

\* reverse2 has put out b blocks, each but for its first byte.
BlocksOut(b) ==
  /\ Kept
  /\ Len(fileOutput) = Before + b * (BLOCK_SIZE - 1)
  /\ \A c \in 0..(b - 1), k \in 1..(BLOCK_SIZE - 1) :
       fileOutput[Before + c * (BLOCK_SIZE - 1) + k] = input[C!Size + 1 - (c * BLOCK_SIZE + k)]

FilesType ==
  /\ program \in Programs /\ input \in Inputs /\ old \in Outputs
  /\ fileStatus \in {"open", "copy", "offset", "done", "failed", "crashed"}
  /\ fileStatus = "open" => pos = 0 /\ fileOutput = old
  /\ fileStatus \in {"copy", "offset", "done"} =>
       /\ input # None
       /\ fileOutput \in Seq(C!Bytes)
  /\ pos \in Nat /\ (input # None => pos <= C!Size)
  /\ fileOutput \in Seq(C!Bytes) \cup {None}

FilesCopied ==
  /\ fileStatus = "copy" /\ program = "zamien" =>
       /\ Len(fileOutput) = IF pos <= Before THEN Before ELSE pos
       /\ \A k \in 1..Len(fileOutput) :
            fileOutput[k] = IF k <= pos THEN Translated(k) ELSE C!Created[k]
  /\ fileStatus = "copy" /\ program = "zamien2" =>
       /\ Kept /\ Len(fileOutput) = Before + pos
       /\ \A k \in 1..pos : fileOutput[Before + k] = Translated(k)
  /\ fileStatus = "copy" /\ program = "reverse" =>
       /\ Kept
       /\ IF C!Size = 0 THEN pos = 0 /\ Len(fileOutput) = Before
          ELSE /\ pos < C!Size /\ Len(fileOutput) = Before + C!Size - 1 - pos
               /\ \A k \in 1..(C!Size - 1 - pos) :
                    fileOutput[Before + k] = input[C!Size + 1 - k]
  /\ fileStatus = "copy" /\ program = "reverse2" =>
       \E b \in Nat :
         /\ BlocksOut(b)
         /\ \/ pos = C!Size - (b + 1) * BLOCK_SIZE
            \/ b = 0 /\ pos = 0 /\ C!Size < BLOCK_SIZE
  /\ fileStatus = "offset" =>
       /\ program = "reverse2"
       /\ \E b \in Nat :
            /\ BlocksOut(b)
            /\ b = C!Blocks

FilesInv == FilesType /\ FilesCopied /\ CopiesMatch

\* w is s and then t.
Joins(w, s, t, T) ==
  /\ w \in Seq(T) /\ Len(w) = Len(s) + Len(t)
  /\ \A k \in 1..Len(s) : w[k] = s[k]
  /\ \A k \in 1..Len(t) : w[Len(s) + k] = t[k]

LEMMA Joined ==
  ASSUME NEW T, NEW s \in Seq(T), NEW t \in Seq(T)
  PROVE  Joins(s \o t, s, t, T)
<1> DEFINE w == s \o t
<1>1. /\ w \in Seq(T) /\ Len(w) = Len(s) + Len(t)
      /\ \A k \in 1..(Len(s) + Len(t)) :
           w[k] = IF k <= Len(s) THEN s[k] ELSE t[k - Len(s)]
  BY ConcatProperties
<1>2. Len(s) \in Nat /\ Len(t) \in Nat
  OBVIOUS
<1> HIDE DEF w
<1>3. ASSUME NEW k \in 1..Len(t) PROVE w[Len(s) + k] = t[k]
  <2>1. Len(s) + k \in 1..(Len(s) + Len(t)) /\ ~(Len(s) + k <= Len(s)) /\ (Len(s) + k) - Len(s) = k
    BY <1>2
  <2> QED BY <1>1, <2>1
<1>4. Joins(w, s, t, T)
  BY <1>1, <1>2, <1>3 DEF Joins
<1> QED BY <1>4 DEF w

LEMMA FileBytes ==
  /\ replace \in C!Bytes /\ Garbage \in C!Bytes
  /\ Inputs \cup Outputs \subseteq Seq(C!Bytes) \cup {None}
  /\ BLOCK_SIZE \in Nat \ {0}
<1>1. replace \in C!Bytes /\ Garbage \in C!Bytes
  BY DEF C!Bytes
<1> QED BY <1>1, ProgramsAssumption, FilesAssumption

LEMMA FileSequences ==
  ASSUME old \in Outputs, input \in Inputs
  PROVE  /\ C!Created \in Seq(C!Bytes) /\ Before \in Nat
         /\ input # None => input \in Seq(C!Bytes) /\ C!Size \in Nat
<1>1. C!Created \in Seq(C!Bytes)
  BY FileBytes DEF C!Created
<1>2. input # None => input \in Seq(C!Bytes)
  BY FileBytes
<1> QED BY <1>1, <1>2 DEF Before, C!Size

\* zamien writes one byte over the byte at position p, or adds it at the end.
Overwrites(w, s, p, c, T) ==
  /\ w \in Seq(T) /\ Len(w) = IF p < Len(s) THEN Len(s) ELSE p + 1
  /\ \A k \in 1..Len(w) : w[k] = IF k = p + 1 THEN c ELSE s[k]

LEMMA Overwritten ==
  ASSUME NEW T, NEW s \in Seq(T), NEW p \in Nat, p <= Len(s), NEW c \in T,
         NEW w, w = (SubSeq(s, 1, p) \o <<c>>) \o SubSeq(s, p + 2, Len(s))
  PROVE  Overwrites(w, s, p, c, T)
<1> DEFINE first == SubSeq(s, 1, p)
           head == first \o <<c>>
           last == SubSeq(s, p + 2, Len(s))
<1>1. first \in Seq(T) /\ Len(first) = p /\ \A k \in 1..p : first[k] = s[k]
  BY FirstOf
<1>2. <<c>> \in Seq(T) /\ Len(<<c>>) = 1 /\ <<c>>[1] = c
  OBVIOUS
<1> HIDE DEF first
<1>3. /\ head \in Seq(T) /\ Len(head) = p + 1
      /\ \A k \in 1..p : head[k] = s[k]
      /\ head[p + 1] = c
  <2>1. PICK t \in Seq(T) : t = <<c>>
    BY <1>2
  <2>2. Len(t) = 1 /\ t[1] = c /\ head = first \o t
    BY <1>2, <2>1
  <2> HIDE DEF head
  <2>3. Joins(head, first, t, T)
    BY <1>1, <2>2, Joined, Zenon
  <2>4. head[Len(first) + 1] = t[1]
    BY <2>2, <2>3 DEF Joins
  <2>5. Len(head) = p + 1 /\ head[p + 1] = c
    BY <1>1, <2>2, <2>3, <2>4 DEF Joins
  <2> QED BY <1>1, <2>3, <2>5 DEF Joins
<1> HIDE DEF head
<1>4. /\ last \in Seq(T)
      /\ Len(last) = IF p < Len(s) THEN Len(s) - (p + 1) ELSE 0
      /\ \A k \in 1..Len(last) : last[k] = s[p + 1 + k]
  <2>1. CASE p < Len(s)
    <3>1. PICK m \in Nat : m = p + 1 /\ m <= Len(s)
      BY <2>1
    <3>2. m + 1 = p + 2
      BY <3>1
    <3>3. /\ SubSeq(s, m + 1, Len(s)) \in Seq(T)
          /\ Len(SubSeq(s, m + 1, Len(s))) = Len(s) - m
          /\ \A k \in 1..(Len(s) - m) : SubSeq(s, m + 1, Len(s))[k] = s[m + k]
      BY <3>1, RestOf
    <3> QED BY <2>1, <3>1, <3>2, <3>3
  <2>2. CASE p = Len(s)
    <3>1. p + 2 \in Int /\ Len(s) \in Int /\ Len(s) < p + 2
      BY <2>2
    <3>2. last = <<>>
      BY <3>1, SubSeqEmpty, Zenon
    <3> QED BY <2>2, <3>2
  <2>3. p < Len(s) \/ p = Len(s)
    OBVIOUS
  <2> QED BY <2>1, <2>2, <2>3
<1> HIDE DEF last
<1>5. w = head \o last
  BY DEF head, first, last
<1>6. /\ w \in Seq(T) /\ Len(w) = (p + 1) + Len(last)
      /\ \A k \in 1..(p + 1) : w[k] = head[k]
      /\ \A k \in 1..Len(last) : w[(p + 1) + k] = last[k]
  <2>1. Joins(w, head, last, T)
    BY <1>3, <1>4, <1>5, Joined, Zenon
  <2> QED BY <1>3, <2>1 DEF Joins
<1>7. Len(w) = IF p < Len(s) THEN Len(s) ELSE p + 1
  BY <1>4, <1>6
<1>8. ASSUME NEW k \in 1..Len(w) PROVE w[k] = IF k = p + 1 THEN c ELSE s[k]
  <2>1. CASE k <= p + 1
    BY <1>3, <1>6, <2>1
  <2>2. CASE k > p + 1
    <3>1. PICK l \in 1..Len(last) : k = (p + 1) + l
      <4>1. Len(last) \in Nat
        BY <1>4
      <4>2. Len(w) = (p + 1) + Len(last)
        BY <1>6
      <4> DEFINE n == Len(w)
      <4>3. k \in Nat /\ k <= (p + 1) + Len(last)
        <5>1. k \in 1..n /\ n = (p + 1) + Len(last)
          BY <4>2
        <5> HIDE DEF n
        <5> QED BY <4>1, <5>1
      <4>4. k - (p + 1) \in 1..Len(last) /\ k = (p + 1) + (k - (p + 1))
        BY <2>2, <4>1, <4>3
      <4> QED BY <4>4
    <3> QED BY <1>4, <1>6, <3>1
  <2> QED BY <2>1, <2>2
<1> QED BY <1>6, <1>7, <1>8 DEF Overwrites

LEMMA Downwards ==
  ASSUME FilesType, input # None,
         NEW first \in Int, NEW last \in Nat, last <= first + 1
  PROVE  /\ C!Down(first, last) \in Seq(C!Bytes)
         /\ Len(C!Down(first, last)) = first - last + 1
         /\ \A k \in 1..(first - last + 1) : first - k + 2 <= C!Size =>
              C!Down(first, last)[k] = input[first - k + 2]
<1> DEFINE T == C!Bytes
           n == first - last + 1
           d == C!Down(first, last)
<1>1. input \in Seq(T) /\ C!Size \in Nat /\ C!Size = Len(input) /\ Garbage \in T
  BY FileSequences, FileBytes DEF FilesType, C!Size
<1> HIDE DEF T
<1>2. n \in Nat
  OBVIOUS
<1>3. d = [k \in 1..n |-> IF first - k + 2 <= C!Size THEN input[first - k + 2] ELSE Garbage]
  BY DEF C!Down
<1>4. ASSUME NEW k \in 1..n
      PROVE  (IF first - k + 2 <= C!Size THEN input[first - k + 2] ELSE Garbage) \in T
  <2>1. first - k + 2 \in Nat \ {0}
    OBVIOUS
  <2> QED BY <1>1, <2>1
<1> HIDE DEF d
<1>5. d \in [1..n -> T]
  BY <1>3, <1>4
<1>6. d \in Seq(T) /\ Len(d) = n
  <2> HIDE DEF n
  <2> QED BY <1>2, <1>5
<1> QED BY <1>3, <1>6 DEF d, T

LEMMA FilesInit == C!Init \/ FilesEnded => FilesInv
<1> SUFFICES ASSUME C!Init \/ FilesEnded PROVE FilesInv
  OBVIOUS
<1>1. /\ program \in Programs /\ input \in Inputs /\ old \in Outputs
      /\ fileStatus \in {"open", "failed"} /\ pos = 0
      /\ fileStatus = "open" => fileOutput = old
      /\ fileOutput = old \/ fileOutput = None
  BY ProgramsAssumption DEF C!Init, FilesEnded
<1>2. input # None => C!Size \in Nat
  BY <1>1, FileSequences
<1>3. fileOutput \in Seq(C!Bytes) \cup {None}
  BY <1>1, FileBytes
<1>4. FilesType
  BY <1>1, <1>2, <1>3 DEF FilesType
<1>5. FilesCopied /\ CopiesMatch
  BY <1>1 DEF FilesCopied, CopiesMatch, C!CopiesMatch
<1> QED BY <1>4, <1>5 DEF FilesInv

\* What depends on the parameters only.
LEMMA FilesFixed ==
  ASSUME UNCHANGED C!files
  PROVE  /\ C!Size' = C!Size /\ C!Created' = C!Created /\ Before' = Before
         /\ C!Bytes' = C!Bytes /\ C!Blocks' = C!Blocks /\ C!Rest' = C!Rest
         /\ C!Reversed' = C!Reversed /\ C!Replaced' = C!Replaced
         /\ UNCHANGED <<program, input, old>>
         /\ \A k : Translated(k)' = Translated(k)
BY DEF C!files, C!Size, C!Created, Before, Translated, C!Bytes, C!Blocks, C!Rest,
       C!Reversed, C!Replaced

LEMMA FilesOpen ==
  ASSUME FilesInv, C!OpenFails \/ C!Open \/ C!WriteFails
  PROVE  FilesInv'
<1>1. /\ program \in Programs /\ input \in Inputs /\ old \in Outputs
      /\ C!Created \in Seq(C!Bytes) /\ Before \in Nat /\ Before = Len(C!Created)
      /\ input # None => input \in Seq(C!Bytes) /\ C!Size \in Nat
      /\ BLOCK_SIZE \in Nat \ {0}
  BY FileSequences, FileBytes DEF FilesInv, FilesType, Before
<1>2. /\ C!Size' = C!Size /\ C!Created' = C!Created /\ Before' = Before
      /\ C!Bytes' = C!Bytes
      /\ UNCHANGED <<program, input, old>>
  BY FilesFixed DEF C!OpenFails, C!Open, C!WriteFails
<1>3. CASE C!OpenFails \/ C!WriteFails
  <2>1. /\ fileStatus' \in {"failed", "crashed"} /\ pos' = pos
        /\ fileOutput' = fileOutput \/ fileOutput' = C!Created
    BY <1>3 DEF C!OpenFails, C!WriteFails
  <2>2. FilesType'
    BY <1>1, <1>2, <2>1 DEF FilesInv, FilesType
  <2>3. FilesCopied' /\ CopiesMatch'
    BY <2>1 DEF FilesCopied, CopiesMatch, C!CopiesMatch
  <2> QED BY <2>2, <2>3 DEF FilesInv
<1>4. CASE C!Open
  <2> DEFINE step == CASE C!Replacing -> C!Size
                       [] program = "reverse" -> 1
                       [] OTHER -> BLOCK_SIZE
  <2>1. /\ fileStatus' = "copy" /\ input # None /\ fileOutput' = C!Created
        /\ pos' = IF step <= C!Size THEN C!Size - step ELSE 0
    BY <1>4 DEF C!Open
  <2>2. C!Size \in Nat /\ step \in Nat
    BY <1>1, <2>1
  <2>3. pos' \in Nat /\ pos' <= C!Size
    <3> HIDE DEF step
    <3> QED BY <2>1, <2>2
  <2>4. FilesType'
    BY <1>1, <1>2, <2>1, <2>3 DEF FilesInv, FilesType
  <2>5. Kept' /\ Len(fileOutput') = Before
    BY <1>1, <1>2, <2>1 DEF Kept
  <2>6. program \in {"zamien", "zamien2"} => pos' = 0
    BY <2>1, <2>2 DEF C!Replacing
  <2>7. program = "reverse" => pos' = IF C!Size = 0 THEN 0 ELSE C!Size - 1
    BY <2>1, <2>2 DEF C!Replacing
  <2>8. program = "reverse2" =>
          pos' = IF BLOCK_SIZE <= C!Size THEN C!Size - BLOCK_SIZE ELSE 0
    BY <2>1 DEF C!Replacing
  <2>9. ASSUME program = "reverse2"
        PROVE  /\ BlocksOut(0)'
               /\ \/ pos' = C!Size - (0 + 1) * BLOCK_SIZE
                  \/ pos' = 0 /\ C!Size < BLOCK_SIZE
    BY <1>1, <1>2, <2>2, <2>5, <2>8, <2>9 DEF BlocksOut
  <2>10. program = "zamien" =>
           /\ Len(fileOutput') = IF pos' <= Before THEN Before ELSE pos'
           /\ \A k \in 1..Len(fileOutput') :
                fileOutput'[k] = IF k <= pos' THEN Translated(k)' ELSE C!Created[k]
    BY <1>1, <2>1, <2>5, <2>6
  <2>11. program = "zamien2" =>
           /\ Len(fileOutput') = Before + pos'
           /\ \A k \in 1..pos' : fileOutput'[Before + k] = Translated(k)'
    BY <1>1, <2>1, <2>5, <2>6
  <2>12. program = "reverse" =>
           IF C!Size = 0 THEN pos' = 0 /\ Len(fileOutput') = Before
           ELSE /\ pos' < C!Size /\ Len(fileOutput') = Before + C!Size - 1 - pos'
                /\ \A k \in 1..(C!Size - 1 - pos') :
                     fileOutput'[Before + k] = input[C!Size + 1 - k]
    BY <1>1, <2>2, <2>5, <2>7
  <2>13. program = "reverse2" =>
           \E b \in Nat :
             /\ BlocksOut(b)'
             /\ \/ pos' = C!Size - (b + 1) * BLOCK_SIZE
                \/ b = 0 /\ pos' = 0 /\ C!Size < BLOCK_SIZE
    BY <2>9
  <2>14. FilesCopied'
    BY <1>2, <2>1, <2>5, <2>10, <2>11, <2>12, <2>13 DEF FilesCopied
  <2>15. CopiesMatch'
    BY <2>1 DEF CopiesMatch, C!CopiesMatch
  <2> QED BY <2>4, <2>14, <2>15 DEF FilesInv
<1> QED BY <1>3, <1>4

LEMMA TranslatedInput ==
  ASSUME FilesType, input # None
  PROVE  /\ C!Replaced \in Seq(C!Bytes) /\ Len(C!Replaced) = C!Size
         /\ \A k \in 1..C!Size : C!Replaced[k] = Translated(k) /\ Translated(k) \in C!Bytes
<1> DEFINE T == C!Bytes
           tr == C!Replaced
<1>1. input \in Seq(T) /\ C!Size \in Nat /\ C!Size = Len(input) /\ replace \in T
  BY FileSequences, FileBytes DEF FilesType, C!Size
<1> HIDE DEF T
<1>2. PICK n \in Nat : n = C!Size
  BY <1>1
<1>3. \A k \in 1..n : tr[k] = Translated(k) /\ Translated(k) \in T
  BY <1>1, <1>2 DEF Translated, C!Replaced
<1>4. tr \in [1..n -> T]
  BY <1>2, <1>3 DEF C!Replaced
<1>5. tr \in Seq(T) /\ Len(tr) = n
  BY <1>2, <1>4
<1> QED BY <1>2, <1>3, <1>5 DEF T

LEMMA FilesReplace ==
  ASSUME FilesInv, C!replaceCharacters
  PROVE  FilesInv'
<1> DEFINE T == C!Bytes
<1>1. /\ program \in Programs /\ input \in Inputs /\ old \in Outputs
      /\ fileStatus = "copy" /\ program \in {"zamien", "zamien2"} /\ input # None
      /\ C!Created \in Seq(T) /\ Before \in Nat /\ Before = Len(C!Created)
      /\ input \in Seq(T) /\ C!Size \in Nat
      /\ pos \in Nat /\ pos <= C!Size /\ fileOutput \in Seq(T)
  BY FileSequences DEF FilesInv, FilesType, Before, C!replaceCharacters, C!Replacing
<1>2. /\ C!Size' = C!Size /\ C!Created' = C!Created /\ Before' = Before
      /\ C!Bytes' = C!Bytes
      /\ UNCHANGED <<program, input, old>>
      /\ \A k : Translated(k)' = Translated(k)
  BY FilesFixed DEF C!replaceCharacters
<1>3. CASE pos = C!Size
  <2>1. fileStatus' = "done" /\ UNCHANGED <<pos, fileOutput>>
    BY <1>3 DEF C!replaceCharacters
  <2>2. FilesType'
    BY <1>1, <1>2, <2>1 DEF FilesInv, FilesType
  <2>3. FilesCopied'
    BY <2>1 DEF FilesCopied
  <2>4. PICK tr : tr = C!Replaced /\ C!Replaced' = C!Replaced
    BY <1>2 DEF C!Replaced
  <2>5. /\ tr \in Seq(T) /\ Len(tr) = C!Size
        /\ \A k \in 1..C!Size : tr[k] = Translated(k)
    BY <1>1, <2>4, TranslatedInput DEF FilesInv
  <2> HIDE DEF T
  <2>6. CASE program = "zamien"
    <3> DEFINE rest == SubSeq(C!Created, C!Size + 1, Len(C!Created))
    <3>1. /\ rest \in Seq(T)
          /\ Len(rest) = IF C!Size <= Before THEN Before - C!Size ELSE 0
          /\ \A k \in 1..Len(rest) : rest[k] = C!Created[C!Size + k]
      <4>1. CASE C!Size <= Before
        <5>1. /\ rest \in Seq(T) /\ Len(rest) = Before - C!Size
              /\ \A k \in 1..(Before - C!Size) : rest[k] = C!Created[C!Size + k]
          BY <1>1, <4>1, RestOf
        <5> HIDE DEF rest
        <5> QED BY <4>1, <5>1
      <4>2. CASE Before < C!Size
        <5>1. /\ C!Size + 1 \in Int /\ Len(C!Created) \in Int /\ Len(C!Created) < C!Size + 1
              /\ ~(C!Size <= Before)
          BY <1>1, <4>2
        <5>2. rest = <<>>
          BY <5>1, SubSeqEmpty, Zenon
        <5> HIDE DEF rest
        <5> QED BY <5>1, <5>2
      <4> HIDE DEF rest
      <4> QED BY <1>1, <4>1, <4>2
    <3> HIDE DEF rest
    <3>2. PICK w : w = tr \o rest
      OBVIOUS
    <3>3. Joins(w, tr, rest, T)
      BY <2>5, <3>1, <3>2, Joined, Zenon
    <3>4. /\ w \in Seq(T) /\ Len(w) = C!Size + Len(rest)
          /\ \A k \in 1..C!Size : w[k] = Translated(k)
          /\ \A k \in 1..Len(rest) : w[C!Size + k] = C!Created[C!Size + k]
      BY <2>5, <3>1, <3>3 DEF Joins
    <3>5. /\ Len(fileOutput) = IF C!Size <= Before THEN Before ELSE C!Size
          /\ \A k \in 1..Len(fileOutput) :
               fileOutput[k] = IF k <= C!Size THEN Translated(k) ELSE C!Created[k]
      BY <1>1, <1>3, <2>6 DEF FilesInv, FilesCopied
    <3>6. Len(w) = Len(fileOutput)
      BY <1>1, <3>1, <3>4, <3>5
    <3>7. ASSUME NEW k \in 1..Len(fileOutput) PROVE fileOutput[k] = w[k]
      <4>1. CASE k <= C!Size
        BY <1>1, <3>4, <3>5, <4>1
      <4>2. CASE k > C!Size
        <5>1. Len(rest) \in Nat /\ Len(fileOutput) = C!Size + Len(rest)
          BY <3>4, <3>6
        <5>2. k - C!Size \in 1..Len(rest) /\ C!Size + (k - C!Size) = k /\ ~(k <= C!Size)
          BY <1>1, <4>2, <5>1
        <5>3. w[C!Size + (k - C!Size)] = C!Created[C!Size + (k - C!Size)]
          BY <3>4, <5>2
        <5> QED BY <3>5, <5>2, <5>3
      <4> QED BY <1>1, <4>1, <4>2
    <3>8. fileOutput = w
      BY <1>1, <3>4, <3>6, <3>7, SeqEqual
    <3>9. fileOutput = tr \o SubSeq(C!Created, C!Size + 1, Len(C!Created))
      BY <3>2, <3>8 DEF rest
    <3> QED BY <1>2, <2>1, <2>2, <2>3, <2>4, <2>6, <3>9
            DEF FilesInv, CopiesMatch, C!CopiesMatch
  <2>7. CASE program = "zamien2"
    <3>1. PICK w : w = C!Created \o tr
      OBVIOUS
    <3>2. Joins(w, C!Created, tr, T)
      BY <1>1, <2>5, <3>1, Joined, Zenon
    <3>3. /\ w \in Seq(T) /\ Len(w) = Before + C!Size
          /\ \A k \in 1..Before : w[k] = C!Created[k]
          /\ \A k \in 1..C!Size : w[Before + k] = Translated(k)
      BY <1>1, <2>5, <3>2 DEF Joins
    <3>4. /\ Len(fileOutput) = Before + C!Size
          /\ \A k \in 1..Before : fileOutput[k] = C!Created[k]
          /\ \A k \in 1..C!Size : fileOutput[Before + k] = Translated(k)
      BY <1>1, <1>3, <2>7 DEF FilesInv, FilesCopied, Kept
    <3>5. ASSUME NEW k \in 1..Len(fileOutput) PROVE fileOutput[k] = w[k]
      <4>1. CASE k <= Before
        BY <1>1, <3>3, <3>4, <4>1
      <4>2. CASE k > Before
        <5>1. k - Before \in 1..C!Size /\ Before + (k - Before) = k
          BY <1>1, <3>4, <4>2
        <5>2. w[Before + (k - Before)] = fileOutput[Before + (k - Before)]
          BY <3>3, <3>4, <5>1
        <5> QED BY <5>1, <5>2
      <4> QED BY <1>1, <4>1, <4>2
    <3>6. fileOutput = w
      BY <1>1, <3>3, <3>4, <3>5, SeqEqual
    <3> QED BY <1>2, <2>1, <2>2, <2>3, <2>4, <2>7, <3>1, <3>6
            DEF FilesInv, CopiesMatch, C!CopiesMatch
  <2> QED BY <1>1, <2>6, <2>7
<1>4. CASE pos # C!Size
  <2>1. PICK c : c = IF input[pos + 1] = search THEN replace ELSE input[pos + 1]
    OBVIOUS
  <2>2. C!Put(<<c>>) /\ pos' = pos + 1 /\ fileStatus' = fileStatus
    BY <1>4, <2>1 DEF C!replaceCharacters
  <2>3. c = Translated(pos + 1) /\ c \in T /\ pos + 1 \in Nat /\ pos + 1 <= C!Size
    <3>1. pos + 1 \in 1..C!Size
      BY <1>1, <1>4
    <3>2. input[pos + 1] \in T /\ replace \in T
      BY <1>1, <3>1, FileBytes DEF C!Size
    <3> QED BY <1>1, <2>1, <3>1, <3>2 DEF Translated
  <2>4. <<c>> \in Seq(T) /\ Len(<<c>>) = 1 /\ <<c>>[1] = c
    BY <2>3
  <2> HIDE DEF T
  <2>5. CASE program = "zamien"
    <3>1. fileOutput' = (SubSeq(fileOutput, 1, pos) \o <<c>>)
                          \o SubSeq(fileOutput, pos + 2, Len(fileOutput))
      <4>1. pos + Len(<<c>>) + 1 = pos + 2
        BY <1>1, <2>4
      <4> QED BY <2>2, <2>5, <4>1 DEF C!Put
    <3>2. /\ Len(fileOutput) = IF pos <= Before THEN Before ELSE pos
          /\ \A k \in 1..Len(fileOutput) :
               fileOutput[k] = IF k <= pos THEN Translated(k) ELSE C!Created[k]
      BY <1>1, <2>5 DEF FilesInv, FilesCopied
    <3>3. /\ fileOutput' \in Seq(T)
          /\ Len(fileOutput') = IF pos < Len(fileOutput) THEN Len(fileOutput) ELSE pos + 1
          /\ \A k \in 1..Len(fileOutput') :
               fileOutput'[k] = IF k = pos + 1 THEN c ELSE fileOutput[k]
      <4>1. pos <= Len(fileOutput)
        BY <1>1, <3>2
      <4>2. Overwrites(fileOutput', fileOutput, pos, c, T)
        BY <1>1, <2>3, <3>1, <4>1, Overwritten, Zenon
      <4> QED BY <4>2 DEF Overwrites
    <3>4. Len(fileOutput') = IF pos' <= Before THEN Before ELSE pos'
      BY <1>1, <2>2, <3>2, <3>3
    <3>5. ASSUME NEW k \in 1..Len(fileOutput')
          PROVE  fileOutput'[k] = IF k <= pos' THEN Translated(k) ELSE C!Created[k]
      <4>1. CASE k = pos + 1
        BY <1>1, <2>2, <2>3, <3>3, <4>1
      <4>2. CASE k # pos + 1
        <5>1. k \in 1..Len(fileOutput) /\ (k <= pos + 1 <=> k <= pos)
          BY <1>1, <3>2, <3>3, <4>2
        <5> QED BY <2>2, <3>2, <3>3, <4>2, <5>1
      <4> QED BY <4>1, <4>2
    <3>6. FilesType'
      BY <1>1, <1>2, <2>2, <2>3, <3>3 DEF FilesInv, FilesType, T
    <3>7. FilesCopied'
      BY <1>1, <1>2, <2>2, <2>5, <3>4, <3>5 DEF FilesCopied
    <3> QED BY <1>1, <2>2, <3>6, <3>7 DEF FilesInv, CopiesMatch, C!CopiesMatch
  <2>6. CASE program = "zamien2"
    <3>1. fileOutput' = fileOutput \o <<c>>
      BY <2>2, <2>6 DEF C!Put
    <3>2. Joins(fileOutput', fileOutput, <<c>>, T)
      BY <1>1, <2>4, <3>1, Joined, Zenon
    <3>3. /\ Kept /\ Len(fileOutput) = Before + pos
          /\ \A k \in 1..pos : fileOutput[Before + k] = Translated(k)
      BY <1>1, <2>6 DEF FilesInv, FilesCopied
    <3>4. /\ fileOutput' \in Seq(T) /\ Len(fileOutput') = Before + pos'
          /\ \A k \in 1..(Before + pos) : fileOutput'[k] = fileOutput[k]
          /\ fileOutput'[Before + pos + 1] = c
      BY <1>1, <2>2, <2>4, <3>2, <3>3 DEF Joins
    <3>5. Kept'
      BY <1>1, <1>2, <2>2, <3>3, <3>4 DEF Kept
    <3>6. ASSUME NEW k \in 1..pos' PROVE fileOutput'[Before + k] = Translated(k)
      <4>1. CASE k = pos + 1
        <5>1. Before + k = Before + pos + 1
          BY <1>1, <4>1
        <5> QED BY <2>3, <3>4, <4>1, <5>1
      <4>2. CASE k # pos + 1
        <5>1. k \in 1..pos /\ Before + k \in 1..(Before + pos)
          BY <1>1, <2>2, <4>2
        <5> QED BY <3>3, <3>4, <5>1
      <4> QED BY <4>1, <4>2
    <3>7. FilesType'
      BY <1>1, <1>2, <2>2, <2>3, <3>4 DEF FilesInv, FilesType, T
    <3>8. FilesCopied'
      BY <1>1, <1>2, <2>2, <2>6, <3>4, <3>5, <3>6 DEF FilesCopied
    <3> QED BY <1>1, <2>2, <3>7, <3>8 DEF FilesInv, CopiesMatch, C!CopiesMatch
  <2> QED BY <1>1, <2>5, <2>6
<1> QED BY <1>3, <1>4

\* What is added at the end leaves the output that was there as it was.
LEMMA KeptIfAdded ==
  ASSUME NEW T, fileOutput \in Seq(T), NEW t \in Seq(T), Before \in Nat, Kept,
         fileOutput' = fileOutput \o t, Before' = Before, C!Created' = C!Created
  PROVE  /\ Joins(fileOutput', fileOutput, t, T)
         /\ Kept'
<1>1. Joins(fileOutput', fileOutput, t, T)
  BY Joined, Zenon
<1>2. /\ Len(fileOutput') = Len(fileOutput) + Len(t)
      /\ \A k \in 1..Len(fileOutput) : fileOutput'[k] = fileOutput[k]
  BY <1>1 DEF Joins
<1>3. Len(fileOutput) \in Nat /\ Len(t) \in Nat
  OBVIOUS
<1>4. Kept'
  BY <1>2, <1>3 DEF Kept
<1> QED BY <1>1, <1>4

LEMMA ReversedInput ==
  ASSUME FilesType, input # None
  PROVE  /\ C!Reversed \in Seq(C!Bytes) /\ Len(C!Reversed) = C!Size
         /\ \A k \in 1..C!Size : C!Reversed[k] = input[C!Size + 1 - k]
<1> DEFINE T == C!Bytes
           reversed == C!Reversed
<1>1. input \in Seq(T) /\ C!Size \in Nat /\ C!Size = Len(input)
  BY FileSequences DEF FilesType, C!Size
<1> HIDE DEF T
<1>2. PICK n \in Nat : n = C!Size
  BY <1>1
<1>3. \A k \in 1..n : input[n + 1 - k] \in T
  BY <1>1, <1>2
<1>4. reversed \in [1..n -> T] /\ \A k \in 1..n : reversed[k] = input[n + 1 - k]
  BY <1>2, <1>3 DEF C!Reversed
<1>5. reversed \in Seq(T) /\ Len(reversed) = n
  BY <1>2, <1>4
<1> QED BY <1>2, <1>4, <1>5 DEF T

LEMMA FilesReverse ==
  ASSUME FilesInv, C!reverse
  PROVE  FilesInv'
<1> DEFINE T == C!Bytes
<1>1. /\ program \in Programs /\ input \in Inputs /\ old \in Outputs
      /\ fileStatus = "copy" /\ program = "reverse" /\ input # None
      /\ C!Created \in Seq(T) /\ Before \in Nat /\ Before = Len(C!Created)
      /\ input \in Seq(T) /\ C!Size \in Nat /\ C!Size = Len(input)
      /\ pos \in Nat /\ pos <= C!Size /\ fileOutput \in Seq(T)
  BY FileSequences DEF FilesInv, FilesType, Before, C!Size, C!reverse
<1>2. /\ C!Size' = C!Size /\ C!Created' = C!Created /\ Before' = Before
      /\ C!Bytes' = C!Bytes
      /\ UNCHANGED <<program, input, old>>
  BY FilesFixed DEF C!reverse
<1>3. PICK c : c = IF C!Size = 0 THEN Garbage ELSE input[pos + 1]
  OBVIOUS
<1>4. /\ Kept
      /\ IF C!Size = 0 THEN pos = 0 /\ Len(fileOutput) = Before
         ELSE /\ pos < C!Size /\ Len(fileOutput) = Before + C!Size - 1 - pos
              /\ \A k \in 1..(C!Size - 1 - pos) :
                   fileOutput[Before + k] = input[C!Size + 1 - k]
  BY <1>1 DEF FilesInv, FilesCopied
<1>5. c \in T
  <2> HIDE DEF T
  <2>1. Garbage \in T
    BY FileBytes DEF T
  <2>2. C!Size # 0 => pos + 1 \in 1..Len(input)
    BY <1>1, <1>4
  <2> QED BY <1>1, <1>3, <2>1, <2>2
<1>6. fileOutput' = fileOutput \o <<c>>
  BY <1>1, <1>3 DEF C!reverse, C!Put
<1> HIDE DEF T
<1>7. <<c>> \in Seq(T) /\ Len(<<c>>) = 1 /\ <<c>>[1] = c
  BY <1>5
<1>8. Joins(fileOutput', fileOutput, <<c>>, T) /\ Kept'
  BY <1>1, <1>2, <1>4, <1>6, <1>7, KeptIfAdded
<1>9. /\ fileOutput' \in Seq(T) /\ Len(fileOutput') = Len(fileOutput) + 1
      /\ \A k \in 1..Len(fileOutput) : fileOutput'[k] = fileOutput[k]
      /\ fileOutput'[Len(fileOutput) + 1] = c
  BY <1>7, <1>8 DEF Joins
<1>10. ASSUME C!Size # 0, NEW k \in 1..(C!Size - pos)
       PROVE  fileOutput'[Before + k] = input[C!Size + 1 - k]
  <2>1. CASE k = C!Size - pos
    <3>1. Before + k = Len(fileOutput) + 1 /\ C!Size + 1 - k = pos + 1
      BY <1>1, <1>4, <1>10, <2>1
    <3> QED BY <1>3, <1>9, <1>10, <3>1
  <2>2. CASE k # C!Size - pos
    <3>1. k \in 1..(C!Size - 1 - pos) /\ Before + k \in 1..Len(fileOutput)
      BY <1>1, <1>4, <1>10, <2>2
    <3> QED BY <1>4, <1>9, <1>10, <3>1
  <2> QED BY <2>1, <2>2
<1>11. CASE pos = 0
  <2>1. fileStatus' = "done" /\ pos' = pos
    BY <1>11 DEF C!reverse
  <2>2. FilesType'
    BY <1>1, <1>2, <1>9, <2>1 DEF FilesInv, FilesType, T
  <2>3. FilesCopied'
    BY <2>1 DEF FilesCopied
  <2>4. PICK reversed : reversed = C!Reversed /\ C!Reversed' = C!Reversed
    BY <1>2 DEF C!Reversed
  <2>5. /\ reversed \in Seq(T) /\ Len(reversed) = C!Size
        /\ \A k \in 1..C!Size : reversed[k] = input[C!Size + 1 - k]
    BY <1>1, <2>4, ReversedInput DEF FilesInv, T
  <2>6. PICK t \in Seq(T) : t = IF C!Size = 0 THEN <<c>> ELSE reversed
    BY <1>7, <2>5
  <2>7. /\ Len(t) = IF C!Size = 0 THEN 1 ELSE C!Size
        /\ C!Size # 0 => \A k \in 1..C!Size : t[k] = input[C!Size + 1 - k]
        /\ C!Size = 0 => t[1] = c
    BY <1>7, <2>5, <2>6
  <2>8. PICK w : w = C!Created \o t
    OBVIOUS
  <2>9. Joins(w, C!Created, t, T)
    BY <1>1, <2>6, <2>8, Joined, Zenon
  <2>10. /\ w \in Seq(T) /\ Len(w) = Before + Len(t)
         /\ \A k \in 1..Before : w[k] = C!Created[k]
         /\ \A k \in 1..Len(t) : w[Before + k] = t[k]
    BY <1>1, <2>9 DEF Joins
  <2>11. Len(fileOutput') = Before + Len(t) /\ Len(t) \in Nat
    BY <1>1, <1>4, <1>9, <1>11, <2>7
  <2>12. ASSUME NEW k \in 1..Len(t) PROVE fileOutput'[Before + k] = t[k]
    <3>1. CASE C!Size = 0
      <4>1. k = 1 /\ Before + k = Len(fileOutput) + 1
        BY <1>4, <2>7, <3>1
      <4> QED BY <1>9, <2>7, <3>1, <4>1
    <3>2. CASE C!Size # 0
      <4>1. k \in 1..(C!Size - pos) /\ k \in 1..C!Size
        BY <1>1, <1>11, <2>7, <3>2
      <4> QED BY <1>10, <2>7, <3>2, <4>1
    <3> QED BY <3>1, <3>2
  <2>13. ASSUME NEW k \in 1..Len(fileOutput') PROVE fileOutput'[k] = w[k]
    <3>1. CASE k <= Before
      <4>1. k \in 1..Before
        BY <1>1, <3>1
      <4> QED BY <1>2, <1>8, <2>10, <4>1 DEF Kept
    <3>2. CASE k > Before
      <4>1. k - Before \in 1..Len(t) /\ Before + (k - Before) = k
        BY <1>1, <2>11, <3>2
      <4>2. w[Before + (k - Before)] = fileOutput'[Before + (k - Before)]
        BY <2>10, <2>12, <4>1
      <4> QED BY <4>1, <4>2
    <3> QED BY <1>1, <3>1, <3>2
  <2>14. fileOutput' = w
    BY <1>9, <2>10, <2>11, <2>13, SeqEqual
  <2>15. fileOutput' = C!Created \o (IF C!Size = 0 THEN <<Garbage>> ELSE reversed)
    BY <1>3, <2>6, <2>8, <2>14
  <2>16. CopiesMatch'
    BY <1>1, <1>2, <2>1, <2>4, <2>15 DEF CopiesMatch, C!CopiesMatch
  <2> QED BY <2>2, <2>3, <2>16 DEF FilesInv
<1>12. CASE pos # 0
  <2>1. fileStatus' = "copy" /\ pos' = pos - 1 /\ C!Size # 0
    BY <1>1, <1>4, <1>12 DEF C!reverse
  <2>2. pos' \in Nat /\ pos' < C!Size /\ C!Size - 1 - pos' = C!Size - pos
    BY <1>1, <1>4, <1>12, <2>1
  <2>3. FilesType'
    BY <1>1, <1>2, <1>9, <2>1, <2>2 DEF FilesInv, FilesType, T
  <2>4. Len(fileOutput') = Before + C!Size - 1 - pos'
    BY <1>1, <1>4, <1>9, <2>1
  <2>5. \A k \in 1..(C!Size - 1 - pos') : fileOutput'[Before + k] = input[C!Size + 1 - k]
    BY <1>10, <2>1, <2>2
  <2>6. FilesCopied'
    BY <1>1, <1>2, <1>8, <2>1, <2>2, <2>4, <2>5 DEF FilesCopied
  <2>7. CopiesMatch'
    BY <2>1 DEF CopiesMatch, C!CopiesMatch
  <2> QED BY <2>3, <2>6, <2>7 DEF FilesInv
<1> QED BY <1>11, <1>12

LEMMA QuotientAndRest ==
  ASSUME NEW d \in Nat \ {0}, NEW n \in Nat, NEW q \in Nat, NEW r \in 0..(d - 1),
         n = q * d + r
  PROVE  n \div d = q /\ n % d = r
<1>1. q * d = d * q /\ d * q \in Int
  OBVIOUS
<1>2. n \div d = q
  BY <1>1, QuotientIs
<1>3. n = d * (n \div d) + (n % d) /\ n % d \in Nat
  BY Division
<1> QED BY <1>1, <1>2, <1>3

LEMMA WithinBlocks ==
  ASSUME NEW d \in Nat, NEW b \in Nat, NEW c \in 0..(b - 1), NEW k \in 1..d
  PROVE  c * d + k \in 1..(b * d)
<1>1. d \in Nat \ {0} /\ c \in Int /\ b \in Int /\ c < b
  OBVIOUS
<1>2. d * c + d <= d * b
  BY <1>1, Multiples
<1>3. c * d = d * c /\ b * d = d * b /\ d * c \in Nat /\ d * b \in Int
  OBVIOUS
<1> QED BY <1>2, <1>3

LEMMA FilesBlock ==
  ASSUME FilesInv, C!reverse_block
  PROVE  FilesInv'
<1> DEFINE T == C!Bytes
<1>1. /\ program \in Programs /\ input \in Inputs /\ old \in Outputs
      /\ fileStatus = "copy" /\ program = "reverse2" /\ input # None
      /\ Before \in Nat /\ input \in Seq(T)
      /\ pos \in Nat /\ fileOutput \in Seq(T)
  BY FileSequences DEF FilesInv, FilesType, C!reverse_block
<1>2. /\ C!Size' = C!Size /\ C!Created' = C!Created /\ Before' = Before
      /\ C!Bytes' = C!Bytes /\ C!Blocks' = C!Blocks
      /\ UNCHANGED <<program, input, old>>
  BY FilesFixed DEF C!reverse_block
<1>3. PICK n \in Nat : n = C!Size /\ pos <= n
  BY <1>1, FileSequences DEF FilesInv, FilesType
<1>4. PICK B1 \in Nat \ {0} : B1 = BLOCK_SIZE
  BY FileBytes
<1>5. PICK d \in Nat : d = B1 - 1 /\ d = BLOCK_SIZE - 1
  BY <1>4
<1>6. PICK b \in Nat :
        /\ BlocksOut(b)
        /\ pos = n - (b + 1) * B1 \/ (b = 0 /\ pos = 0 /\ n < B1)
  BY <1>1, <1>3, <1>4 DEF FilesInv, FilesCopied
<1>7. PICK m \in Nat : m = b * B1 /\ (b + 1) * B1 = m + B1 /\ ((b + 1) + 1) * B1 = m + B1 + B1
  <2>1. b * B1 \in Nat /\ (b + 1) * B1 = b * B1 + B1 /\ ((b + 1) + 1) * B1 = b * B1 + B1 + B1
    OBVIOUS
  <2> QED BY <2>1
<1> HIDE DEF T
<1>8. CASE pos = 0
  <2>1. fileStatus' = "offset" /\ UNCHANGED <<pos, fileOutput>>
    BY <1>8 DEF C!reverse_block
  <2>2. b = C!Blocks
    <3>1. CASE n = (b + 1) * B1 + 0
      <4>1. n \div B1 = b + 1 /\ n % B1 = 0
        BY <3>1, QuotientAndRest
      <4>2. n > 0
        BY <1>7, <3>1
      <4> QED BY <1>3, <1>4, <4>1, <4>2 DEF C!Blocks, C!Rest
    <3>2. CASE b = 0 /\ n < B1
      <4>1. n = 0 * B1 + n /\ n \in 0..(B1 - 1)
        BY <3>2
      <4>2. n \div B1 = 0 /\ n % B1 = n
        BY <4>1, QuotientAndRest
      <4> QED BY <1>3, <1>4, <3>2, <4>2 DEF C!Blocks, C!Rest
    <3> QED BY <1>6, <1>7, <1>8, <3>1, <3>2
  <2>3. FilesType'
    BY <1>1, <1>2, <2>1 DEF FilesInv, FilesType
  <2>4. BlocksOut(b)'
    BY <1>2, <1>6, <2>1 DEF BlocksOut, Kept
  <2>5. FilesCopied'
    BY <1>1, <1>2, <1>3, <1>4, <2>1, <2>2, <2>4 DEF FilesCopied
  <2>6. CopiesMatch'
    BY <2>1 DEF CopiesMatch, C!CopiesMatch
  <2> QED BY <2>3, <2>5, <2>6 DEF FilesInv
<1>9. CASE pos # 0
  <2>1. n = m + B1 + pos
    BY <1>3, <1>6, <1>7, <1>9
  <2>2. PICK first \in Int, last \in Nat :
          first = pos + BLOCK_SIZE - 1 /\ last = pos + 1 /\ last <= first + 1
          /\ first - last + 1 = d
    BY <1>1, <1>4, <1>5
  <2>3. PICK t \in Seq(T) :
          /\ t = C!Down(first, last)
          /\ Len(t) = d
          /\ \A k \in 1..d : t[k] = input[n + 1 - (m + k)]
    <3> DEFINE t == C!Down(first, last)
    <3>1. /\ t \in Seq(T) /\ Len(t) = first - last + 1
          /\ \A k \in 1..(first - last + 1) : first - k + 2 <= C!Size => t[k] = input[first - k + 2]
      BY <1>1, <2>2, Downwards DEF FilesInv, T
    <3> HIDE DEF t
    <3>2. ASSUME NEW k \in 1..d PROVE t[k] = input[n + 1 - (m + k)]
      <4>1. first - k + 2 <= C!Size /\ first - k + 2 = n + 1 - (m + k)
        BY <1>1, <1>3, <1>4, <2>1, <2>2
      <4> QED BY <2>2, <3>1, <4>1
    <3> QED BY <2>2, <3>1, <3>2 DEF t
  <2>4. fileOutput' = fileOutput \o t
    BY <1>1, <1>9, <2>2, <2>3 DEF C!reverse_block, C!Put
  <2>5. Kept /\ Len(fileOutput) = Before + b * d
    BY <1>5, <1>6 DEF BlocksOut
  <2>6. Joins(fileOutput', fileOutput, t, T) /\ Kept'
    BY <1>1, <1>2, <2>4, <2>5, KeptIfAdded
  <2>7. PICK e \in Nat : e = b * d /\ (b + 1) * d = e + d
    <3>1. b * d \in Nat /\ (b + 1) * d = b * d + d
      OBVIOUS
    <3> QED BY <3>1
  <2>8. /\ fileOutput' \in Seq(T) /\ Len(fileOutput') = Before + (e + d)
        /\ \A k \in 1..(Before + e) : fileOutput'[k] = fileOutput[k]
        /\ \A k \in 1..d : fileOutput'[Before + e + k] = t[k]
    BY <1>1, <2>3, <2>5, <2>6, <2>7 DEF Joins
  <2>9. ASSUME NEW c \in 0..b, NEW k \in 1..d
        PROVE  fileOutput'[Before + c * d + k] = input[n + 1 - (c * B1 + k)]
    <3>1. CASE c = b
      BY <1>7, <2>3, <2>7, <2>8, <3>1
    <3>2. CASE c # b
      <4>1. c \in 0..(b - 1)
        BY <3>2
      <4>2. PICK o \in Nat : o = c * d /\ o + k \in 1..e
        <5>1. c * d \in Nat
          BY <4>1
        <5> QED BY <2>7, <4>1, <5>1, WithinBlocks
      <4>3. Before + o + k \in 1..(Before + e)
        BY <1>1, <4>2
      <4>4. fileOutput[Before + c * d + k] = input[n + 1 - (c * B1 + k)]
        BY <1>3, <1>4, <1>5, <1>6, <4>1 DEF BlocksOut
      <4> QED BY <2>8, <4>2, <4>3, <4>4
    <3> QED BY <3>1, <3>2
  <2>10. BlocksOut(b + 1)'
    <3>1. b + 1 - 1 = b
      OBVIOUS
    <3>2. Len(fileOutput') = Before + (b + 1) * d
      BY <2>7, <2>8
    <3>3. \A c \in 0..(b + 1 - 1), k \in 1..d :
             fileOutput'[Before + c * d + k] = input[n + 1 - (c * B1 + k)]
      BY <2>9, <3>1
    <3> QED BY <1>2, <1>3, <1>4, <1>5, <2>6, <3>2, <3>3 DEF BlocksOut
  <2>11. CASE pos < BLOCK_SIZE
    <3>1. fileStatus' = "offset" /\ pos' = pos
      BY <1>9, <2>11 DEF C!reverse_block
    <3>2. b + 1 = C!Blocks
      <4>1. n = (b + 1) * B1 + pos /\ pos \in 0..(B1 - 1)
        BY <1>1, <1>4, <1>7, <2>1, <2>11
      <4>2. n \div B1 = b + 1 /\ n % B1 = pos
        BY <4>1, QuotientAndRest
      <4> QED BY <1>3, <1>4, <1>9, <4>2 DEF C!Blocks, C!Rest
    <3>3. FilesType'
      BY <1>1, <1>2, <2>8, <3>1 DEF FilesInv, FilesType, T
    <3>4. FilesCopied'
      BY <1>1, <1>2, <1>3, <1>4, <2>10, <3>1, <3>2 DEF FilesCopied
    <3>5. CopiesMatch'
      BY <3>1 DEF CopiesMatch, C!CopiesMatch
    <3> QED BY <3>3, <3>4, <3>5 DEF FilesInv
  <2>12. CASE pos >= BLOCK_SIZE
    <3>1. fileStatus' = "copy" /\ pos' = pos - BLOCK_SIZE
      BY <1>1, <1>4, <1>9, <2>12 DEF C!reverse_block
    <3>2. pos' \in Nat /\ pos' <= C!Size /\ pos' = n - ((b + 1) + 1) * B1
      BY <1>1, <1>3, <1>4, <1>7, <2>1, <2>12, <3>1
    <3>3. FilesType'
      BY <1>1, <1>2, <2>8, <3>1, <3>2 DEF FilesInv, FilesType, T
    <3>4. FilesCopied'
      BY <1>1, <1>2, <1>3, <1>4, <2>10, <3>1, <3>2 DEF FilesCopied
    <3>5. CopiesMatch'
      BY <3>1 DEF CopiesMatch, C!CopiesMatch
    <3> QED BY <3>3, <3>4, <3>5 DEF FilesInv
  <2> QED BY <1>1, <1>4, <2>11, <2>12
<1> QED BY <1>8, <1>9

LEMMA FilesOffset ==
  ASSUME FilesInv, C!reverse_offset
  PROVE  FilesInv'
<1> DEFINE T == C!Bytes
<1>1. /\ program \in Programs /\ input \in Inputs /\ old \in Outputs
      /\ fileStatus = "offset" /\ program = "reverse2" /\ input # None
      /\ C!Created \in Seq(T) /\ Before \in Nat /\ Before = Len(C!Created)
      /\ input \in Seq(T) /\ pos \in Nat /\ fileOutput \in Seq(T)
  BY FileSequences DEF FilesInv, FilesType, FilesCopied, Before, C!reverse_offset
<1>2. /\ C!Size' = C!Size /\ C!Created' = C!Created /\ Before' = Before
      /\ C!Bytes' = C!Bytes
      /\ C!Blocks' = C!Blocks /\ C!Rest' = C!Rest /\ C!Reversed' = C!Reversed
      /\ UNCHANGED <<program, input, old>>
  BY FilesFixed DEF C!reverse_offset
<1>3. PICK n \in Nat : n = C!Size
  BY <1>1, FileSequences
<1>4. PICK B1 \in Nat \ {0} : B1 = BLOCK_SIZE
  BY FileBytes
<1>5. PICK d \in Nat : d = B1 - 1 /\ d = BLOCK_SIZE - 1
  BY <1>4
<1>6. PICK rest \in 0..(B1 - 1) : rest = n % B1 /\ rest = C!Rest
  BY <1>3, <1>4, Division DEF C!Rest
<1>7. PICK b \in Nat :
        /\ BlocksOut(b)
        /\ b = C!Blocks
  BY <1>1 DEF FilesInv, FilesCopied
<1>8. b * B1 \in Nat /\ b * B1 <= n
  <2>1. n \div B1 \in Nat /\ n = B1 * (n \div B1) + rest
    BY <1>6, Division
  <2>2. B1 * (n \div B1) \in Nat /\ B1 * (n \div B1 - 1) = B1 * (n \div B1) - B1
    BY <2>1
  <2>3. b * B1 = B1 * b /\ b * B1 \in Nat
    OBVIOUS
  <2>4. CASE b = n \div B1
    BY <2>1, <2>2, <2>3, <2>4
  <2>5. CASE b = n \div B1 - 1
    BY <2>1, <2>2, <2>3, <2>5
  <2> QED BY <1>3, <1>4, <1>7, <2>4, <2>5 DEF C!Blocks
<1> HIDE DEF T
<1>9. PICK first \in Int : first = 2 * rest - 1 /\ rest <= first + 1 /\ first - rest + 1 = rest
  OBVIOUS
<1>10. rest \in Nat
  OBVIOUS
<1>11. PICK t \in Seq(T) : t = C!Down(first, rest) /\ Len(t) = rest
  <2>1. C!Down(first, rest) \in Seq(T) /\ Len(C!Down(first, rest)) = first - rest + 1
    BY <1>1, <1>9, <1>10, Downwards DEF FilesInv, T
  <2> QED BY <1>9, <2>1
<1>12. fileOutput' = fileOutput \o t /\ fileStatus' = "done" /\ pos' = pos
  BY <1>1, <1>3, <1>4, <1>6, <1>9, <1>11 DEF C!reverse_offset, C!Put
<1>13. Kept /\ Len(fileOutput) = Before + b * d
  BY <1>5, <1>7 DEF BlocksOut
<1>14. Joins(fileOutput', fileOutput, t, T) /\ Kept'
  BY <1>1, <1>2, <1>12, <1>13, KeptIfAdded
<1>15. PICK end \in Nat : end = Before + b * d /\ end = Len(fileOutput)
  BY <1>1, <1>13
<1>16. /\ fileOutput' \in Seq(T) /\ Len(fileOutput') = end + rest
       /\ \A k \in 1..end : fileOutput'[k] = fileOutput[k]
       /\ \A k \in 1..rest : fileOutput'[end + k] = t[k]
       /\ Before <= end
       /\ \A k \in 1..Before : fileOutput'[k] = C!Created[k]
  BY <1>1, <1>2, <1>11, <1>13, <1>14, <1>15 DEF Joins, Kept
<1>17. SubSeq(fileOutput', 1, Before) = C!Created
  <2>1. /\ SubSeq(fileOutput', 1, Before) \in Seq(T)
        /\ Len(SubSeq(fileOutput', 1, Before)) = Before
        /\ \A k \in 1..Before : SubSeq(fileOutput', 1, Before)[k] = fileOutput'[k]
    <3>1. Before <= Len(fileOutput')
      BY <1>1, <1>16
    <3> QED BY <1>1, <1>16, <3>1, FirstOf
  <2> QED BY <1>1, <1>16, <2>1, SeqEqual
<1>18. SubSeq(fileOutput', end + 1, Len(fileOutput')) = t
  <2>1. /\ SubSeq(fileOutput', end + 1, Len(fileOutput')) \in Seq(T)
        /\ Len(SubSeq(fileOutput', end + 1, Len(fileOutput'))) = Len(fileOutput') - end
        /\ \A k \in 1..(Len(fileOutput') - end) :
             SubSeq(fileOutput', end + 1, Len(fileOutput'))[k] = fileOutput'[end + k]
    <3>1. end <= Len(fileOutput')
      BY <1>16
    <3> QED BY <1>16, <3>1, RestOf
  <2>2. Len(fileOutput') - end = rest
    BY <1>16
  <2> QED BY <1>11, <1>16, <2>1, <2>2, SeqEqual
<1>19. \A k \in 1..n : C!Reversed[k] = input[n + 1 - k]
  BY <1>1, <1>3, ReversedInput DEF FilesInv
<1>20. ASSUME NEW c \in 0..(b - 1), NEW k \in 1..d
       PROVE  fileOutput'[Before + c * d + k] = C!Reversed[c * B1 + k]
  <2>1. PICK o \in Nat : o = c * d /\ o + k \in 1..(b * d)
    <3>1. c * d \in Nat
      OBVIOUS
    <3> QED BY <3>1, WithinBlocks
  <2>2. Before + o + k \in 1..end
    BY <1>1, <1>15, <2>1
  <2>3. k \in 1..B1
    BY <1>5
  <2>4. c * B1 + k \in 1..n
    <3>1. c * B1 + k \in 1..(b * B1)
      BY <2>3, WithinBlocks
    <3> QED BY <1>8, <3>1
  <2>5. fileOutput[Before + c * d + k] = input[n + 1 - (c * B1 + k)]
    <3>1. BlocksOut(b)
      BY <1>7
    <3> QED BY <1>3, <1>4, <1>5, <3>1 DEF BlocksOut
  <2> QED BY <1>16, <1>19, <2>1, <2>2, <2>4, <2>5
<1>21. FilesType'
  BY <1>1, <1>2, <1>12, <1>16 DEF FilesInv, FilesType, T
<1>22. FilesCopied'
  BY <1>12 DEF FilesCopied
<1>23. CopiesMatch'
  <2>1. SubSeq(fileOutput', Len(C!Created') + C!Blocks' * (BLOCK_SIZE - 1) + 1, Len(fileOutput'))
          = C!Down(2 * C!Rest - 1, C!Rest)'
    <3>1. C!Down(first, rest)' = C!Down(first, rest)
      BY <1>2 DEF C!Down
    <3>2. Len(C!Created') + C!Blocks' * (BLOCK_SIZE - 1) = end
      BY <1>1, <1>2, <1>5, <1>7, <1>15
    <3>3. C!Rest' = rest /\ 2 * C!Rest' - 1 = first
      BY <1>2, <1>6, <1>9
    <3>4. C!Down(2 * C!Rest - 1, C!Rest)' = C!Down(first, rest)'
      BY <3>3 DEF C!Down
    <3> QED BY <1>11, <1>18, <3>1, <3>2, <3>4
  <2>2. \A c \in 0..(C!Blocks' - 1), k \in 1..(BLOCK_SIZE - 1) :
           fileOutput'[Len(C!Created') + c * (BLOCK_SIZE - 1) + k]
             = (C!Reversed')[c * BLOCK_SIZE + k]
    <3>1. /\ Len(C!Created') = Before /\ C!Blocks' = b /\ BLOCK_SIZE - 1 = d
          /\ C!Reversed' = C!Reversed
      BY <1>1, <1>2, <1>5, <1>7
    <3>2. ASSUME NEW c \in 0..(C!Blocks' - 1), NEW k \in 1..(BLOCK_SIZE - 1)
          PROVE  fileOutput'[Before + c * (BLOCK_SIZE - 1) + k] = C!Reversed[c * BLOCK_SIZE + k]
      <4>1. c \in 0..(b - 1) /\ k \in 1..d
        BY <3>1
      <4>2. fileOutput'[Before + c * d + k] = C!Reversed[c * B1 + k]
        BY <1>20, <4>1
      <4> QED BY <1>4, <3>1, <4>2
    <3> QED BY <3>1, <3>2
  <2>3. SubSeq(fileOutput', 1, Len(C!Created')) = C!Created'
    BY <1>1, <1>2, <1>17
  <2> QED BY <1>1, <1>2, <2>1, <2>2, <2>3 DEF CopiesMatch, C!CopiesMatch
<1> QED BY <1>21, <1>22, <1>23 DEF FilesInv

LEMMA FilesStep == FilesInv /\ (C!Next \/ UNCHANGED copy) => FilesInv'
<1>1. ASSUME FilesInv, UNCHANGED copy PROVE FilesInv'
  <2>1. UNCHANGED <<program, input, old, fileStatus, pos, fileOutput>>
    BY <1>1 DEF copy
  <2>2. FilesType'
    BY <1>1, <2>1 DEF FilesInv, FilesType, C!Size, C!Bytes
  <2>3. FilesCopied'
    BY <1>1, <2>1 DEF FilesInv, FilesCopied, Kept, BlocksOut, Before, Translated,
                      C!Size, C!Created, C!Blocks, C!Rest
  <2>4. /\ C!Size' = C!Size /\ C!Created' = C!Created /\ C!Blocks' = C!Blocks
        /\ C!Rest' = C!Rest /\ C!Replaced' = C!Replaced /\ C!Reversed' = C!Reversed
    BY <2>1, FilesFixed DEF C!files
  <2>5. \A x, y : C!Down(x, y)' = C!Down(x, y)
    BY <2>1, <2>4 DEF C!Down
  <2>6. CopiesMatch'
    BY <1>1, <2>1, <2>4, <2>5 DEF FilesInv, CopiesMatch, C!CopiesMatch
  <2> QED BY <2>2, <2>3, <2>6 DEF FilesInv
<1> QED BY <1>1, FilesOpen, FilesReplace, FilesReverse, FilesBlock, FilesOffset DEF C!Next

LEMMA FilesTypes == FilesInv => C!TypeOK
BY DEF FilesInv, FilesType, C!TypeOK

(***************************************************************************)
(* What lab2's programs have put into the output file when they end: all   *)
(* of the input, translated or reversed, but for reverse2 (zad2/reverse2.c),*)
(* which loses the first byte of each block and the first block or the     *)
(* rest; for any files and any size of the block.                          *)
(***************************************************************************)
THEOREM Matched == ProgramsSpec => []CopiesMatch
<1>1. ProgramsInit => FilesInv
  BY FilesInit DEF ProgramsInit
<1>2. FilesInv /\ [ProgramsNext]_programs => FilesInv'
  BY FilesStep DEF ProgramsNext, programs
<1>3. FilesInv => CopiesMatch
  BY DEF FilesInv
<1> QED BY <1>1, <1>2, <1>3, PTL DEF ProgramsSpec

-----------------------------------------------------------------------------
(* What lab4/zad1 has printed: how often each line is in the output, on a  *)
(* terminal, or in the output and the buffers of the two processes, in a   *)
(* file.                                                                   *)

Count(s, x) == Cardinality({k \in DOMAIN s : s[k] = x})

LEMMA CountOfPair ==
  ASSUME NEW T, NEW s \in Seq(T), NEW t \in Seq(T), NEW x
  PROVE  Count(s \o t, x) = Count(s, x) + Count(t, x)
<1> DEFINE w == s \o t
           InFirst == {k \in 1..Len(s) : s[k] = x}
           InSecond == {k \in 1..Len(t) : t[k] = x}
           InBoth == {k \in 1..Len(w) : w[k] = x}
           Moved == {k \in InBoth : k > Len(s)}
           f == [k \in InSecond |-> Len(s) + k]
<1>1. Len(s) \in Nat /\ Len(t) \in Nat
  OBVIOUS
<1>2. Joins(w, s, t, T)
  BY Joined
<1> HIDE DEF w
<1>3. /\ w \in Seq(T) /\ Len(w) = Len(s) + Len(t)
      /\ \A k \in 1..Len(s) : w[k] = s[k]
      /\ \A k \in 1..Len(t) : w[Len(s) + k] = t[k]
  BY <1>2 DEF Joins
<1>4. IsFiniteSet(InFirst) /\ IsFiniteSet(InSecond)
  <2>1. IsFiniteSet(1..Len(s)) /\ IsFiniteSet(1..Len(t))
    BY <1>1, FS_Interval
  <2> QED BY <2>1, FS_Subset
<1>5. InBoth = InFirst \cup Moved
  BY <1>1, <1>3
<1>6. InFirst \cap Moved = {}
  OBVIOUS
<1>7. IsFiniteSet(Moved) /\ Cardinality(Moved) = Cardinality(InSecond)
  <2>1. ASSUME NEW k \in InSecond PROVE f[k] \in Moved
    BY <1>1, <1>3
  <2>2. f \in [InSecond -> Moved]
    BY <2>1
  <2>3. \A j, k \in InSecond : f[j] = f[k] => j = k
    BY <1>1
  <2>4. ASSUME NEW m \in Moved PROVE \E k \in InSecond : f[k] = m
    <3>1. m - Len(s) \in 1..Len(t) /\ Len(s) + (m - Len(s)) = m
      BY <1>1, <1>3
    <3>2. m - Len(s) \in InSecond
      BY <3>1, <1>3
    <3> QED BY <3>1, <3>2
  <2> HIDE DEF f, Moved, InSecond
  <2> QED BY <1>4, <2>2, <2>3, <2>4, SameSize
<1>8. Cardinality(InBoth) = Cardinality(InFirst) + Cardinality(InSecond)
  <2>1. Cardinality(InFirst \cup Moved) = Cardinality(InFirst) + Cardinality(Moved) - Cardinality(InFirst \cap Moved)
    BY <1>4, <1>7, FS_Union
  <2>2. Cardinality(InFirst \cap Moved) = 0
    BY <1>6, FS_EmptySet
  <2>3. Cardinality(InFirst) \in Nat /\ Cardinality(Moved) \in Nat
    BY <1>4, <1>7, FS_CardinalityType
  <2> HIDE DEF InFirst, InSecond, InBoth, Moved
  <2> QED BY <1>5, <1>7, <2>1, <2>2, <2>3
<1>9. DOMAIN s = 1..Len(s) /\ DOMAIN t = 1..Len(t) /\ DOMAIN w = 1..Len(w)
  BY <1>3
<1>10. Count(w, x) = Cardinality(InBoth) /\ Count(s, x) = Cardinality(InFirst) /\ Count(t, x) = Cardinality(InSecond)
  BY <1>9 DEF Count
<1> QED BY <1>8, <1>10 DEF w

LEMMA CountIsNat ==
  ASSUME NEW T, NEW s \in Seq(T), NEW x
  PROVE  Count(s, x) \in Nat
<1>1. Len(s) \in Nat /\ DOMAIN s = 1..Len(s)
  OBVIOUS
<1>2. IsFiniteSet(1..Len(s))
  BY <1>1, FS_Interval
<1>3. IsFiniteSet({k \in DOMAIN s : s[k] = x})
  BY <1>1, <1>2, FS_Subset
<1> QED BY <1>3, FS_CardinalityType DEF Count

LEMMA CountOfWords ==
  ASSUME NEW a, NEW b, a # b, NEW x
  PROVE  /\ Count(<<>>, x) = 0
         /\ Count(<<a>>, x) = IF x = a THEN 1 ELSE 0
         /\ Count(<<a, b>>, x) = IF x \in {a, b} THEN 1 ELSE 0
<1>1. Cardinality({}) = 0 /\ Cardinality({1}) = 1 /\ Cardinality({2}) = 1
  BY FS_EmptySet, FS_Singleton
<1>2. Count(<<>>, x) = 0
  <2>1. DOMAIN <<>> = {}
    OBVIOUS
  <2>2. {k \in DOMAIN <<>> : <<>>[k] = x} = {}
    BY <2>1
  <2> QED BY <1>1, <2>2 DEF Count
<1>3. Count(<<a>>, x) = IF x = a THEN 1 ELSE 0
  <2> DEFINE w == <<a>>
  <2>1. DOMAIN w = {1} /\ w[1] = a
    OBVIOUS
  <2> HIDE DEF w
  <2>2. {k \in DOMAIN w : w[k] = x} = IF x = a THEN {1} ELSE {}
    <3>1. CASE x = a
      BY <2>1, <3>1
    <3>2. CASE x # a
      BY <2>1, <3>2
    <3> QED BY <3>1, <3>2
  <2>3. Count(w, x) = IF x = a THEN 1 ELSE 0
    BY <1>1, <2>2 DEF Count
  <2> QED BY <2>3 DEF w
<1>4. Count(<<a, b>>, x) = IF x \in {a, b} THEN 1 ELSE 0
  <2> DEFINE w == <<a, b>>
  <2>1. DOMAIN w = {1, 2} /\ w[1] = a /\ w[2] = b
    OBVIOUS
  <2> HIDE DEF w
  <2>2. {k \in DOMAIN w : w[k] = x} = IF x = a THEN {1} ELSE IF x = b THEN {2} ELSE {}
    <3>1. CASE x = a
      BY <2>1, <3>1
    <3>2. CASE x = b
      BY <2>1, <3>2
    <3>3. CASE x # a /\ x # b
      BY <2>1, <3>3
    <3> QED BY <3>1, <3>2, <3>3
  <2>3. Count(w, x) = IF x \in {a, b} THEN 1 ELSE 0
    BY <1>1, <2>2 DEF Count
  <2> QED BY <2>3 DEF w
<1> QED BY <1>2, <1>3, <1>4

\* What printf adds to the counts of the lines.
LEMMA PrintfCounts ==
  ASSUME NEW p \in I!Processes, NEW lines \in Seq(I!Reports),
         stdout \in [I!Processes -> Seq(I!Lines)],
         output \in Seq(I!Lines), terminal \in BOOLEAN,
         I!printf(p, lines),
         NEW q \in I!Processes, NEW t, NEW n, n = IF q = p THEN Count(lines, t) ELSE 0
  PROVE  /\ terminal => /\ stdout' = stdout
                        /\ Count(output', <<q, t>>) = Count(output, <<q, t>>) + n
         /\ ~terminal => /\ output' = output
                         /\ \A r \in I!Processes :
                              Count(stdout'[r], <<q, t>>) =
                                Count(stdout[r], <<q, t>>) + IF r = p THEN n ELSE 0
<1> DEFINE L == I!Lines
           printed == [k \in DOMAIN lines |-> <<p, lines[k]>>]
<1>1. printed \in Seq(L)
  <2>1. printed \in [1..Len(lines) -> L]
    BY DEF I!Lines
  <2> QED BY <2>1
<1>2. Count(printed, <<q, t>>) = n
  <2>1. DOMAIN printed = DOMAIN lines /\ \A k \in DOMAIN lines : printed[k] = <<p, lines[k]>>
    OBVIOUS
  <2> HIDE DEF printed
  <2>2. {k \in DOMAIN printed : printed[k] = <<q, t>>} =
          IF q = p THEN {k \in DOMAIN lines : lines[k] = t} ELSE {}
    <3>1. CASE q = p
      BY <2>1, <3>1
    <3>2. CASE q # p
      BY <2>1, <3>2
    <3> QED BY <3>1, <3>2
  <2> QED BY <2>2, FS_EmptySet DEF Count
<1> HIDE DEF L
<1>3. /\ output' = IF terminal THEN output \o printed ELSE output
      /\ stdout' = IF terminal THEN stdout
                               ELSE [stdout EXCEPT ![p] = stdout[p] \o printed]
  BY DEF I!printf
<1> HIDE DEF printed
<1>4. stdout \in [I!Processes -> Seq(L)] /\ output \in Seq(L)
  BY DEF L
<1>5. terminal => Count(output', <<q, t>>) = Count(output, <<q, t>>) + n
  <2>1. Count(output \o printed, <<q, t>>) = Count(output, <<q, t>>) + n
    BY <1>1, <1>2, <1>4, CountOfPair
  <2> QED BY <1>3, <2>1
<1>6. ASSUME ~terminal, NEW r \in I!Processes
      PROVE  Count(stdout'[r], <<q, t>>) = Count(stdout[r], <<q, t>>) + IF r = p THEN n ELSE 0
  <2>1. CASE r = p
    <3>1. stdout'[r] = stdout[r] \o printed
      BY <1>3, <1>4, <1>6, <2>1
    <3>2. stdout[r] \in Seq(L)
      BY <1>4
    <3>3. Count(stdout[r] \o printed, <<q, t>>) = Count(stdout[r], <<q, t>>) + n
      BY <1>1, <1>2, <3>2, CountOfPair
    <3> QED BY <2>1, <3>1, <3>3
  <2>2. CASE r # p
    <3>1. stdout'[r] = stdout[r]
      BY <1>3, <1>4, <1>6, <2>2
    <3>2. Count(stdout[r], <<q, t>>) \in Nat
      BY <1>4, CountIsNat
    <3> QED BY <2>2, <3>1, <3>2
  <2> QED BY <2>1, <2>2
<1> QED BY <1>3, <1>5, <1>6

\* p has not yet raised the signal in the program it runs.
YetToRaise(p) == inheritPc[p] \in {"main", "install", "block", "raise"}

\* What each command leaves behind: which processes can be where, and what
\* has become of the signal.
InheritCommand ==
  /\ inheritPc["parent"] # "none"
  /\ inheritPc["child"] \in {"none", "install", "block", "raise", "report", "exit", "done"}
  /\ inheritPc["parent"] \in {"exit", "done"} => inheritPc["child"] \in {"none", "done"}
  /\ inheritPc["parent"] = "fork" \/ inheritPc["child"] # "none" => function = "fork"
  /\ inheritPc["parent"] = "exec" => function = "exec"
  /\ \A p \in I!Processes : disposition[p] = "ignore" => command = "ignore"
  /\ command \in {"ignore", "handler"} =>
       \A p \in I!Processes : ~blocked[p] /\ inheritPc[p] # "block"
  /\ command \in {"mask", "pending"} /\ inheritPc["parent"] = "raise" => blocked["parent"]
  /\ command = "pending" =>
       /\ inheritPc["parent"] = "report" => inheritPending["parent"]
       /\ inheritPc["child"] # "raise" /\ ~inheritPending["child"] /\ raised["child"] = 0
  /\ function = "fork" => raised["parent"] = IF YetToRaise("parent") THEN 0 ELSE 1
  /\ inheritPc["parent"] \in {"report", "fork", "exec"} => raised["parent"] > 0
  /\ command = "handler" /\ function = "exec" =>
       inheritPc["parent"] \in {"main", "exit", "done"} /\ raised["parent"] = 0

LEMMA InheritCommandInit == I!Init \/ InheritanceEnded => InheritCommand
<1> SUFFICES ASSUME I!Init \/ InheritanceEnded PROVE InheritCommand
  OBVIOUS
<1>1. /\ \/ inheritPc["parent"] = "main"
         \/ inheritPc["parent"] = "done" /\ function = "exec" /\ command = "ignore"
      /\ inheritPc["child"] = "none"
      /\ disposition = [p \in I!Processes |-> "default"]
      /\ blocked = [p \in I!Processes |-> FALSE]
      /\ inheritPending = [p \in I!Processes |-> FALSE]
      /\ raised = [p \in I!Processes |-> 0]
  BY DEF I!Init, InheritanceEnded, I!Processes
<1> QED BY <1>1 DEF InheritCommand, YetToRaise, I!Processes

LEMMA InheritCommandStep ==
  InheritInv /\ InheritBounds /\ InheritCommand /\ I!Next => InheritCommand'
<1> SUFFICES ASSUME InheritInv, InheritBounds, InheritCommand, I!Next PROVE InheritCommand'
  OBVIOUS
<1> USE DEF I!Processes, I!Commands, I!Functions, I!parameters, YetToRaise
<1>0. /\ inheritPc \in [I!Processes -> {"none", "main", "install", "block", "raise",
                      "report", "fork", "exec", "wait", "exit", "done", "killed"}]
      /\ disposition \in [I!Processes -> {"default", "ignore", "handler"}]
      /\ blocked \in [I!Processes -> BOOLEAN]
      /\ inheritPending \in [I!Processes -> BOOLEAN]
      /\ raised \in [I!Processes -> 0..2]
      /\ command \in I!Commands /\ function \in I!Functions
  BY DEF InheritInv, InheritBounds
<1>1. CASE I!Fork
  BY <1>0, <1>1 DEF InheritInv, InheritCommand, I!Fork
<1>2. CASE I!ForkFails \/ I!Wait \/ I!ExecNot
  BY <1>0, <1>2 DEF InheritInv, InheritCommand, I!ForkFails, I!Wait, I!ExecNot
<1>3. CASE I!Exec
  BY <1>0, <1>3 DEF InheritInv, InheritCommand, I!Exec
<1>4. ASSUME NEW p \in I!Processes, I!Main(p) PROVE InheritCommand'
  BY <1>0, <1>4 DEF InheritInv, InheritCommand, I!Main
<1>5. ASSUME NEW p \in I!Processes, I!Install(p) PROVE InheritCommand'
  BY <1>0, <1>5 DEF InheritInv, InheritCommand, I!Install
<1>6. ASSUME NEW p \in I!Processes, I!Block(p) PROVE InheritCommand'
  BY <1>0, <1>6 DEF InheritInv, InheritCommand, I!Block
<1>7. ASSUME NEW p \in I!Processes, I!raise_signal(p) PROVE InheritCommand'
  <2>1. /\ inheritPc[p] = "raise" /\ disposition[p] # "default"
        /\ UNCHANGED <<command, function, disposition, blocked>>
        /\ raised' = [raised EXCEPT ![p] = raised[p] + 1]
        /\ inheritPending' = [inheritPending EXCEPT ![p] =
                                inheritPending[p] \/ (blocked[p] /\ disposition[p] # "ignore")]
        /\ inheritPc' = [inheritPc EXCEPT ![p] = "report"]
    BY <1>7 DEF InheritInv, I!raise_signal
  <2>2. CASE p = "parent"
    <3>1. /\ inheritPc["parent"] = "raise" /\ inheritPc["child"] = "none"
          /\ inheritPc'["parent"] = "report" /\ inheritPc'["child"] = "none"
          /\ raised["parent"] \in Nat /\ raised'["parent"] = raised["parent"] + 1
          /\ raised'["child"] = raised["child"]
          /\ inheritPending'["child"] = inheritPending["child"]
      BY <1>0, <2>1, <2>2 DEF InheritInv
    <3>2. command = "pending" => inheritPending'["parent"]
      BY <1>0, <2>1, <2>2 DEF InheritInv, InheritCommand
    <3> QED BY <2>1, <3>1, <3>2 DEF InheritCommand
  <2>3. CASE p = "child"
    BY <1>0, <2>1, <2>3 DEF InheritInv, InheritCommand
  <2> QED BY <2>2, <2>3
<1>8. ASSUME NEW p \in I!Processes, I!print_is_pending(p) PROVE InheritCommand'
  BY <1>0, <1>8 DEF InheritInv, InheritCommand, I!print_is_pending
<1>9. ASSUME NEW p \in I!Processes, I!Exit(p) PROVE InheritCommand'
  BY <1>0, <1>9 DEF InheritInv, InheritCommand, I!Exit
<1> QED BY <1>1, <1>2, <1>3, <1>4, <1>5, <1>6, <1>7, <1>8, <1>9 DEF I!Next

\* The lines that ReportsRaises speaks of.
Told(q, t) ==
  \/ t \in {"raising", "pending"}
  \/ t = "handling" /\ command = "handler"
  \/ t = "not pending" /\ q = "parent"

Since(p) == IF YetToRaise(p) \/ raised[p] = 0 THEN 0 ELSE 1

\* How often p has said t since its program started.
Said(p, t) ==
  IF \/ t \in {"raising", "handling"}
     \/ t = "pending" /\ command = "pending" /\ inheritPc[p] # "report"
    THEN Since(p) ELSE 0

\* What p has of q's lines: its own, and the child also those of the parent.
Heard(p, q, t) ==
  IF q = p THEN Said(p, t) ELSE IF p = "child" THEN Said("parent", t) ELSE 0

Total(q, t) ==
  IF t \in {"raising", "handling"} THEN raised[q]
  ELSE IF t = "pending" /\ command = "pending"
    THEN IF q = "parent" /\ inheritPc[q] = "report" THEN raised[q] - 1 ELSE raised[q]
  ELSE 0

OnTerminal(q, t) ==
  /\ Count(output, <<q, t>>) = Total(q, t)
  /\ \A p \in I!Processes : stdout[p] = <<>>

InFile(q, t) ==
  /\ \A p \in I!Processes :
       Count(stdout[p], <<q, t>>) =
         IF inheritPc[p] \in {"none", "done"} THEN 0 ELSE Heard(p, q, t)
  /\ Count(output, <<q, t>>) =
       (IF inheritPc["parent"] = "done" THEN Heard("parent", q, t) ELSE 0)
         + (IF inheritPc["child"] = "done" THEN Heard("child", q, t) ELSE 0)

InheritPrinted ==
  \A q \in I!Processes, t \in I!Reports :
    Told(q, t) => IF terminal THEN OnTerminal(q, t) ELSE InFile(q, t)

LEMMA InheritPrintedInit == I!Init \/ InheritanceEnded => InheritPrinted
<1> SUFFICES ASSUME I!Init \/ InheritanceEnded PROVE InheritPrinted
  OBVIOUS
<1>1. /\ inheritPc["child"] = "none"
      /\ \/ inheritPc["parent"] = "main"
         \/ inheritPc["parent"] = "done" /\ terminal = TRUE
      /\ stdout = [p \in I!Processes |-> <<>>] /\ output = <<>>
      /\ raised = [p \in I!Processes |-> 0]
  BY DEF I!Init, InheritanceEnded, I!Processes
<1>2. \A x : Count(<<>>, x) = 0
  <2>1. 1 # 2
    OBVIOUS
  <2> QED BY <2>1, CountOfWords
<1>3. ASSUME NEW q \in I!Processes, NEW t \in I!Reports
      PROVE  IF terminal THEN OnTerminal(q, t) ELSE InFile(q, t)
  <2>1. Said("parent", t) = 0 /\ Said("child", t) = 0 /\ Total(q, t) = 0
    BY <1>1 DEF Said, Since, Total, I!Processes
  <2>2. \A p \in I!Processes : Heard(p, q, t) = 0
    BY <2>1 DEF Heard, I!Processes
  <2> QED BY <1>1, <1>2, <2>1, <2>2 DEF OnTerminal, InFile, I!Processes
<1> QED BY <1>3 DEF InheritPrinted

\* What a process says when it raises the signal, and when it has.
LEMMA RaisedLines ==
  ASSUME InheritInv, InheritCommand, NEW p \in I!Processes, inheritPc[p] = "raise",
         NEW q \in I!Processes, NEW t \in I!Reports, Told(q, t)
  PROVE  LET lines == IF disposition[p] = "handler" /\ ~blocked[p]
                        THEN <<"raising", "handling">> ELSE <<"raising">>
         IN  /\ lines \in Seq(I!Reports)
             /\ (IF q = p THEN Count(lines, t) ELSE 0) =
                  IF q = p /\ t \in {"raising", "handling"} THEN 1 ELSE 0
<1> DEFINE lines == IF disposition[p] = "handler" /\ ~blocked[p]
                      THEN <<"raising", "handling">> ELSE <<"raising">>
<1>1. lines \in Seq(I!Reports)
  <2>1. "raising" \in I!Reports /\ "handling" \in I!Reports
    BY DEF I!Reports
  <2> QED BY <2>1, Words
<1>2. /\ Count(<<"raising">>, t) = IF t = "raising" THEN 1 ELSE 0
      /\ Count(<<"raising", "handling">>, t) = IF t \in {"raising", "handling"} THEN 1 ELSE 0
  <2>1. "raising" # "handling"
    OBVIOUS
  <2> QED BY <2>1, CountOfWords
<1>3. t = "handling" => disposition[p] = "handler" /\ ~blocked[p]
  BY DEF Told, InheritInv, InheritCommand
<1>4. Count(lines, t) = IF t \in {"raising", "handling"} THEN 1 ELSE 0
  <2>1. CASE disposition[p] = "handler" /\ ~blocked[p]
    BY <1>2, <2>1
  <2>2. CASE ~(disposition[p] = "handler" /\ ~blocked[p])
    <3>1. lines = <<"raising">>
      BY <2>2
    <3> HIDE DEF lines
    <3> QED BY <1>2, <1>3, <2>2, <3>1
  <2> QED BY <2>1, <2>2
<1> HIDE DEF lines
<1>5. /\ lines \in Seq(I!Reports)
      /\ (IF q = p THEN Count(lines, t) ELSE 0) =
           IF q = p /\ t \in {"raising", "handling"} THEN 1 ELSE 0
  BY <1>1, <1>4
<1> QED BY <1>5 DEF lines

LEMMA PendingLines ==
  ASSUME InheritInv, InheritCommand, NEW p \in I!Processes, inheritPc[p] = "report",
         NEW q \in I!Processes, NEW t \in I!Reports, Told(q, t)
  PROVE  LET lines == IF command # "pending" THEN <<>>
                      ELSE IF inheritPending[p] THEN <<"pending">> ELSE <<"not pending">>
         IN  /\ lines \in Seq(I!Reports)
             /\ (IF q = p THEN Count(lines, t) ELSE 0) =
                  IF q = p /\ p = "parent" /\ t = "pending" /\ command = "pending"
                    THEN 1 ELSE 0
<1> DEFINE lines == IF command # "pending" THEN <<>>
                    ELSE IF inheritPending[p] THEN <<"pending">> ELSE <<"not pending">>
<1>1. lines \in Seq(I!Reports)
  <2>1. "pending" \in I!Reports /\ "not pending" \in I!Reports
    BY DEF I!Reports
  <2> QED BY <2>1, Words
<1>2. /\ Count(<<>>, t) = 0
      /\ Count(<<"pending">>, t) = IF t = "pending" THEN 1 ELSE 0
      /\ Count(<<"not pending">>, t) = IF t = "not pending" THEN 1 ELSE 0
  <2>1. "pending" # "not pending"
    OBVIOUS
  <2> QED BY <2>1, CountOfWords
<1>3. command = "pending" => (inheritPending[p] <=> p = "parent")
  BY DEF InheritCommand, I!Processes
<1>4. q = p => Count(lines, t) = IF p = "parent" /\ t = "pending" /\ command = "pending"
                                   THEN 1 ELSE 0
  <2>1. CASE command # "pending"
    BY <1>2, <2>1
  <2>2. CASE command = "pending" /\ p = "parent"
    <3>1. lines = <<"pending">>
      BY <1>3, <2>2
    <3> HIDE DEF lines
    <3> QED BY <1>2, <2>2, <3>1
  <2>3. CASE command = "pending" /\ p # "parent"
    <3>1. lines = <<"not pending">>
      BY <1>3, <2>3
    <3> HIDE DEF lines
    <3>2. q = p => t # "not pending"
      BY <2>3 DEF Told
    <3> QED BY <1>2, <2>3, <3>1, <3>2
  <2> QED BY <2>1, <2>2, <2>3
<1> HIDE DEF lines
<1>5. /\ lines \in Seq(I!Reports)
      /\ (IF q = p THEN Count(lines, t) ELSE 0) =
           IF q = p /\ p = "parent" /\ t = "pending" /\ command = "pending" THEN 1 ELSE 0
  BY <1>1, <1>4
<1> QED BY <1>5 DEF lines

\* The steps that print nothing.
LEMMA SilentSteps ==
  ASSUME InheritInv, InheritBounds, InheritCommand, InheritPrinted,
         \/ I!ForkFails \/ I!Wait \/ I!ExecNot
         \/ \E p \in I!Processes : I!Main(p) \/ I!Install(p) \/ I!Block(p)
  PROVE  InheritPrinted'
<1> USE DEF I!Processes
<1>1. UNCHANGED <<command, terminal, stdout, output, raised>>
  BY DEF I!ForkFails, I!Wait, I!ExecNot, I!Main, I!Install, I!Block, I!parameters
<1>2. \A p \in I!Processes :
        /\ inheritPc'[p] \in {"none", "done"} <=> inheritPc[p] \in {"none", "done"}
        /\ inheritPc'[p] = "done" <=> inheritPc[p] = "done"
        /\ inheritPc[p] # "report" /\ (p = "parent" => inheritPc'[p] # "report")
        /\ raised[p] # 0 => YetToRaise(p)' = YetToRaise(p) /\ inheritPc'[p] # "report"
  <2> USE DEF InheritInv, InheritBounds, InheritCommand, YetToRaise
  <2>1. CASE I!ForkFails \/ I!Wait \/ I!ExecNot
    BY <2>1 DEF I!ForkFails, I!Wait, I!ExecNot
  <2>2. CASE \E p \in I!Processes : I!Main(p)
    BY <2>2 DEF I!Main, I!Commands, I!Functions
  <2>3. CASE \E p \in I!Processes : I!Install(p)
    BY <2>3 DEF I!Install
  <2>4. CASE \E p \in I!Processes : I!Block(p)
    BY <2>4 DEF I!Block
  <2> QED BY <2>1, <2>2, <2>3, <2>4
<1>3. ASSUME NEW q \in I!Processes, NEW t \in I!Reports, Told(q, t)'
      PROVE  (IF terminal THEN OnTerminal(q, t) ELSE InFile(q, t))'
  <2>1. IF terminal THEN OnTerminal(q, t) ELSE InFile(q, t)
    BY <1>1, <1>3 DEF InheritPrinted, Told
  <2>2. \A p \in I!Processes : Said(p, t)' = Said(p, t)
    BY <1>1, <1>2 DEF Said, Since
  <2>3. \A p \in I!Processes : Heard(p, q, t)' = Heard(p, q, t)
    BY <2>2 DEF Heard
  <2>4. Total(q, t)' = Total(q, t)
    BY <1>1, <1>2 DEF Total
  <2> QED BY <1>1, <1>2, <2>1, <2>3, <2>4 DEF OnTerminal, InFile
<1> QED BY <1>3 DEF InheritPrinted

LEMMA RaiseStep ==
  ASSUME InheritInv, InheritBounds, InheritCommand, InheritPrinted,
         NEW p \in I!Processes, I!raise_signal(p)
  PROVE  InheritPrinted'
<1> USE DEF I!Processes
<1> DEFINE lines == IF disposition[p] = "handler" /\ ~blocked[p]
                      THEN <<"raising", "handling">> ELSE <<"raising">>
<1>1. /\ inheritPc[p] = "raise"
      /\ inheritPc' = [inheritPc EXCEPT ![p] = "report"]
      /\ raised' = [raised EXCEPT ![p] = raised[p] + 1]
      /\ UNCHANGED <<command, terminal>>
      /\ I!printf(p, lines)
  BY DEF I!raise_signal, I!parameters, InheritInv
<1>2. /\ inheritPc'[p] = "report" /\ raised'[p] = raised[p] + 1 /\ raised \in [I!Processes -> 0..2]
      /\ \A r \in I!Processes : r # p => inheritPc'[r] = inheritPc[r] /\ raised'[r] = raised[r]
      /\ p = "parent" => inheritPc["child"] = "none" /\ raised["child"] = 0
      /\ p = "child" => inheritPc["parent"] = "wait" /\ raised["child"] = 0 /\ command # "pending"
      /\ stdout \in [I!Processes -> Seq(I!Lines)] /\ output \in Seq(I!Lines)
      /\ terminal \in BOOLEAN
  BY <1>1 DEF InheritInv, InheritBounds, InheritCommand
<1>3. ASSUME NEW q \in I!Processes, NEW t \in I!Reports, Told(q, t)
      PROVE  (IF terminal THEN OnTerminal(q, t) ELSE InFile(q, t))'
  <2> DEFINE n == IF q = p /\ t \in {"raising", "handling"} THEN 1 ELSE 0
  <2>1. IF terminal THEN OnTerminal(q, t) ELSE InFile(q, t)
    BY <1>3 DEF InheritPrinted
  <2>2. lines \in Seq(I!Reports) /\ n = IF q = p THEN Count(lines, t) ELSE 0
    BY <1>1, <1>3, RaisedLines
  <2> HIDE DEF lines, n
  <2>3. /\ terminal => /\ stdout' = stdout
                       /\ Count(output', <<q, t>>) = Count(output, <<q, t>>) + n
        /\ ~terminal => /\ output' = output
                        /\ \A r \in I!Processes :
                             Count(stdout'[r], <<q, t>>) =
                               Count(stdout[r], <<q, t>>) + IF r = p THEN n ELSE 0
    BY <1>1, <1>2, <2>2, PrintfCounts
  <2>4. CASE terminal
    <3>1. CASE q = p
      <4>1. /\ inheritPc[q] = "raise" /\ inheritPc'[q] = "report" /\ raised[q] \in Nat
            /\ raised'[q] = raised[q] + 1 /\ command' = command
            /\ command = "pending" => q = "parent"
            /\ n = IF t \in {"raising", "handling"} THEN 1 ELSE 0
        BY <1>1, <1>2, <3>1 DEF n
      <4>2. Total(q, t)' = Total(q, t) + n
        BY <4>1 DEF Total
      <4> QED BY <1>1, <2>1, <2>3, <2>4, <4>2 DEF OnTerminal
    <3>2. CASE q # p
      <4>1. /\ inheritPc'[q] = inheritPc[q] /\ raised[q] \in Nat
            /\ raised'[q] = raised[q] /\ command' = command /\ n = 0
        BY <1>1, <1>2, <3>2 DEF n
      <4>2. Total(q, t)' = Total(q, t) + n
        BY <4>1 DEF Total
      <4> QED BY <1>1, <2>1, <2>3, <2>4, <4>2 DEF OnTerminal
    <3> QED BY <3>1, <3>2
  <2>5. CASE ~terminal
    <3>1. Said(p, t) = 0 /\ Said(p, t)' = IF t \in {"raising", "handling"} THEN 1 ELSE 0
      BY <1>1, <1>2 DEF Said, Since, YetToRaise
    <3>2. \A r \in I!Processes :
            Said(r, t) \in {0, 1} /\ (r # p => Said(r, t)' = Said(r, t))
      BY <1>1, <1>2 DEF Said, Since, YetToRaise
    <3>3. \A r \in I!Processes : inheritPc[r] \notin {"none", "done"} =>
            Heard(r, q, t)' = Heard(r, q, t) + IF r = p THEN n ELSE 0
      BY <1>2, <3>1, <3>2 DEF Heard, n
    <3>4. \A r \in I!Processes : inheritPc[r] = "done" => Heard(r, q, t)' = Heard(r, q, t)
      BY <1>1, <1>2, <3>1, <3>2 DEF Heard
    <3>5. \A r \in I!Processes :
            /\ inheritPc'[r] \in {"none", "done"} <=> inheritPc[r] \in {"none", "done"}
            /\ inheritPc'[r] = "done" <=> inheritPc[r] = "done"
            /\ r = p => inheritPc[r] \notin {"none", "done"}
      BY <1>1, <1>2
    <3> QED BY <1>1, <2>1, <2>3, <2>5, <3>3, <3>4, <3>5 DEF InFile
  <2> QED BY <2>4, <2>5
<1> QED BY <1>1, <1>3 DEF InheritPrinted, Told

LEMMA ReportStep ==
  ASSUME InheritInv, InheritBounds, InheritCommand, InheritPrinted,
         NEW p \in I!Processes, I!print_is_pending(p)
  PROVE  InheritPrinted'
<1> USE DEF I!Processes
<1> DEFINE lines == IF command # "pending" THEN <<>>
                    ELSE IF inheritPending[p] THEN <<"pending">> ELSE <<"not pending">>
<1>1. /\ inheritPc[p] = "report"
      /\ inheritPc' = [inheritPc EXCEPT ![p] = IF p = "parent" THEN function ELSE "exit"]
      /\ UNCHANGED <<command, terminal, raised>>
      /\ I!printf(p, lines)
  BY DEF I!print_is_pending, I!parameters
<1>2. /\ inheritPc'[p] \in {"fork", "exec", "exit"} /\ raised \in [I!Processes -> 0..2]
      /\ \A r \in I!Processes : r # p => inheritPc'[r] = inheritPc[r]
      /\ p = "parent" => inheritPc["child"] = "none" /\ raised["parent"] > 0
      /\ p = "child" => /\ inheritPc["parent"] = "wait"
                        /\ command = "pending" => raised["child"] = 0
      /\ stdout \in [I!Processes -> Seq(I!Lines)] /\ output \in Seq(I!Lines)
      /\ terminal \in BOOLEAN
  BY <1>1 DEF InheritInv, InheritBounds, InheritCommand, I!Functions
<1>3. ASSUME NEW q \in I!Processes, NEW t \in I!Reports, Told(q, t)
      PROVE  (IF terminal THEN OnTerminal(q, t) ELSE InFile(q, t))'
  <2> DEFINE n == IF q = p /\ p = "parent" /\ t = "pending" /\ command = "pending" THEN 1 ELSE 0
  <2>1. IF terminal THEN OnTerminal(q, t) ELSE InFile(q, t)
    BY <1>3 DEF InheritPrinted
  <2>2. lines \in Seq(I!Reports) /\ n = IF q = p THEN Count(lines, t) ELSE 0
    BY <1>1, <1>3, PendingLines
  <2> HIDE DEF lines, n
  <2>3. /\ terminal => /\ stdout' = stdout
                       /\ Count(output', <<q, t>>) = Count(output, <<q, t>>) + n
        /\ ~terminal => /\ output' = output
                        /\ \A r \in I!Processes :
                             Count(stdout'[r], <<q, t>>) =
                               Count(stdout[r], <<q, t>>) + IF r = p THEN n ELSE 0
    BY <1>1, <1>2, <2>2, PrintfCounts
  <2>4. CASE terminal
    <3>1. CASE q = p
      <4>1. /\ inheritPc[q] = "report" /\ inheritPc'[q] # "report" /\ raised[q] \in Nat
            /\ raised'[q] = raised[q] /\ command' = command
            /\ n = IF q = "parent" /\ t = "pending" /\ command = "pending" THEN 1 ELSE 0
        BY <1>1, <1>2, <3>1 DEF n
      <4>2. Total(q, t)' = Total(q, t) + n
        BY <4>1 DEF Total
      <4> QED BY <1>1, <2>1, <2>3, <2>4, <4>2 DEF OnTerminal
    <3>2. CASE q # p
      <4>1. /\ inheritPc'[q] = inheritPc[q] /\ raised[q] \in Nat
            /\ raised'[q] = raised[q] /\ command' = command /\ n = 0
        BY <1>1, <1>2, <3>2 DEF n
      <4>2. Total(q, t)' = Total(q, t) + n
        BY <4>1 DEF Total
      <4> QED BY <1>1, <2>1, <2>3, <2>4, <4>2 DEF OnTerminal
    <3> QED BY <3>1, <3>2
  <2>5. CASE ~terminal
    <3>1. Said(p, t)' = Said(p, t) + IF p = "parent" /\ t = "pending" /\ command = "pending"
                                       THEN 1 ELSE 0
      BY <1>1, <1>2 DEF Said, Since, YetToRaise
    <3>2. \A r \in I!Processes :
            Said(r, t) \in {0, 1} /\ (r # p => Said(r, t)' = Said(r, t))
      BY <1>1, <1>2 DEF Said, Since, YetToRaise
    <3>3. \A r \in I!Processes : inheritPc[r] \notin {"none", "done"} =>
            Heard(r, q, t)' = Heard(r, q, t) + IF r = p THEN n ELSE 0
      BY <1>2, <3>1, <3>2 DEF Heard, n
    <3>4. \A r \in I!Processes : inheritPc[r] = "done" => Heard(r, q, t)' = Heard(r, q, t)
      BY <1>1, <1>2, <3>1, <3>2 DEF Heard
    <3>5. \A r \in I!Processes :
            /\ inheritPc'[r] \in {"none", "done"} <=> inheritPc[r] \in {"none", "done"}
            /\ inheritPc'[r] = "done" <=> inheritPc[r] = "done"
            /\ r = p => inheritPc[r] \notin {"none", "done"}
      BY <1>1, <1>2
    <3> QED BY <1>1, <2>1, <2>3, <2>5, <3>3, <3>4, <3>5 DEF InFile
  <2> QED BY <2>4, <2>5
<1> QED BY <1>1, <1>3 DEF InheritPrinted, Told

\* fork copies what is in the buffer; exec drops it.
LEMMA ForkAndExec ==
  ASSUME InheritInv, InheritBounds, InheritCommand, InheritPrinted, I!Fork \/ I!Exec
  PROVE  InheritPrinted'
<1> USE DEF I!Processes
<1>1. /\ UNCHANGED <<command, terminal, output, raised>>
      /\ inheritPc \in [I!Processes -> {"none", "main", "install", "block", "raise",
                          "report", "fork", "exec", "wait", "exit", "done", "killed"}]
      /\ inheritPc["child"] = "none" /\ raised["child"] = 0
      /\ raised \in [I!Processes -> 0..2] /\ DOMAIN stdout = I!Processes
  BY DEF I!Fork, I!Exec, I!parameters, InheritInv, InheritBounds
<1>2. ASSUME NEW q \in I!Processes, NEW t \in I!Reports, Told(q, t)
      PROVE  (IF terminal THEN OnTerminal(q, t) ELSE InFile(q, t))'
  <2>1. IF terminal THEN OnTerminal(q, t) ELSE InFile(q, t)
    BY <1>2 DEF InheritPrinted
  <2>2. CASE I!Fork
    <3>1. /\ inheritPc["parent"] = "fork"
          /\ inheritPc'["parent"] = "wait" /\ inheritPc'["child"] = "install"
          /\ stdout'["parent"] = stdout["parent"] /\ stdout'["child"] = stdout["parent"]
      BY <1>1, <2>2 DEF I!Fork
    <3>2. Said("parent", t)' = Said("parent", t) /\ Said("child", t)' = 0
      BY <1>1, <3>1 DEF Said, Since, YetToRaise
    <3>3. Total(q, t)' = Total(q, t)
      BY <1>1, <3>1 DEF Total
    <3>4. /\ Heard("parent", q, t)' = Heard("parent", q, t)
          /\ Heard("child", q, t)' = Heard("parent", q, t)
      BY <3>2 DEF Heard
    <3> QED BY <1>1, <2>1, <3>1, <3>3, <3>4 DEF OnTerminal, InFile
  <2>3. CASE I!Exec
    <3>1. /\ inheritPc["parent"] = "exec"
          /\ inheritPc'["parent"] = "main" /\ inheritPc'["child"] = "none"
          /\ stdout'["parent"] = <<>> /\ stdout'["child"] = stdout["child"]
      BY <1>1, <2>3 DEF I!Exec
    <3>2. Said("parent", t)' = 0
      BY <3>1 DEF Said, Since, YetToRaise
    <3>3. Total(q, t)' = Total(q, t)
      BY <1>1, <3>1 DEF Total
    <3>4. Heard("parent", q, t)' = 0
      BY <3>2 DEF Heard
    <3>5. Count(<<>>, <<q, t>>) = 0
      <4>1. 1 # 2
        OBVIOUS
      <4> QED BY <4>1, CountOfWords
    <3> QED BY <1>1, <2>1, <3>1, <3>3, <3>4, <3>5 DEF OnTerminal, InFile
  <2> QED BY <2>2, <2>3
<1> QED BY <1>1, <1>2 DEF InheritPrinted, Told

\* exit writes what is in the buffer.
LEMMA ExitStep ==
  ASSUME InheritInv, InheritBounds, InheritCommand, InheritPrinted,
         NEW p \in I!Processes, I!Exit(p)
  PROVE  InheritPrinted'
<1> USE DEF I!Processes
<1>1. /\ UNCHANGED <<command, terminal, raised>>
      /\ inheritPc[p] = "exit" /\ inheritPc' = [inheritPc EXCEPT ![p] = "done"]
      /\ output' = output \o stdout[p] /\ stdout' = [stdout EXCEPT ![p] = <<>>]
  BY DEF I!Exit, I!parameters
<1>2. /\ inheritPc'[p] = "done"
      /\ \A r \in I!Processes : r # p => inheritPc'[r] = inheritPc[r]
      /\ p = "parent" => inheritPc["child"] \in {"none", "done"}
      /\ p = "child" => inheritPc["parent"] = "wait"
      /\ stdout'[p] = <<>>
      /\ \A r \in I!Processes : r # p => stdout'[r] = stdout[r]
  BY <1>1 DEF InheritInv, InheritBounds, InheritCommand
<1>3. output \in Seq(I!Lines) /\ stdout[p] \in Seq(I!Lines)
  BY DEF InheritBounds
<1>4. raised \in [I!Processes -> 0..2]
  BY DEF InheritBounds
<1>5. ASSUME NEW q \in I!Processes, NEW t \in I!Reports, Told(q, t)
      PROVE  (IF terminal THEN OnTerminal(q, t) ELSE InFile(q, t))'
  <2>1. IF terminal THEN OnTerminal(q, t) ELSE InFile(q, t)
    BY <1>5 DEF InheritPrinted
  <2>2. Count(<<>>, <<q, t>>) = 0
    <3>1. 1 # 2
      OBVIOUS
    <3> QED BY <3>1, CountOfWords
  <2>3. Count(output', <<q, t>>) = Count(output, <<q, t>>) + Count(stdout[p], <<q, t>>)
    BY <1>1, <1>3, CountOfPair
  <2>4. Count(output, <<q, t>>) \in Nat /\ Count(stdout[p], <<q, t>>) \in Nat
    BY <1>3, CountIsNat
  <2>5. \A r \in I!Processes : Said(r, t)' = Said(r, t) /\ Said(r, t) \in {0, 1}
    BY <1>1, <1>2, <1>4 DEF Said, Since, YetToRaise
  <2>6. \A r \in I!Processes : Heard(r, q, t)' = Heard(r, q, t) /\ Heard(r, q, t) \in {0, 1}
    BY <2>5 DEF Heard
  <2>7. Total(q, t)' = Total(q, t)
    BY <1>1, <1>2 DEF Total
  <2>8. CASE terminal
    <3>1. stdout[p] = <<>>
      BY <2>1, <2>8 DEF OnTerminal
    <3> QED BY <1>1, <1>2, <2>1, <2>2, <2>3, <2>4, <2>7, <2>8, <3>1 DEF OnTerminal
  <2>9. CASE ~terminal
    <3>1. Count(output', <<q, t>>) = Count(output, <<q, t>>) + Heard(p, q, t)
      BY <1>1, <2>1, <2>3, <2>9 DEF InFile
    <3>2. Count(output', <<q, t>>) =
            (IF inheritPc'["parent"] = "done" THEN Heard("parent", q, t) ELSE 0)
              + (IF inheritPc'["child"] = "done" THEN Heard("child", q, t) ELSE 0)
      BY <1>1, <1>2, <2>1, <2>6, <2>9, <3>1 DEF InFile
    <3>3. \A r \in I!Processes :
            Count(stdout'[r], <<q, t>>) =
              IF inheritPc'[r] \in {"none", "done"} THEN 0 ELSE Heard(r, q, t)
      BY <1>2, <2>1, <2>2, <2>9 DEF InFile
    <3> QED BY <1>1, <2>6, <2>9, <3>2, <3>3 DEF InFile
  <2> QED BY <2>8, <2>9
<1> QED BY <1>1, <1>5 DEF InheritPrinted, Told

LEMMA InheritPrintedStep ==
  InheritInv /\ InheritBounds /\ InheritCommand /\ InheritPrinted /\ I!Next => InheritPrinted'
BY SilentSteps, RaiseStep, ReportStep, ForkAndExec, ExitStep DEF I!Next

LEMMA InheritReports ==
  InheritInv /\ InheritBounds /\ InheritCommand /\ InheritPrinted => ReportsRaises
<1> SUFFICES ASSUME InheritInv, InheritBounds, InheritCommand, InheritPrinted,
                    \A p \in I!Processes : inheritPc[p] \in {"none", "done"},
                    NEW p \in I!Processes
             PROVE  LET copies == IF terminal THEN raised[p]
                      ELSE IF p = "parent" /\ function = "fork" /\ inheritPc["child"] = "done"
                        THEN 2 * raised[p]
                      ELSE IF raised[p] = 0 THEN 0 ELSE 1
                    IN  /\ I!Times(<<p, "raising">>) = copies
                        /\ command = "handler" => I!Times(<<p, "handling">>) = copies
                        /\ I!Times(<<p, "pending">>) =
                             IF command = "pending" THEN copies ELSE 0
                        /\ p = "parent" => I!Times(<<p, "not pending">>) = 0
  BY DEF ReportsRaises, I!ReportsRaises
<1> USE DEF I!Processes
<1> DEFINE copies == IF terminal THEN raised[p]
                     ELSE IF p = "parent" /\ function = "fork" /\ inheritPc["child"] = "done"
                       THEN 2 * raised[p]
                     ELSE IF raised[p] = 0 THEN 0 ELSE 1
<1>1. \A x : I!Times(x) = Count(output, x)
  BY DEF I!Times, Count, I!Cardinality, Cardinality
<1>2. /\ inheritPc["parent"] = "done" /\ inheritPc["child"] \in {"none", "done"}
      /\ inheritPc["child"] = "done" => function = "fork"
      /\ function = "fork" => raised["parent"] = 1
      /\ inheritPc["child"] = "none" => raised["child"] = 0
      /\ raised \in [I!Processes -> 0..2] /\ terminal \in BOOLEAN
  BY DEF InheritCommand, InheritBounds, YetToRaise
<1>3. ASSUME NEW t \in I!Reports, Told(p, t)
      PROVE  Count(output, <<p, t>>) =
               IF \/ t \in {"raising", "handling"}
                  \/ t = "pending" /\ command = "pending"
                 THEN copies ELSE 0
  <2>1. IF terminal THEN OnTerminal(p, t) ELSE InFile(p, t)
    BY <1>3 DEF InheritPrinted
  <2>2. CASE terminal
    BY <1>2, <2>1, <2>2 DEF OnTerminal, Total
  <2>3. CASE ~terminal
    BY <1>2, <2>1, <2>3 DEF InFile, Heard, Said, Since, YetToRaise
  <2> QED BY <2>2, <2>3
<1>4. {"raising", "handling", "pending", "not pending"} \subseteq I!Reports
  BY DEF I!Reports
<1> HIDE DEF copies
<1>5. /\ Count(output, <<p, "raising">>) = copies
      /\ command = "handler" => Count(output, <<p, "handling">>) = copies
      /\ Count(output, <<p, "pending">>) = IF command = "pending" THEN copies ELSE 0
      /\ p = "parent" => Count(output, <<p, "not pending">>) = 0
  BY <1>3, <1>4 DEF Told
<1> QED BY <1>1, <1>5 DEF copies

(***************************************************************************)
(* When its processes have ended, lab4/zad1 has reported each raise once,  *)
(* on a terminal; in a file, what was in the buffer of stdout at fork      *)
(* twice and what was in it at exec not at all; and the parent has found   *)
(* its signal pending, and the child has not (zadanie1.c).                 *)
(***************************************************************************)
THEOREM Reported == ProgramsSpec => []ReportsRaises
<1> DEFINE Inv == InheritInv /\ InheritBounds /\ InheritCommand /\ InheritPrinted
<1>1. ProgramsInit => Inv
  BY InheritInit, InheritBoundsInit, InheritCommandInit, InheritPrintedInit DEF ProgramsInit
<1>2. Inv /\ [ProgramsNext]_programs => Inv'
  <2>1. Inv /\ UNCHANGED inherit => Inv'
    <3> SUFFICES ASSUME Inv, UNCHANGED inherit PROVE Inv'
      OBVIOUS
    <3>1. InheritInv' /\ InheritBounds'
      BY DEF inherit, InheritInv, InheritBounds
    <3>2. InheritCommand'
      BY DEF inherit, InheritCommand, YetToRaise
    <3>3. InheritPrinted'
      <4>1. UNCHANGED <<command, terminal, inheritPc, raised, output, stdout>>
        BY DEF inherit
      <4>2. ASSUME NEW q \in I!Processes, NEW t \in I!Reports
            PROVE  /\ Told(q, t)' = Told(q, t)
                   /\ OnTerminal(q, t)' = OnTerminal(q, t)
                   /\ InFile(q, t)' = InFile(q, t)
        BY <4>1 DEF Told, OnTerminal, InFile, Heard, Said, Since, Total, YetToRaise
      <4> QED BY <4>1, <4>2 DEF InheritPrinted
    <3> QED BY <3>1, <3>2, <3>3
  <2>2. Inv /\ I!Next => Inv'
    BY InheritStep, InheritBoundsStep, InheritCommandStep, InheritPrintedStep
  <2> QED BY <2>1, <2>2 DEF ProgramsNext, programs
<1>3. Inv => ReportsRaises
  BY InheritReports
<1> QED BY <1>1, <1>2, <1>3, PTL DEF ProgramsSpec

-----------------------------------------------------------------------------
(* The types of all the programs.                                          *)

LEMMA SignalsStill == SignalsEnded => IInv
BY SignalsAssumption DEF SignalsEnded, IInv, TypeOK, ConfirmedFirst, SignalsFollowed

(***************************************************************************)
(* Every variable of every program keeps to its type; among what that      *)
(* says: a pipe never holds more results than it has room for (zad3), the  *)
(* descriptors that pipe opens never exceed the limit (zad2), and a        *)
(* process raises its signal at most twice (lab4/zad1).                    *)
(***************************************************************************)
THEOREM ProgramsTyped == ProgramsSpec => []ProgramsTypeOK
<1> DEFINE Inv == /\ IInv /\ PipeInv /\ PipeBounds /\ FifoInv /\ FifoBounds
                  /\ InheritInv /\ InheritBounds /\ FlagsInv /\ TableInv /\ FilesInv
<1>1. ProgramsInit => Inv
  BY InitIInv, SignalsStill, PipeInit, PipeBoundsInit, FifoHolds, FifoBoundsInit,
     InheritInit, InheritBoundsInit, FlagsInit, TableInit, FilesInit DEF ProgramsInit
<1>2. Inv /\ [ProgramsNext]_programs => Inv'
  <2> SUFFICES ASSUME Inv, [ProgramsNext]_programs PROVE Inv'
    OBVIOUS
  <2>1. IInv'
    BY NextIInv DEF ProgramsNext, programs
  <2>2. PipeInv' /\ PipeBounds'
    <3>1. CASE P!Next
      BY <3>1, PipeStep, PipeBoundsStep
    <3>2. CASE UNCHANGED pipe
      <4>1. PipeInv'
        BY <3>2 DEF pipe, PipeInv, PipeSplit, PipeType, PipeResults, PipeAdded, N,
                    P!number_of_children, P!Blocks
      <4>2. PipeBounds'
        BY <3>2 DEF pipe, PipeBounds, N, P!number_of_children, P!Blocks, P!PartialResults
      <4> QED BY <4>1, <4>2
    <3> QED BY <3>1, <3>2 DEF ProgramsNext, programs
  <2>3. FifoInv' /\ FifoBounds'
    <3>1. FifoInv'
      BY FifoStep DEF ProgramsNext, programs
    <3>2. FifoBounds'
      <4>1. CASE F!Next
        BY <4>1, FifoBoundsStep DEF F!Next
      <4>2. CASE UNCHANGED named
        BY <4>2 DEF named, FifoBounds, F!Capacity
      <4> QED BY <4>1, <4>2 DEF ProgramsNext, programs
    <3> QED BY <3>1, <3>2
  <2>4. InheritInv' /\ InheritBounds'
    <3>1. CASE I!Next
      BY <3>1, InheritStep, InheritBoundsStep
    <3>2. CASE UNCHANGED inherit
      BY <3>2 DEF inherit, InheritInv, InheritBounds
    <3> QED BY <3>1, <3>2 DEF ProgramsNext, programs
  <2>5. FlagsInv'
    <3>1. FlagsInv /\ UNCHANGED flags => FlagsInv'
      BY DEF flags, FlagsInv, NestedCalls, CallsInOrder, CallDepth, TopBegun, H!TypeOK,
             H!top
    <3> QED BY <3>1, FlagsStep DEF ProgramsNext, programs
  <2>6. TableInv'
    <3>1. TableInv /\ UNCHANGED table => TableInv'
      BY DEF table, TableInv, TableType, Counted, Held, B!Slots
    <3> QED BY <3>1, TableStep DEF ProgramsNext, programs
  <2>7. FilesInv'
    BY FilesStep DEF ProgramsNext, programs
  <2> QED BY <2>1, <2>2, <2>3, <2>4, <2>5, <2>6, <2>7
<1>3. Inv => ProgramsTypeOK
  BY PipeTypes, FifoTypes, InheritTypes, TableTypes, FilesTypes
     DEF ProgramsTypeOK, IInv, FlagsInv
<1> QED BY <1>1, <1>2, <1>3, PTL DEF ProgramsSpec

=============================================================================
