------------------------ MODULE EntryDispatchProofs ------------------------
(***************************************************************************)
(* The dispatch finds every entry of every function, whatever is passed.   *)
(* EntryStaysInRange is nearly inductive by itself: it lacks only that the *)
(* range stays inside the function.                                        *)
(***************************************************************************)
EXTENDS EntryDispatch, TLAPS

DispatchInv == DispatchTypeOK /\ EntryStaysInRange /\ DispatchFindsEntry

\* The middle of a range that has an entry is one of its entries, and divides
\* it into parts of at most half its size.
LEMMA MiddleInRange ==
  ASSUME first \in Int, last \in Int, first <= last
  PROVE  /\ Middle \in Int
         /\ first <= Middle /\ Middle <= last
         /\ 2 * (Middle - first) <= last - first + 1
         /\ 2 * (last - Middle) <= last - first + 1
  BY DEF Middle

LEMMA InitEstablishesInv == DispatchInit => DispatchInv
  BY DispatchAssumption
  DEF DispatchInit, DispatchInv, DispatchTypeOK, EntryStaysInRange,
      DispatchFindsEntry, EntryId, Searching, Exit

LEMMA StepPreservesInv ==
  DispatchInv /\ [DispatchNext]_dispatchVars => DispatchInv'
<1> SUFFICES ASSUME DispatchInv, [DispatchNext]_dispatchVars
             PROVE  DispatchInv'
  OBVIOUS
<1> USE DEF DispatchInv, DispatchTypeOK, EntryStaysInRange,
            DispatchFindsEntry, EntryId, Searching, Exit
<1>1. CASE NoEntries
  BY <1>1 DEF NoEntries, Jump
<1>2. CASE FirstEntry
  BY <1>2 DEF FirstEntry, Jump
<1>3. CASE OnlyEntry
  BY <1>3 DEF OnlyEntry, Jump
<1>4. ASSUME InTree
      PROVE  /\ Middle \in Int /\ first <= Middle /\ Middle <= last
             /\ 1 <= Middle /\ Middle <= entries - 1
  BY <1>4, MiddleInRange DEF InTree
<1>5. CASE MiddleEntry
  <2>1. InTree /\ jitArg = Middle + 1 /\ landed' = Middle
    BY <1>5 DEF MiddleEntry, Jump
  <2>2. UNCHANGED <<entries, jitArg, first, last>>
    BY <1>5 DEF MiddleEntry, Jump
  <2>3. Middle \in 0..entries - 1
    BY <2>1, <1>4
  <2> HIDE DEF EntryStaysInRange
  <2>4. DispatchTypeOK' /\ DispatchFindsEntry'
    BY <2>1, <2>2, <2>3
  <2>5. EntryStaysInRange'
    BY <2>1, <2>3 DEF EntryStaysInRange
  <2> QED  BY <2>4, <2>5
<1>6. CASE LowerPart
  <2>1. /\ InTree /\ first < Middle /\ jitArg < Middle + 1
        /\ last' = Middle - 1
        /\ UNCHANGED <<entries, jitArg, first, landed>>
    BY <1>6 DEF LowerPart
  <2> QED  BY <2>1, <1>4
<1>7. CASE UpperPart
  <2>1. /\ InTree /\ Middle < last /\ jitArg > Middle + 1
        /\ first' = Middle + 1
        /\ UNCHANGED <<entries, jitArg, last, landed>>
    BY <1>7 DEF UpperPart
  <2> QED  BY <2>1, <1>4
<1>8. CASE NothingLeft
  <2>1. InTree /\ jitArg # Middle + 1 /\ landed' = Exit
    BY <1>8 DEF NothingLeft, Jump
  <2>2. /\ jitArg < Middle + 1 => first = Middle
        /\ jitArg > Middle + 1 => Middle = last
        /\ UNCHANGED <<entries, jitArg, first, last>>
    BY <1>8 DEF NothingLeft, Jump
  <2>3. ASSUME NEW index \in 0..entries - 1
        PROVE  EntryId(index) # jitArg
    <3>1. CASE index = 0
      BY <3>1, <2>1 DEF InTree
    <3>2. CASE index # 0
      <4>1. EntryId(index) = jitArg => index \in first..last
        BY <3>2, <2>1 DEF InTree
      <4> QED  BY <4>1, <2>1, <2>2, <1>4
    <3> QED  BY <3>1, <3>2
  <2> QED  BY <2>1, <2>2, <2>3
<1>9. CASE UNCHANGED dispatchVars
  BY <1>9 DEF dispatchVars
<1> QED  BY <1>1, <1>2, <1>3, <1>5, <1>6, <1>7, <1>8, <1>9 DEF DispatchNext

LEMMA DispatchInvariant == DispatchSpec => []DispatchInv
<1>1. DispatchInit => DispatchInv
  BY InitEstablishesInv
<1>2. DispatchInv /\ [DispatchNext]_dispatchVars => DispatchInv'
  BY StepPreservesInv
<1> QED  BY <1>1, <1>2, PTL DEF DispatchSpec

\* Every range, entry and result stays inside the function.
THEOREM DispatchTypeCorrect == DispatchSpec => []DispatchTypeOK
<1>1. DispatchInv => DispatchTypeOK
  BY DEF DispatchInv
<1> QED  BY <1>1, DispatchInvariant, PTL

\* Generated code starts exactly where the interpreter stands: a function with
\* any number of entries and any number passed.
THEOREM DispatchIsRight == DispatchSpec => []DispatchFindsEntry
<1>1. DispatchInv => DispatchFindsEntry
  BY DEF DispatchInv
<1> QED  BY <1>1, DispatchInvariant, PTL

\* The comparisons never rule out the entry that was passed.
THEOREM SearchKeepsEntry == DispatchSpec => []EntryStaysInRange
<1>1. DispatchInv => EntryStaysInRange
  BY DEF DispatchInv
<1> QED  BY <1>1, DispatchInvariant, PTL

\* Each comparison at least halves the range, so that the number of comparisons
\* grows with the logarithm of the number of entries.
THEOREM SearchIsLogarithmic == DispatchSpec => RangeHalves
<1>1. DispatchInv /\ [DispatchNext]_dispatchVars =>
        [landed' = Searching =>
           2 * (last' - first' + 1) <= last - first + 1]_dispatchVars
  <2> SUFFICES ASSUME DispatchInv, DispatchNext, landed' = Searching
               PROVE  2 * (last' - first' + 1) <= last - first + 1
    BY DEF dispatchVars
  <2>1. ~NoEntries /\ ~FirstEntry /\ ~OnlyEntry /\ ~NothingLeft
    BY DEF NoEntries, FirstEntry, OnlyEntry, NothingLeft, Jump, Searching, Exit
  <2>2. first \in Int /\ last \in Int /\ entries \in Nat
    BY DEF DispatchInv, DispatchTypeOK
  <2>3. InTree => first <= last
    BY DEF InTree, DispatchInv, EntryStaysInRange
  <2>4. ~MiddleEntry
    BY <2>2, <2>3, MiddleInRange
    DEF MiddleEntry, InTree, Jump, Searching, DispatchInv, DispatchTypeOK
  <2>5. CASE LowerPart
    BY <2>2, <2>3, <2>5, MiddleInRange DEF LowerPart
  <2>6. CASE UpperPart
    BY <2>2, <2>3, <2>6, MiddleInRange DEF UpperPart
  <2> QED  BY <2>1, <2>4, <2>5, <2>6 DEF DispatchNext
<1> QED  BY <1>1, DispatchInvariant, PTL DEF DispatchSpec, RangeHalves
=============================================================================
