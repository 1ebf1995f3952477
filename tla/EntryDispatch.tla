--------------------------- MODULE EntryDispatch ---------------------------
(***************************************************************************)
(* The first thing generated code does: it looks for the JitEntry whose    *)
(* number the interpreter passes as jitArg, with a tree of comparisons     *)
(* (FunctionEmitter::EmitEntryDispatch in control_flow.cpp). entryIndices, *)
(* the positions of the entries, is counted from 0.                        *)
(***************************************************************************)
EXTENDS Integers

CONSTANTS MaxEntries,   \* as many JitEntry instructions as a function has
          Arguments     \* the numbers that may be passed

ASSUME DispatchAssumption == MaxEntries \in Nat /\ Arguments \subseteq Nat

VARIABLES entries,      \* how many JitEntry instructions the function has
          jitArg,       \* the number passed
          first, last,  \* the emitted range the comparisons have come to
          landed        \* the entry jumped to, or Exit, or Searching

dispatchVars == <<entries, jitArg, first, last, landed>>

Searching == -2
Exit == -1

\* Mutant: the numbers start at zero.
EntryIdFromZero(index) == index

\* The number Finalize writes into the entry's instruction.
EntryId(index) == index + 1

\* A number may be passed that no entry of this function has.
DispatchInit ==
  /\ entries \in 0..MaxEntries
  /\ jitArg \in Arguments
  /\ first = 1 /\ last = entries - 1
  /\ landed = Searching

Jump(to) == landed' = to /\ UNCHANGED <<entries, jitArg, first, last>>

\* No entry: to the exit. The first entry is tested before the tree, and is
\* the only one when the tree is empty.
NoEntries == landed = Searching /\ entries = 0 /\ Jump(Exit)

FirstEntry == landed = Searching /\ entries > 0 /\ jitArg = 1 /\ Jump(0)

OnlyEntry == landed = Searching /\ entries = 1 /\ jitArg # 1 /\ Jump(Exit)

-----------------------------------------------------------------------------
(* The code of emitEntryRange(first, last). Its case first < middle = last *)
(* cannot come up: the middle is the last only of a range of one.          *)

Middle == first + (last - first) \div 2

InTree == landed = Searching /\ entries > 1 /\ jitArg # 1

\* Mutant: index and number are confused.
MiddleEntryByNumber == InTree /\ jitArg = Middle + 1 /\ Jump(Middle + 1)

MiddleEntry == InTree /\ jitArg = Middle + 1 /\ Jump(Middle)

\* Mutant: the middle stays in the lower part, which then never gets smaller.
LowerPartWithMiddle ==
  /\ InTree /\ first < Middle /\ jitArg < Middle + 1
  /\ last' = Middle
  /\ UNCHANGED <<entries, jitArg, first, landed>>

\* jb to the code of the lower part, which exists only if the middle is not the
\* first.
LowerPart ==
  /\ InTree /\ first < Middle /\ jitArg < Middle + 1
  /\ last' = Middle - 1
  /\ UNCHANGED <<entries, jitArg, first, landed>>

\* Mutant: the upper part starts one too late.
UpperPartTooHigh ==
  /\ InTree /\ Middle < last /\ jitArg > Middle + 1
  /\ first' = Middle + 2
  /\ UNCHANGED <<entries, jitArg, last, landed>>

UpperPart ==
  /\ InTree /\ Middle < last /\ jitArg > Middle + 1
  /\ first' = Middle + 1
  /\ UNCHANGED <<entries, jitArg, last, landed>>

\* Mutant: the third case of the source with a jump too few, so that a number
\* below a range of two falls out of the code.
NothingLeftAbove ==
  /\ InTree /\ jitArg > Middle + 1 /\ Middle = last
  /\ Jump(Exit)

\* ja, jb or jmp to the exit on the side where nothing is left.
NothingLeft ==
  /\ InTree /\ jitArg # Middle + 1
  /\ jitArg < Middle + 1 => first = Middle
  /\ jitArg > Middle + 1 => Middle = last
  /\ Jump(Exit)

DispatchNext ==
  \/ NoEntries \/ FirstEntry \/ OnlyEntry
  \/ MiddleEntry \/ LowerPart \/ UpperPart \/ NothingLeft

DispatchSpec == DispatchInit /\ [][DispatchNext]_dispatchVars
                  /\ WF_dispatchVars(DispatchNext)

-----------------------------------------------------------------------------
DispatchTypeOK ==
  /\ entries \in Nat /\ jitArg \in Nat
  /\ first \in 1..entries + 1 /\ last \in -1..entries - 1
  /\ landed \in {Searching, Exit} \union 0..entries - 1

\* Generated code starts at the entry whose number was passed, which is where
\* the interpreter stands, and leaves to the interpreter when the function has
\* no entry of that number.
DispatchFindsEntry ==
  /\ landed >= 0 => EntryId(landed) = jitArg
  /\ landed = Exit => \A index \in 0..entries - 1 : EntryId(index) # jitArg

\* What the comparisons have ruled out is not the entry that was passed, and no
\* range without an entry has code.
EntryStaysInRange ==
  landed = Searching /\ entries > 1 =>
    /\ first <= last
    /\ \A index \in 1..entries - 1 :
         EntryId(index) = jitArg => index \in first..last

\* Every comparison leaves at most half of the range.
RangeHalves ==
  [][landed' = Searching => 2 * (last' - first' + 1) <= last - first + 1]_dispatchVars

\* A search ends. (Fairness: the processor executes the code.)
DispatchEnds == <>(landed # Searching)
=============================================================================
