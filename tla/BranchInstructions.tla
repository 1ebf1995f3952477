------------------------- MODULE BranchInstructions -------------------------
(***************************************************************************)
(* Which way a branch goes, in the interpreter and in emitted code: both   *)
(* look at the value register vr of a machine. And the instructions that   *)
(* call a script function, with the ways its inlined code may end.         *)
(***************************************************************************)
EXTENDS Words

Branches(op, m) ==
  LET v == Signed(m.vr[1], WordBits)
  IN  CASE op = "JMP" -> TRUE
        [] op = "JZ" -> v = 0 [] op = "JNZ" -> v # 0
        [] op = "JS" -> v < 0 [] op = "JNS" -> v >= 0
        [] op = "JP" -> v > 0 [] op = "JNP" -> v <= 0
        [] op = "JLowZ" -> Low(m.vr[1], ByteBits) = 0
        [] op = "JLowNZ" -> Low(m.vr[1], ByteBits) # 0

\* js and jg look at the flags of a comparison with zero.
JumpTaken(op, m) ==
  LET f == Compare(m.vr[1], 0)
  IN  CASE op = "JMP" -> TRUE
        [] op = "JLowZ" -> Low(m.vr[1], ByteBits) = 0
        [] op = "JLowNZ" -> Low(m.vr[1], ByteBits) # 0
        [] op = "JZ" -> f.zero [] op = "JNZ" -> ~f.zero
        [] op = "JS" -> f.sign [] op = "JNS" -> ~f.sign
        [] op = "JP" -> SignedGreater(f) [] op = "JNP" -> ~SignedGreater(f)

-----------------------------------------------------------------------------
CallOps == {"CALL", "CALLINTF", "CallPtr", "ALLOC"}

\* The inlined code has done it all; or it gives up and the function is called
\* after all; or it has left native code at its end.
Done(m) == [how |-> "done", m |-> m]
Slow(m) == [how |-> "slow", m |-> m]
Left(m) == [how |-> "left", m |-> m]
=============================================================================
