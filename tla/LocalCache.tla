----------------------------- MODULE LocalCache -----------------------------
(***************************************************************************)
(* How emitted code reaches the local variables of its frame               *)
(* (codegen/emit/emitter.cpp): some offsets live in processor registers    *)
(* between two boundaries (reg), the others, and the cached ones at a      *)
(* boundary, in the frame (mem). An offset o names the word at fp - o; a   *)
(* 64-bit variable at o has its high word at o - 1.                        *)
(*                                                                         *)
(* A machine is a record with the fields mem (address -> word) and reg     *)
(* (cached offset -> word); the interpreter is the machine whose reg is    *)
(* empty.                                                                  *)
(***************************************************************************)
EXTENDS Integers, FiniteSets

CONSTANTS Fp,               \* the address the frame pointer holds
          MaxCachedLocals   \* kMaxCachedLocals

ASSUME LocalCacheAssumption == Fp \in Int /\ MaxCachedLocals \in Nat

Cached(m) == DOMAIN m.reg
NoRegisters == [o \in {} |-> 0]

LoadVar(m, o) == IF o \in Cached(m) THEN m.reg[o] ELSE m.mem[Fp - o]

StoreVar(m, o, x) ==
  IF o \in Cached(m) THEN [m EXCEPT !.reg[o] = x]
  ELSE [m EXCEPT !.mem[Fp - o] = x]

\* Mutant: the high half goes to the offset above.
StoreVar64Above(m, o, p) == StoreVar(StoreVar(m, o, p[1]), o + 1, p[2])

\* Both halves from, and to, the place where each of them lives.
LoadVar64(m, o) == <<LoadVar(m, o), LoadVar(m, o - 1)>>
StoreVar64(m, o, p) == StoreVar(StoreVar(m, o, p[1]), o - 1, p[2])

\* With SSE the place of the low half decides for both.
ThroughMemory(m, o, sse) == sse /\ o \notin Cached(m)

LoadDoubleVar(m, o, sse) ==
  IF ThroughMemory(m, o, sse) THEN <<m.mem[Fp - o], m.mem[Fp - o + 1]>>
  ELSE LoadVar64(m, o)

StoreDoubleVar(m, o, p, sse) ==
  IF ThroughMemory(m, o, sse)
  THEN [m EXCEPT !.mem[Fp - o] = p[1], !.mem[Fp - o + 1] = p[2]]
  ELSE StoreVar64(m, o, p)

FlushCachedLocals(m) ==
  [m EXCEPT !.mem = [a \in DOMAIN m.mem |->
                       IF Fp - a \in Cached(m) THEN m.reg[Fp - a] ELSE @[a]]]

ReloadCachedLocals(m) ==
  [m EXCEPT !.reg = [o \in Cached(m) |-> m.mem[Fp - o]]]

\* What the program sees of a machine: the frame with every word where the
\* machine keeps it.
View(m) == FlushCachedLocals(m).mem

-----------------------------------------------------------------------------
\* The offsets that get a register, from the words the collector recorded. The
\* loop that adds the high halves also visits what it adds, so everything below
\* a recorded offset is in before the lowest ones are taken.
CollectCachedLocalOffsets(recorded) ==
  (UNION {1..w : w \in recorded}) \intersect 1..MaxCachedLocals

\* The halves of the 64-bit variable at o live in different places.
IsSplit(m, o) == (o \in Cached(m)) # (o - 1 \in Cached(m))
=============================================================================
