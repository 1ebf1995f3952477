----------------------------- MODULE ObjectHeap -----------------------------
(***************************************************************************)
(* What a script may rely on when it creates, shares and releases script   *)
(* objects, however their memory is managed: a new object never occupies   *)
(* the memory of an object somebody still holds, and an object keeps its   *)
(* type for as long as it is held.                                         *)
(***************************************************************************)
CONSTANTS
    Thread,
    Cell,       \* blocks of memory that can hold an object
    Type

VARIABLES
    held,       \* the objects each thread has a reference to, by memory
    objType     \* the type of the object in a block of memory

Live(c) == \E t \in Thread : c \in held[t]

New(t, c, type) ==
    /\ ~Live(c)
    /\ held' = [held EXCEPT ![t] = @ \cup {c}]
    /\ objType' = [objType EXCEPT ![c] = type]

\* A thread gets a reference to an object that is still alive.
Share(t, c) ==
    /\ Live(c)
    /\ held' = [held EXCEPT ![t] = @ \cup {c}]
    /\ UNCHANGED objType

Drop(t, c) ==
    /\ c \in held[t]
    /\ held' = [held EXCEPT ![t] = @ \ {c}]
    /\ UNCHANGED objType

Init ==
    /\ held = [t \in Thread |-> {}]
    /\ objType \in [Cell -> Type]

Next ==
    \E t \in Thread, c \in Cell :
        Share(t, c) \/ Drop(t, c) \/ \E type \in Type : New(t, c, type)

Spec == Init /\ [][Next]_<<held, objType>>
=============================================================================
