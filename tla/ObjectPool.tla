----------------------------- MODULE ObjectPool -----------------------------
(***************************************************************************)
(* The pool of released script objects (object_helpers.cpp).  Generated    *)
(* code creates and releases objects of scalar-only classes through one    *)
(* bucket per class, a list linked through the first word of the dead      *)
(* objects.  The list is not protected by a lock: the first thread that    *)
(* needs a bucket becomes its owner for ever, and only the owner uses the  *)
(* list.  Other threads go to the allocator.                               *)
(*                                                                         *)
(* Every access to a bucket is a step of its own; asCScriptObject's Release *)
(* and constructor, which are AngelScript's, are one step each.  A thread  *)
(* holds at most one reference to an object; a second thread makes the     *)
(* count two.                                                              *)
(***************************************************************************)
EXTENDS Integers, FiniteSets

CONSTANTS
    Thread,
    Cell,       \* blocks of memory
    Type,       \* the classes with a bucket
    Bases,      \* Bases[type]: the classes a variable holding it may have
    Limit,      \* objects a bucket keeps: 64
    None        \* a null pointer, a bucket without an owner

ASSUME PoolAssumption ==
    /\ None \notin Cell \cup Thread
    /\ IsFiniteSet(Thread) /\ IsFiniteSet(Cell)
    /\ Bases \in [Type -> SUBSET Type]
    /\ \A type \in Type : type \in Bases[type]
    /\ Limit \in Nat

VARIABLES
    held,       \* the objects each thread has a reference to
    objType,    \* the objType of the object in a block
    weak,       \* its weak reference flag: none, alive or dead
    destructs,  \* how often its destructor has run (isDestructCalled)
    allocated,  \* blocks the allocator has given out
    next,       \* the first word of a dead object
    owner, head, count,
    cleared,    \* Clear has run: the objectType of the buckets is null
    pc,         \* what each thread does next in a create or a release
    reg         \* the bucket and the block it does it with

objects == <<held, objType, weak, destructs, allocated>>
list == <<next, head, count>>
vars == <<objects, list, owner, cleared, pc, reg>>

\* refCount of asCScriptObject.
HeldBy(c) == {t \in Thread : c \in held[t]}
RefCount(c) == Cardinality(HeldBy(c))

Start(t, where, bucket, c) ==
    /\ pc' = [pc EXCEPT ![t] = where]
    /\ reg' = [reg EXCEPT ![t] = [bucket |-> bucket, cell |-> c]]

Goto(t, where) == pc' = [pc EXCEPT ![t] = where] /\ UNCHANGED reg

Bucket(t) == reg[t].bucket
Object(t) == reg[t].cell

-----------------------------------------------------------------------------
(* CreatePooledScriptObject and the CacheReleasedObject that ends a        *)
(* release begin with IsPoolOwner; "c" and "r" tell the two apart.         *)

IsPoolOwnerLoad(t) ==
    /\ pc[t] \in {"c_load", "r_load"}
    /\ LET mine == owner[Bucket(t)] = t
           free == owner[Bucket(t)] = None
       IN  Goto(t, IF pc[t] = "c_load"
                   THEN IF mine THEN "pop" ELSE IF free THEN "c_cas" ELSE "alloc"
                   ELSE IF mine THEN "room" ELSE IF free THEN "r_cas" ELSE "free")
    /\ UNCHANGED <<objects, list, owner, cleared>>

\* Broken: takes an unowned bucket by a plain store.
IsPoolOwnerStore(t) ==
    /\ pc[t] \in {"c_cas", "r_cas"}
    /\ owner' = [owner EXCEPT ![Bucket(t)] = t]
    /\ Goto(t, IF pc[t] = "c_cas" THEN "pop" ELSE "room")
    /\ UNCHANGED <<objects, list, cleared>>

IsPoolOwnerExchange(t) ==
    /\ pc[t] \in {"c_cas", "r_cas"}
    /\ IF owner[Bucket(t)] = None
       THEN /\ owner' = [owner EXCEPT ![Bucket(t)] = t]
            /\ Goto(t, IF pc[t] = "c_cas" THEN "pop" ELSE "room")
       ELSE /\ UNCHANGED owner
            /\ Goto(t, IF pc[t] = "c_cas" THEN "alloc" ELSE "free")
    /\ UNCHANGED <<objects, list, cleared>>

-----------------------------------------------------------------------------
(* Creating an object.                                                     *)

CreatePooledScriptObject(t, bucket) ==
    /\ pc[t] = "idle" /\ ~cleared
    /\ Start(t, "c_load", bucket, None)
    /\ UNCHANGED <<objects, list, owner, cleared>>

ReadHead(t) ==
    /\ pc[t] = "pop"
    /\ Start(t, IF head[Bucket(t)] = None THEN "alloc" ELSE "unlink",
             Bucket(t), head[Bucket(t)])
    /\ UNCHANGED <<objects, list, owner, cleared>>

\* Broken: leaves the block it takes in the list.
UnlinkNothing(t) ==
    /\ pc[t] = "unlink"
    /\ Goto(t, "uncount")
    /\ UNCHANGED <<objects, list, owner, cleared>>

Unlink(t) ==
    /\ pc[t] = "unlink"
    /\ head' = [head EXCEPT ![Bucket(t)] = next[Object(t)]]
    /\ Goto(t, "uncount")
    /\ UNCHANGED <<objects, next, count, owner, cleared>>

DecreaseCount(t) ==
    /\ pc[t] = "uncount"
    /\ count' = [count EXCEPT ![Bucket(t)] = @ - 1]
    /\ Goto(t, "construct")
    /\ UNCHANGED <<objects, next, head, owner, cleared>>

CallAlloc(t) ==
    /\ pc[t] = "alloc"
    /\ \E c \in Cell :
        /\ ~allocated[c]
        /\ allocated' = [allocated EXCEPT ![c] = TRUE]
        /\ Start(t, "construct", Bucket(t), c)
    /\ UNCHANGED <<held, objType, weak, destructs, list, owner, cleared>>

\* ScriptObject_Construct, with a reference count of one.
Construct(t) ==
    /\ pc[t] = "construct"
    /\ held' = [held EXCEPT ![t] = @ \cup {Object(t)}]
    /\ objType' = [objType EXCEPT ![Object(t)] = Bucket(t)]
    /\ weak' = [weak EXCEPT ![Object(t)] = "none"]
    /\ destructs' = [destructs EXCEPT ![Object(t)] = 0]
    /\ Goto(t, "idle")
    /\ UNCHANGED <<allocated, list, owner, cleared>>

-----------------------------------------------------------------------------
(* Releasing one, from a variable of class bucket.                         *)

\* Broken: an object of a derived class is released like one of the class.
ReleaseAnyType(t, c, bucket) ==
    /\ pc[t] = "idle" /\ c \in held[t] /\ bucket \in Bases[objType[c]]
    /\ \/ Start(t, "release", bucket, c)
       \/ ~cleared /\ Start(t, "check", bucket, c)
    /\ UNCHANGED <<objects, list, owner, cleared>>

\* ReleasePooledScriptObject.  The variant for a class with a one-instruction
\* destructor also takes the full path while doProcessSuspend is set.
ReleasePooledScriptObject(t, c, bucket) ==
    /\ pc[t] = "idle" /\ c \in held[t] /\ bucket \in Bases[objType[c]]
    /\ \/ Start(t, "release", bucket, c)
       \/ objType[c] = bucket /\ ~cleared /\ Start(t, "check", bucket, c)
    /\ UNCHANGED <<objects, list, owner, cleared>>

\* Broken: does not look for weak references.
ReleaseWithWeakRefs(t) ==
    /\ pc[t] = "check"
    /\ IF RefCount(Object(t)) # 1 \/ destructs[Object(t)] > 0
       THEN Goto(t, "release") /\ UNCHANGED destructs
       ELSE Goto(t, "dec") /\ destructs' = [destructs EXCEPT ![Object(t)] = @ + 1]
    /\ UNCHANGED <<held, objType, weak, allocated, list, owner, cleared>>

\* ReleaseScalarOnlyWithoutFree: the last reference, nothing attached.  The
\* one-instruction destructor runs here.
ReleaseScalarOnly(t) ==
    /\ pc[t] = "check"
    /\ IF \/ RefCount(Object(t)) # 1 \/ weak[Object(t)] # "none"
          \/ destructs[Object(t)] > 0
       THEN Goto(t, "release") /\ UNCHANGED destructs
       ELSE Goto(t, "dec") /\ destructs' = [destructs EXCEPT ![Object(t)] = @ + 1]
    /\ UNCHANGED <<held, objType, weak, allocated, list, owner, cleared>>

DecreaseRef(t) ==
    /\ pc[t] = "dec"
    /\ held' = [held EXCEPT ![t] = @ \ {Object(t)}]
    /\ Goto(t, IF RefCount(Object(t)) = 1 THEN "r_load" ELSE "idle")
    /\ UNCHANGED <<objType, weak, destructs, allocated, list, owner, cleared>>

\* Broken: lets one object too many in.
CheckRoomForOneMore(t) ==
    /\ pc[t] = "room"
    /\ Goto(t, IF count[Bucket(t)] <= Limit THEN "link" ELSE "free")
    /\ UNCHANGED <<objects, list, owner, cleared>>

\* Broken: forgets the object when there is no room.
CheckRoomDropping(t) ==
    /\ pc[t] = "room"
    /\ Goto(t, IF count[Bucket(t)] < Limit THEN "link" ELSE "idle")
    /\ UNCHANGED <<objects, list, owner, cleared>>

\* CacheReleasedObject, once IsPoolOwner has said yes.
CheckRoom(t) ==
    /\ pc[t] = "room"
    /\ Goto(t, IF count[Bucket(t)] < Limit THEN "link" ELSE "free")
    /\ UNCHANGED <<objects, list, owner, cleared>>

Link(t) ==
    /\ pc[t] = "link"
    /\ next' = [next EXCEPT ![Object(t)] = head[Bucket(t)]]
    /\ Goto(t, "sethead")
    /\ UNCHANGED <<objects, head, count, owner, cleared>>

SetHead(t) ==
    /\ pc[t] = "sethead"
    /\ head' = [head EXCEPT ![Bucket(t)] = Object(t)]
    /\ Goto(t, "addcount")
    /\ UNCHANGED <<objects, next, count, owner, cleared>>

IncreaseCount(t) ==
    /\ pc[t] = "addcount"
    /\ count' = [count EXCEPT ![Bucket(t)] = @ + 1]
    /\ Goto(t, "idle")
    /\ UNCHANGED <<objects, next, head, owner, cleared>>

CallFree(t) ==
    /\ pc[t] = "free"
    /\ allocated' = [allocated EXCEPT ![Object(t)] = FALSE]
    /\ Goto(t, "idle")
    /\ UNCHANGED <<held, objType, weak, destructs, list, owner, cleared>>

\* asCScriptObject::Release, as one step: with the last reference it tells the
\* weak references, runs the destructor and frees the memory.
ScriptObjectRelease(t) ==
    /\ pc[t] = "release"
    /\ held' = [held EXCEPT ![t] = @ \ {Object(t)}]
    /\ IF RefCount(Object(t)) > 1 THEN UNCHANGED <<weak, destructs, allocated>>
       ELSE /\ weak' = [weak EXCEPT ![Object(t)] =
                    IF @ = "none" THEN @ ELSE "dead"]
            /\ destructs' = [destructs EXCEPT ![Object(t)] =
                    IF @ = 0 THEN 1 ELSE @]
            /\ allocated' = [allocated EXCEPT ![Object(t)] = FALSE]
    /\ Goto(t, "idle")
    /\ UNCHANGED <<objType, list, owner, cleared>>

-----------------------------------------------------------------------------
(* What else threads do with objects.                                      *)

\* A thread hands a reference to another one (global variables, arguments).
Share(t, u, c) ==
    /\ pc[t] = "idle" /\ c \in held[t] /\ pc[u] = "idle"
    /\ held' = [held EXCEPT ![u] = @ \cup {c}]
    /\ UNCHANGED <<objType, weak, destructs, allocated, list, owner, cleared, pc, reg>>

\* GetWeakRefFlag, by a thread with a reference.
Watch(t, c) ==
    /\ pc[t] = "idle" /\ c \in held[t] /\ weak[c] = "none"
    /\ weak' = [weak EXCEPT ![c] = "alive"]
    /\ UNCHANGED <<held, objType, destructs, allocated, list, owner, cleared, pc, reg>>

\* A weak reference is turned into a reference while its flag is not set.
Upgrade(t, c) ==
    /\ pc[t] = "idle" /\ weak[c] = "alive"
    /\ held' = [held EXCEPT ![t] = @ \cup {c}]
    /\ UNCHANGED <<objType, weak, destructs, allocated, list, owner, cleared, pc, reg>>

\* The blocks a chain of links reaches: they are in every set that has the
\* first block and, with a block, the one it links to.
Reached(first, link) ==
    {c \in Cell : \A S \in SUBSET Cell :
        (first \in S \cup {None} /\ \A d \in S : link[d] \in S \cup {None})
            => c \in S}

\* The blocks in a bucket's list.
Pooled(bucket) == Reached(head[bucket], next)

\* Broken: does not reset the counts.
ClearKeepingCount ==
    /\ ~cleared /\ \A t \in Thread : pc[t] = "idle"
    /\ allocated' = [c \in Cell |->
            allocated[c] /\ \A b \in Type : c \notin Pooled(b)]
    /\ head' = [b \in Type |-> None]
    /\ cleared' = TRUE
    /\ UNCHANGED <<held, objType, weak, destructs, next, count, owner, pc, reg>>

\* Broken: forgets the list instead of freeing what is in it.
ClearForgetting ==
    /\ ~cleared /\ \A t \in Thread : pc[t] = "idle"
    /\ head' = [b \in Type |-> None]
    /\ count' = [b \in Type |-> 0]
    /\ cleared' = TRUE
    /\ UNCHANGED <<objects, next, owner, pc, reg>>

\* ClearObjectPool, from the destructor of the binding.  It takes the pool's
\* mutex, which the owners of the lists do not: no script may be running.
Clear ==
    /\ ~cleared /\ \A t \in Thread : pc[t] = "idle"
    /\ allocated' = [c \in Cell |->
            allocated[c] /\ \A b \in Type : c \notin Pooled(b)]
    /\ head' = [b \in Type |-> None]
    /\ count' = [b \in Type |-> 0]
    /\ cleared' = TRUE
    /\ UNCHANGED <<held, objType, weak, destructs, next, owner, pc, reg>>

-----------------------------------------------------------------------------
Init ==
    /\ held = [t \in Thread |-> {}]
    /\ objType \in [Cell -> Type]
    /\ weak = [c \in Cell |-> "none"]
    /\ destructs = [c \in Cell |-> 0]
    /\ allocated = [c \in Cell |-> FALSE]
    /\ next = [c \in Cell |-> None]
    /\ owner = [b \in Type |-> None]
    /\ head = [b \in Type |-> None]
    /\ count = [b \in Type |-> 0]
    /\ cleared = FALSE
    /\ pc = [t \in Thread |-> "idle"]
    /\ reg \in [Thread -> [bucket : Type, cell : {None}]]

Create(t) ==
    \/ \E bucket \in Type : CreatePooledScriptObject(t, bucket)
    \/ ReadHead(t) \/ Unlink(t) \/ DecreaseCount(t)
    \/ CallAlloc(t) \/ Construct(t)

Release(t) ==
    \/ \E c \in Cell, bucket \in Type : ReleasePooledScriptObject(t, c, bucket)
    \/ ReleaseScalarOnly(t) \/ DecreaseRef(t)
    \/ CheckRoom(t) \/ Link(t) \/ SetHead(t) \/ IncreaseCount(t) \/ CallFree(t)
    \/ ScriptObjectRelease(t)

Use(t) ==
    \E c \in Cell : Watch(t, c) \/ Upgrade(t, c) \/ \E u \in Thread : Share(t, u, c)

Next ==
    \/ Clear
    \/ \E t \in Thread :
        \/ IsPoolOwnerLoad(t) \/ IsPoolOwnerExchange(t)
        \/ Create(t) \/ Release(t) \/ Use(t)

Spec == Init /\ [][Next]_vars

-----------------------------------------------------------------------------
(* Properties.                                                             *)

\* Where a thread uses a bucket's list, and where it has a dead object that
\* is in no list.
InList == {"pop", "unlink", "uncount", "room", "link", "sethead", "addcount"}
Steps ==
    InList \cup {"idle", "c_load", "r_load", "c_cas", "r_cas", "alloc",
        "construct", "check", "dec", "free", "release"}

PoolTypeOK ==
    /\ held \in [Thread -> SUBSET Cell]
    /\ objType \in [Cell -> Type]
    /\ weak \in [Cell -> {"none", "alive", "dead"}]
    /\ destructs \in [Cell -> Nat]
    /\ allocated \in [Cell -> BOOLEAN]
    /\ next \in [Cell -> Cell \cup {None}]
    /\ owner \in [Type -> Thread \cup {None}]
    /\ head \in [Type -> Cell \cup {None}]
    /\ count \in [Type -> 0..Limit]
    /\ cleared \in BOOLEAN
    /\ pc \in [Thread -> Steps]
    /\ reg \in [Thread -> [bucket : Type, cell : Cell \cup {None}]]

\* The lock-free ownership works as a lock: whoever is at a bucket's list is
\* its owner, so that two threads never are (IsPoolOwner).
OnlyOwnerInList ==
    \A t \in Thread : pc[t] \in InList => owner[Bucket(t)] = t

\* Memory in a list belongs to nobody: it is allocated, no thread holds the
\* object that was there, it is in one list only, and what was there had the
\* class of the bucket, so that the next object fits.
PooledIsDead ==
    \A b \in Type : \A c \in Pooled(b) :
        /\ allocated[c] /\ objType[c] = b
        /\ \A t \in Thread :
            /\ c \notin held[t]
            /\ Object(t) = c => pc[t] \notin {"construct", "free", "link"}
        /\ \A d \in Type : c \in Pooled(d) => d = b

\* While no thread is at it, a list has as many objects as its count says
\* (CacheReleasedObject, CreatePooledScriptObject, Clear).
CountMatchesList ==
    \A b \in Type :
        (\A t \in Thread : pc[t] \in InList => Bucket(t) # b) =>
            count[b] = Cardinality(Pooled(b))

\* No memory is lost: what is allocated is held, in a list, or in the hands
\* of a thread; after Clear no list keeps any.
NothingLeaks ==
    \A c \in Cell : allocated[c] =>
        \/ \E t \in Thread : c \in held[t] \/ (pc[t] # "idle" /\ Object(t) = c)
        \/ ~cleared /\ \E b \in Type : c \in Pooled(b)

\* Nobody keeps a reference to an object whose destructor has run, apart from
\* the thread that is on its way to give the memory back: neither a weak
\* reference nor another holder brings it back while the fast release is
\* between its check and its decrement (ReleaseScalarOnlyWithoutFree).
DestructedIsLeaving ==
    \A t \in Thread : \A c \in held[t] :
        destructs[c] > 0 => pc[t] = "dec" /\ Object(t) = c

-----------------------------------------------------------------------------
(* Why they hold: PoolInv is inductive.                                    *)

\* Where a thread has memory in its hands that is nobody's object yet, or any
\* more, and is in no list.
Carries(t) ==
    pc[t] \in {"uncount", "construct", "r_load", "r_cas", "room", "link",
               "sethead", "free"}

HeldIsAllocated ==
    \A c \in Cell :
        /\ HeldBy(c) # {} => allocated[c]
        /\ weak[c] = "alive" => HeldBy(c) # {}

CarriedIsFree ==
    \A t \in Thread : Carries(t) =>
        /\ Object(t) \in Cell /\ allocated[Object(t)] /\ HeldBy(Object(t)) = {}
        /\ \A u \in Thread : Carries(u) /\ Object(u) = Object(t) => u = t

PooledIsFree ==
    \A b \in Type : \A c \in Pooled(b) :
        /\ allocated[c] /\ objType[c] = b /\ HeldBy(c) = {}
        /\ \A t \in Thread : Carries(t) => Object(t) # c
        /\ \A d \in Type : c \in Pooled(d) => d = b

NothingLost ==
    \A c \in Cell : allocated[c] =>
        \/ HeldBy(c) # {}
        \/ \E t \in Thread : Carries(t) /\ Object(t) = c
        \/ \E b \in Type : c \in Pooled(b)

\* No two blocks link to the same block, and none to the first.
Chain(first, link) ==
    \A c \in Reached(first, link) :
        /\ link[c] # first
        /\ \A d \in Reached(first, link) :
            link[c] = link[d] /\ link[c] # None => c = d

ListsAreChains == \A b \in Type : Chain(head[b], next)

\* A fast release has found the only reference, to an object of the bucket's
\* class that nobody watches.
ReleasesItsOwn ==
    \A t \in Thread :
        /\ pc[t] \in {"check", "dec", "release"} => Object(t) \in held[t]
        /\ pc[t] \in {"check", "dec", "r_load", "r_cas", "room", "link", "sethead"}
            => objType[Object(t)] = Bucket(t)
        /\ pc[t] = "dec"
            => weak[Object(t)] = "none" /\ HeldBy(Object(t)) = {t}

AtTheList ==
    \A t \in Thread :
        /\ pc[t] = "unlink" => Object(t) = head[Bucket(t)] /\ Object(t) # None
        /\ pc[t] = "sethead" => next[Object(t)] = head[Bucket(t)]
        /\ pc[t] \in {"link", "sethead", "addcount"} => count[Bucket(t)] < Limit

\* How far a thread at a list has left its count behind.
Owed(t) == IF pc[t] = "uncount" THEN 1 ELSE IF pc[t] = "addcount" THEN -1 ELSE 0

CountOwes ==
    \A t \in Thread : pc[t] \in InList =>
        count[Bucket(t)] = Cardinality(Pooled(Bucket(t))) + Owed(t)

ClearedIsQuiet ==
    cleared => /\ \A t \in Thread : pc[t] \in {"idle", "release"}
               /\ \A b \in Type : head[b] = None

PoolInv ==
    /\ PoolTypeOK /\ OnlyOwnerInList /\ DestructedIsLeaving
    /\ HeldIsAllocated /\ CarriedIsFree /\ PooledIsFree /\ NothingLost
    /\ ListsAreChains /\ ReleasesItsOwn /\ AtTheList
    /\ CountMatchesList /\ CountOwes /\ ClearedIsQuiet

\* The pool is an object heap: it never gives out the memory of an object that
\* is still held, and never loses or changes one.
Heap == INSTANCE ObjectHeap
ImplementsHeap == Heap!Spec
=============================================================================
