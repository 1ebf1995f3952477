-------------------------- MODULE ObjectPoolProofs --------------------------
(***************************************************************************)
(* The properties of ObjectPool for any number of threads, blocks and      *)
(* classes and any limit: PoolInv is inductive, and the pool implements an *)
(* object heap.                                                            *)
(***************************************************************************)
EXTENDS ObjectPool, FiniteSetTheorems, TLAPS

(***************************************************************************)
(* What a chain of links reaches, and what each write to the list does to  *)
(* it.                                                                     *)
(***************************************************************************)

LEMMA ReachedClosed ==
    ASSUME NEW first \in Cell \cup {None}, NEW link \in [Cell -> Cell \cup {None}]
    PROVE  /\ Reached(first, link) \subseteq Cell
           /\ first \in Reached(first, link) \cup {None}
           /\ \A d \in Reached(first, link) : link[d] \in Reached(first, link) \cup {None}
<1>1. Reached(first, link) \subseteq Cell
  BY DEF Reached
<1>2. first \in Reached(first, link) \cup {None}
  BY DEF Reached
<1>3. ASSUME NEW d \in Reached(first, link), link[d] # None
      PROVE  link[d] \in Reached(first, link)
  <2>1. d \in Cell /\ link[d] \in Cell
    BY <1>1, <1>3
  <2>2. ASSUME NEW S \in SUBSET Cell, first \in S \cup {None},
               \A e \in S : link[e] \in S \cup {None}
        PROVE  link[d] \in S
    <3>1. d \in S
      BY <2>2 DEF Reached
    <3> QED  BY <2>2, <3>1, <1>3
  <2> QED  BY <2>1, <2>2 DEF Reached
<1> QED  BY <1>1, <1>2, <1>3

LEMMA ReachedLeast ==
    ASSUME NEW first, NEW link, NEW S \in SUBSET Cell,
           first \in S \cup {None}, \A d \in S : link[d] \in S \cup {None}
    PROVE  Reached(first, link) \subseteq S
  BY DEF Reached

LEMMA NothingReached ==
    ASSUME NEW link
    PROVE  Reached(None, link) = {}
<1> DEFINE S == {}
<1>1. S \in SUBSET Cell /\ None \in S \cup {None}
      /\ \A d \in S : link[d] \in S \cup {None}
  OBVIOUS
<1>2. \A c : c \notin S
  OBVIOUS
<1> HIDE DEF S
<1>3. Reached(None, link) \subseteq S
  BY <1>1, ReachedLeast
<1> QED  BY <1>2, <1>3

\* Unlink takes the first block out and leaves a chain.
LEMMA WithoutFirst ==
    ASSUME NEW first \in Cell, NEW link \in [Cell -> Cell \cup {None}],
           None \notin Cell, Chain(first, link)
    PROVE  /\ Reached(link[first], link) = Reached(first, link) \ {first}
           /\ Chain(link[first], link)
<1> DEFINE R == Reached(first, link)
           Q == Reached(link[first], link)
<1>1. R \subseteq Cell /\ first \in R
      /\ \A d \in R : link[d] \in R \cup {None}
  BY ReachedClosed
<1>2. link[first] \in Cell \cup {None}
  OBVIOUS
<1>3. Q \subseteq Cell /\ link[first] \in Q \cup {None}
      /\ \A d \in Q : link[d] \in Q \cup {None}
  BY <1>2, ReachedClosed
<1>4. \A d \in R : link[d] # first
  BY DEF Chain
<1>5. Q \subseteq R \ {first}
  <2> DEFINE S == R \ {first}
  <2>1. S \in SUBSET Cell
    BY <1>1
  <2>2. link[first] \in S \cup {None}
    BY <1>1, <1>4
  <2>3. \A d \in S : link[d] \in S \cup {None}
    BY <1>1, <1>4
  <2> HIDE DEF S
  <2>4. Q \subseteq S
    BY <2>1, <2>2, <2>3, ReachedLeast
  <2> QED  BY <2>4 DEF S
<1>6. R \subseteq Q \cup {first}
  <2> DEFINE S == Q \cup {first}
  <2>1. S \in SUBSET Cell /\ first \in S \cup {None}
    BY <1>3
  <2>2. \A d \in S : link[d] \in S \cup {None}
    BY <1>3
  <2> HIDE DEF S
  <2>3. R \subseteq S
    BY <2>1, <2>2, ReachedLeast
  <2> QED  BY <2>3 DEF S
<1>7. Chain(link[first], link)
  <2> SUFFICES ASSUME NEW c \in Q
               PROVE  /\ link[c] # link[first]
                      /\ \A d \in Q : link[c] = link[d] /\ link[c] # None => c = d
    BY DEF Chain
  <2>1. c \in R /\ c # first
    BY <1>5
  <2>2. link[c] # link[first]
    <3>1. CASE link[first] = None
      BY <3>1, NothingReached
    <3>2. CASE link[first] # None
      BY <2>1, <1>1, <3>2 DEF Chain
    <3> QED  BY <3>1, <3>2
  <2>3. \A d \in Q : link[c] = link[d] /\ link[c] # None => c = d
    BY <1>5, <2>1 DEF Chain
  <2> QED  BY <2>2, <2>3
<1> QED  BY <1>5, <1>6, <1>7

\* Writing the link of a block that no chain reaches changes no chain.
LEMMA LinkOutside ==
    ASSUME NEW first \in Cell \cup {None}, NEW link \in [Cell -> Cell \cup {None}],
           NEW other \in [Cell -> Cell \cup {None}], NEW c,
           c \notin Reached(first, link),
           \A d \in Cell : d # c => other[d] = link[d]
    PROVE  /\ Reached(first, other) = Reached(first, link)
           /\ Chain(first, link) => Chain(first, other)
<1> DEFINE R == Reached(first, link)
           Q == Reached(first, other)
<1>1. R \subseteq Cell /\ first \in R \cup {None}
      /\ \A d \in R : link[d] \in R \cup {None}
  BY ReachedClosed
<1>2. Q \subseteq Cell /\ first \in Q \cup {None}
      /\ \A d \in Q : other[d] \in Q \cup {None}
  BY ReachedClosed
<1>3. \A d \in R : other[d] = link[d]
  BY <1>1
<1>4. Q \subseteq R
  <2>1. \A d \in R : other[d] \in R \cup {None}
    BY <1>1, <1>3
  <2> QED  BY <1>1, <2>1, ReachedLeast
<1>5. R \subseteq R \cap Q
  <2> DEFINE S == R \cap Q
  <2>1. \A d \in S : link[d] \in S \cup {None}
    BY <1>1, <1>2, <1>3
  <2>2. S \in SUBSET Cell /\ first \in S \cup {None}
    BY <1>1, <1>2
  <2> HIDE DEF S
  <2>3. R \subseteq S
    BY <2>1, <2>2, ReachedLeast
  <2> QED  BY <2>3 DEF S
<1>6. Q = R
  BY <1>4, <1>5
<1>7. ASSUME Chain(first, link) PROVE Chain(first, other)
  BY <1>3, <1>6, <1>7 DEF Chain
<1> QED  BY <1>6, <1>7

\* SetHead puts a block that links to the first one in front.
LEMMA WithOneMore ==
    ASSUME NEW first \in Cell \cup {None}, NEW link \in [Cell -> Cell \cup {None}],
           NEW c \in Cell, None \notin Cell,
           link[c] = first, c \notin Reached(first, link), Chain(first, link)
    PROVE  /\ Reached(c, link) = Reached(first, link) \cup {c}
           /\ Chain(c, link)
<1> DEFINE R == Reached(first, link)
           Q == Reached(c, link)
<1>1. R \subseteq Cell /\ first \in R \cup {None}
      /\ \A d \in R : link[d] \in R \cup {None}
  BY ReachedClosed
<1>2. Q \subseteq Cell /\ c \in Q /\ \A d \in Q : link[d] \in Q \cup {None}
  BY ReachedClosed
<1>3. Q \subseteq R \cup {c}
  <2> DEFINE S == R \cup {c}
  <2>1. S \in SUBSET Cell /\ c \in S \cup {None}
    BY <1>1
  <2>2. \A d \in S : link[d] \in S \cup {None}
    BY <1>1
  <2> HIDE DEF S
  <2>3. Q \subseteq S
    BY <2>1, <2>2, ReachedLeast
  <2> QED  BY <2>3 DEF S
<1>4. R \subseteq Q
  <2>1. first \in Q \cup {None}
    BY <1>2
  <2> QED  BY <1>2, <2>1, ReachedLeast
<1>5. Q = R \cup {c}
  BY <1>2, <1>3, <1>4
<1>6. Chain(c, link)
  <2> SUFFICES ASSUME NEW d \in R \cup {c}
               PROVE  /\ link[d] # c
                      /\ \A e \in R \cup {c} :
                            link[d] = link[e] /\ link[d] # None => d = e
    BY <1>5 DEF Chain
  <2>1. link[d] # c
    BY <1>1
  <2>2. \A e \in R : link[e] # first
    BY DEF Chain
  <2>3. \A e \in R \cup {c} : link[d] = link[e] /\ link[d] # None => d = e
    BY <2>2 DEF Chain
  <2> QED  BY <2>1, <2>3
<1> QED  BY <1>5, <1>6

(***************************************************************************)
(* Reference counts.                                                       *)
(***************************************************************************)

LEMMA CountOfOne ==
    ASSUME PoolAssumption, NEW c, NEW t \in HeldBy(c), RefCount(c) <= 1
    PROVE  HeldBy(c) = {t} /\ RefCount(c) = 1
<1>1. IsFiniteSet(HeldBy(c))
  BY FS_Subset DEF PoolAssumption, HeldBy
<1>2. Cardinality({t}) = 1 /\ {t} \subseteq HeldBy(c)
  BY FS_Singleton
<1>3. Cardinality({t}) <= Cardinality(HeldBy(c))
      /\ (Cardinality({t}) = Cardinality(HeldBy(c)) => {t} = HeldBy(c))
  BY <1>1, <1>2, FS_Subset
<1>4. Cardinality(HeldBy(c)) \in Nat
  BY <1>1, FS_CardinalityType
<1> QED  BY <1>2, <1>3, <1>4 DEF RefCount

LEMMA CountOfMore ==
    ASSUME NEW c, NEW t \in HeldBy(c), RefCount(c) # 1
    PROVE  HeldBy(c) # {t}
  BY FS_Singleton DEF RefCount

(***************************************************************************)
(* Counting a list.                                                        *)
(***************************************************************************)

LEMMA PooledType ==
    ASSUME PoolAssumption, PoolTypeOK, NEW b \in Type
    PROVE  /\ Pooled(b) \subseteq Cell
           /\ head[b] \in Pooled(b) \cup {None}
           /\ IsFiniteSet(Pooled(b)) /\ Cardinality(Pooled(b)) \in Nat
<1>1. Pooled(b) \subseteq Cell /\ head[b] \in Pooled(b) \cup {None}
  BY ReachedClosed DEF PoolTypeOK, Pooled
<1> QED  BY <1>1, FS_Subset, FS_CardinalityType DEF PoolAssumption

-----------------------------------------------------------------------------
(***************************************************************************)
(* PoolInv is inductive.                                                   *)
(***************************************************************************)

LEMMA InitEstablishesPoolInv == Init => PoolInv
<1> SUFFICES ASSUME Init
             PROVE  PoolInv
  OBVIOUS
<1> USE PoolAssumption DEF Init
<1>1. \A b \in Type : Pooled(b) = {}
  BY NothingReached DEF Pooled
<1>2. \A b \in Type : Cardinality(Pooled(b)) = 0
  BY <1>1, FS_EmptySet
<1>3. PoolTypeOK
  <2>1. allocated \in [Cell -> BOOLEAN] /\ cleared \in BOOLEAN
    BY Zenon
  <2>2. /\ held \in [Thread -> SUBSET Cell]
        /\ weak \in [Cell -> {"none", "alive", "dead"}]
        /\ destructs \in [Cell -> Nat]
        /\ next \in [Cell -> Cell \cup {None}]
        /\ owner \in [Type -> Thread \cup {None}]
        /\ head \in [Type -> Cell \cup {None}]
    OBVIOUS
  <2>3. count \in [Type -> 0..Limit]
    BY DEF PoolAssumption
  <2>4. pc \in [Thread -> Steps]
        /\ reg \in [Thread -> [bucket : Type, cell : Cell \cup {None}]]
    BY DEF Steps
  <2> QED  BY <2>1, <2>2, <2>3, <2>4 DEF PoolTypeOK
<1>4. \A t \in Thread : pc[t] = "idle" /\ held[t] = {}
  OBVIOUS
<1>5. \A c \in Cell : HeldBy(c) = {}
  BY DEF HeldBy
<1>6. OnlyOwnerInList /\ DestructedIsLeaving
  BY <1>4 DEF OnlyOwnerInList, DestructedIsLeaving, InList
<1>7. HeldIsAllocated /\ NothingLost
  BY <1>5 DEF HeldIsAllocated, NothingLost
<1>8. CarriedIsFree /\ PooledIsFree
  BY <1>1, <1>4 DEF CarriedIsFree, PooledIsFree, Carries
<1>9. ListsAreChains
  BY <1>1 DEF ListsAreChains, Chain, Pooled
<1>10. ReleasesItsOwn /\ AtTheList
  BY <1>4 DEF ReleasesItsOwn, AtTheList
<1>11. CountMatchesList /\ CountOwes
  BY <1>2, <1>4 DEF CountMatchesList, CountOwes, InList
<1>12. ClearedIsQuiet
  BY DEF ClearedIsQuiet
<1> QED  BY <1>3, <1>6, <1>7, <1>8, <1>9, <1>10, <1>11, <1>12 DEF PoolInv

\* The lists stay what they are when nothing is written to them.
LEMMA ListsKept ==
    ASSUME UNCHANGED <<next, head>>
    PROVE  /\ \A b : Pooled(b)' = Pooled(b)
           /\ ListsAreChains => ListsAreChains'
  BY DEF Pooled, ListsAreChains

\* The steps that only move a thread on.

LEMMA LoadKeepsInv ==
    ASSUME PoolInv, NEW t \in Thread, IsPoolOwnerLoad(t)
    PROVE  PoolInv'
<1> USE PoolAssumption DEF PoolInv, IsPoolOwnerLoad, Goto, objects, list
<1>1. (\A b : Pooled(b)' = Pooled(b)) /\ ListsAreChains'
  BY ListsKept
<1>2. PoolTypeOK'
  BY DEF PoolTypeOK, Steps, InList, Bucket, Object
<1>3. OnlyOwnerInList'
  BY DEF OnlyOwnerInList, PoolTypeOK, InList, Bucket
<1>4. DestructedIsLeaving'
  BY DEF DestructedIsLeaving, PoolTypeOK, Object
<1>5. HeldIsAllocated'
  BY DEF HeldIsAllocated, PoolTypeOK, HeldBy
<1>6. CarriedIsFree'
  BY DEF CarriedIsFree, PoolTypeOK, Carries, Object, HeldBy
<1>7. PooledIsFree'
  BY <1>1 DEF PooledIsFree, PoolTypeOK, Carries, Object, HeldBy
<1>8. NothingLost'
  BY <1>1 DEF NothingLost, PoolTypeOK, Carries, Object, HeldBy
<1>9. ReleasesItsOwn'
  BY DEF ReleasesItsOwn, PoolTypeOK, Object, Bucket, HeldBy
<1>10. AtTheList'
  BY DEF AtTheList, PoolTypeOK, Object, Bucket
<1>11. CountMatchesList'
  BY <1>1 DEF CountMatchesList, CountOwes, OnlyOwnerInList, PoolTypeOK,
         InList, Bucket, Owed
<1>12. CountOwes'
  BY <1>1 DEF CountOwes, CountMatchesList, OnlyOwnerInList, PoolTypeOK,
         InList, Bucket, Owed
<1>13. ClearedIsQuiet'
  BY DEF ClearedIsQuiet, PoolTypeOK
<1> QED  BY <1>1, <1>2, <1>3, <1>4, <1>5, <1>6, <1>7, <1>8,
            <1>9, <1>10, <1>11, <1>12, <1>13

LEMMA ExchangeKeepsInv ==
    ASSUME PoolInv, NEW t \in Thread, IsPoolOwnerExchange(t)
    PROVE  PoolInv'
<1> USE PoolAssumption DEF PoolInv, IsPoolOwnerExchange, Goto, objects, list
<1>1. (\A b : Pooled(b)' = Pooled(b)) /\ ListsAreChains'
  BY ListsKept
<1>2. PoolTypeOK'
  BY SMTT(30) DEF PoolTypeOK, Steps, InList, Bucket, Object
<1>3. OnlyOwnerInList'
  BY DEF OnlyOwnerInList, PoolTypeOK, InList, Bucket
<1>4. DestructedIsLeaving'
  BY DEF DestructedIsLeaving, PoolTypeOK, Object
<1>5. HeldIsAllocated'
  BY DEF HeldIsAllocated, PoolTypeOK, HeldBy
<1>6. CarriedIsFree'
  BY DEF CarriedIsFree, PoolTypeOK, Carries, Object, HeldBy
<1>7. PooledIsFree'
  BY <1>1 DEF PooledIsFree, PoolTypeOK, Carries, Object, HeldBy
<1>8. NothingLost'
  BY <1>1 DEF NothingLost, PoolTypeOK, Carries, Object, HeldBy
<1>9. ReleasesItsOwn'
  BY DEF ReleasesItsOwn, PoolTypeOK, Object, Bucket, HeldBy
<1>10. AtTheList'
  BY DEF AtTheList, PoolTypeOK, Object, Bucket
<1>11. CountMatchesList'
  BY <1>1 DEF CountMatchesList, CountOwes, OnlyOwnerInList, PoolTypeOK,
         InList, Bucket, Owed
<1>12. CountOwes'
  BY <1>1 DEF CountOwes, CountMatchesList, OnlyOwnerInList, PoolTypeOK,
         InList, Bucket, Owed
<1>13. ClearedIsQuiet'
  BY DEF ClearedIsQuiet, PoolTypeOK
<1> QED  BY <1>1, <1>2, <1>3, <1>4, <1>5, <1>6, <1>7, <1>8,
            <1>9, <1>10, <1>11, <1>12, <1>13

LEMMA CreateKeepsInv ==
    ASSUME PoolInv, NEW t \in Thread, NEW bucket \in Type, CreatePooledScriptObject(t, bucket)
    PROVE  PoolInv'
<1> USE PoolAssumption DEF PoolInv, CreatePooledScriptObject, Start, objects, list
<1>1. (\A b : Pooled(b)' = Pooled(b)) /\ ListsAreChains'
  BY ListsKept
<1>2. PoolTypeOK'
  BY DEF PoolTypeOK, Steps, InList, Bucket, Object
<1>3. OnlyOwnerInList'
  BY DEF OnlyOwnerInList, PoolTypeOK, InList, Bucket
<1>4. DestructedIsLeaving'
  BY DEF DestructedIsLeaving, PoolTypeOK, Object
<1>5. HeldIsAllocated'
  BY DEF HeldIsAllocated, PoolTypeOK, HeldBy
<1>6. CarriedIsFree'
  BY DEF CarriedIsFree, PoolTypeOK, Carries, Object, HeldBy
<1>7. PooledIsFree'
  BY <1>1 DEF PooledIsFree, PoolTypeOK, Carries, Object, HeldBy
<1>8. NothingLost'
  BY <1>1 DEF NothingLost, PoolTypeOK, Carries, Object, HeldBy
<1>9. ReleasesItsOwn'
  BY DEF ReleasesItsOwn, PoolTypeOK, Object, Bucket, HeldBy
<1>10. AtTheList'
  BY DEF AtTheList, PoolTypeOK, Object, Bucket
<1>11. CountMatchesList'
  BY <1>1 DEF CountMatchesList, CountOwes, OnlyOwnerInList, PoolTypeOK,
         InList, Bucket, Owed
<1>12. CountOwes'
  BY <1>1 DEF CountOwes, CountMatchesList, OnlyOwnerInList, PoolTypeOK,
         InList, Bucket, Owed
<1>13. ClearedIsQuiet'
  BY DEF ClearedIsQuiet, PoolTypeOK
<1> QED  BY <1>1, <1>2, <1>3, <1>4, <1>5, <1>6, <1>7, <1>8,
            <1>9, <1>10, <1>11, <1>12, <1>13

LEMMA ReadHeadKeepsInv ==
    ASSUME PoolInv, NEW t \in Thread, ReadHead(t)
    PROVE  PoolInv'
<1> USE PoolAssumption DEF PoolInv, ReadHead, Start, objects, list
<1>1. (\A b : Pooled(b)' = Pooled(b)) /\ ListsAreChains'
  BY ListsKept
<1>2. PoolTypeOK'
  BY DEF PoolTypeOK, Steps, InList, Bucket, Object
<1>3. OnlyOwnerInList'
  BY DEF OnlyOwnerInList, PoolTypeOK, InList, Bucket
<1>4. DestructedIsLeaving'
  BY DEF DestructedIsLeaving, PoolTypeOK, Object
<1>5. HeldIsAllocated'
  BY DEF HeldIsAllocated, PoolTypeOK, HeldBy
<1>6. CarriedIsFree'
  BY DEF CarriedIsFree, PoolTypeOK, Carries, Object, HeldBy
<1>7. PooledIsFree'
  BY <1>1 DEF PooledIsFree, PoolTypeOK, Carries, Object, HeldBy
<1>8. NothingLost'
  BY <1>1 DEF NothingLost, PoolTypeOK, Carries, Object, HeldBy
<1>9. ReleasesItsOwn'
  BY DEF ReleasesItsOwn, PoolTypeOK, Object, Bucket, HeldBy
<1>10. AtTheList'
  BY DEF AtTheList, PoolTypeOK, Object, Bucket
<1>11. CountMatchesList'
  <2> SUFFICES ASSUME NEW b \in Type,
                      \A u \in Thread : pc'[u] \in InList => Bucket(u)' # b
               PROVE  count'[b] = Cardinality(Pooled(b))
    BY <1>1 DEF CountMatchesList
  <2>1. CASE b = Bucket(t) /\ pc[t] \in InList
    <3>1. Cardinality(Pooled(b)) \in Nat
      BY PooledType
    <3>2. count[b] = Cardinality(Pooled(b)) + Owed(t)
      BY <2>1 DEF CountOwes
    <3> QED  BY <2>1, <3>1, <3>2 DEF Owed, InList, PoolTypeOK, Bucket
  <2>2. CASE ~(b = Bucket(t) /\ pc[t] \in InList)
    <3>1. \A u \in Thread : pc[u] \in InList => Bucket(u) # b
      BY <2>2 DEF PoolTypeOK, Bucket, InList
    <3> QED  BY <3>1, <2>2 DEF CountMatchesList, PoolTypeOK, Bucket, InList
  <2> QED  BY <2>1, <2>2
<1>12. CountOwes'
  BY <1>1 DEF CountOwes, CountMatchesList, OnlyOwnerInList, PoolTypeOK,
         InList, Bucket, Owed
<1>13. ClearedIsQuiet'
  BY DEF ClearedIsQuiet, PoolTypeOK
<1> QED  BY <1>1, <1>2, <1>3, <1>4, <1>5, <1>6, <1>7, <1>8,
            <1>9, <1>10, <1>11, <1>12, <1>13

LEMMA ReleasePooledKeepsInv ==
    ASSUME PoolInv, NEW t \in Thread, NEW c \in Cell, NEW bucket \in Type, 
           ReleasePooledScriptObject(t, c, bucket)
    PROVE  PoolInv'
<1> USE PoolAssumption DEF PoolInv, ReleasePooledScriptObject, Start, objects, list
<1>1. (\A b : Pooled(b)' = Pooled(b)) /\ ListsAreChains'
  BY ListsKept
<1>2. /\ pc'[t] \in {"release", "check"} /\ pc[t] = "idle" /\ c \in held[t]
      /\ Object(t)' = c /\ Bucket(t)' = bucket
      /\ \A u \in Thread \ {t} :
            pc'[u] = pc[u] /\ Object(u)' = Object(u) /\ Bucket(u)' = Bucket(u)
  BY DEF PoolTypeOK, Object, Bucket
<1>3. PoolTypeOK'
  <2>1. pc' \in [Thread -> Steps]
    BY DEF PoolTypeOK, Steps
  <2>2. reg' \in [Thread -> [bucket : Type, cell : Cell \cup {None}]]
    BY DEF PoolTypeOK
  <2> QED  BY <2>1, <2>2 DEF PoolTypeOK
<1>4. OnlyOwnerInList'
  BY DEF OnlyOwnerInList, PoolTypeOK, InList, Bucket
<1>5. DestructedIsLeaving'
  BY DEF DestructedIsLeaving, PoolTypeOK, Object
<1>6. HeldIsAllocated'
  BY DEF HeldIsAllocated, PoolTypeOK, HeldBy
<1>7. CarriedIsFree'
  BY <1>2 DEF CarriedIsFree, Carries, HeldBy
<1>8. PooledIsFree'
  BY <1>1, <1>2 DEF PooledIsFree, Carries, HeldBy
<1>9. NothingLost'
  BY <1>1, SMTT(30) DEF NothingLost, PoolTypeOK, Carries, Object, HeldBy
<1>10. ReleasesItsOwn'
  BY DEF ReleasesItsOwn, PoolTypeOK, Object, Bucket, HeldBy
<1>11. AtTheList'
  BY DEF AtTheList, PoolTypeOK, Object, Bucket
<1>12. CountMatchesList'
  BY <1>1 DEF CountMatchesList, CountOwes, OnlyOwnerInList, PoolTypeOK,
         InList, Bucket, Owed
<1>13. CountOwes'
  BY <1>1 DEF CountOwes, CountMatchesList, OnlyOwnerInList, PoolTypeOK,
         InList, Bucket, Owed
<1>14. ClearedIsQuiet'
  BY DEF ClearedIsQuiet, PoolTypeOK
<1> QED  BY <1>1, <1>3, <1>4, <1>5, <1>6, <1>7, <1>8, <1>9,
            <1>10, <1>11, <1>12, <1>13, <1>14

LEMMA CheckRoomKeepsInv ==
    ASSUME PoolInv, NEW t \in Thread, CheckRoom(t)
    PROVE  PoolInv'
<1> USE PoolAssumption DEF PoolInv, CheckRoom, Goto, objects, list
<1>1. (\A b : Pooled(b)' = Pooled(b)) /\ ListsAreChains'
  BY ListsKept
<1>2. PoolTypeOK'
  BY DEF PoolTypeOK, Steps, InList, Bucket, Object
<1>3. OnlyOwnerInList'
  BY DEF OnlyOwnerInList, PoolTypeOK, InList, Bucket
<1>4. DestructedIsLeaving'
  BY DEF DestructedIsLeaving, PoolTypeOK, Object
<1>5. HeldIsAllocated'
  BY DEF HeldIsAllocated, PoolTypeOK, HeldBy
<1>6. CarriedIsFree'
  BY DEF CarriedIsFree, PoolTypeOK, Carries, Object, HeldBy
<1>7. PooledIsFree'
  BY <1>1 DEF PooledIsFree, PoolTypeOK, Carries, Object, HeldBy
<1>8. NothingLost'
  BY <1>1 DEF NothingLost, PoolTypeOK, Carries, Object, HeldBy
<1>9. ReleasesItsOwn'
  BY DEF ReleasesItsOwn, PoolTypeOK, Object, Bucket, HeldBy
<1>10. AtTheList'
  BY DEF AtTheList, PoolTypeOK, Object, Bucket
<1>11. CountMatchesList'
  <2> SUFFICES ASSUME NEW b \in Type,
                      \A u \in Thread : pc'[u] \in InList => Bucket(u)' # b
               PROVE  count'[b] = Cardinality(Pooled(b))
    BY <1>1 DEF CountMatchesList
  <2>1. CASE b = Bucket(t) /\ pc[t] \in InList
    <3>1. Cardinality(Pooled(b)) \in Nat
      BY PooledType
    <3>2. count[b] = Cardinality(Pooled(b)) + Owed(t)
      BY <2>1 DEF CountOwes
    <3> QED  BY <2>1, <3>1, <3>2 DEF Owed, InList, PoolTypeOK, Bucket
  <2>2. CASE ~(b = Bucket(t) /\ pc[t] \in InList)
    <3>1. \A u \in Thread : pc[u] \in InList => Bucket(u) # b
      BY <2>2 DEF PoolTypeOK, Bucket, InList
    <3> QED  BY <3>1, <2>2 DEF CountMatchesList, PoolTypeOK, Bucket, InList
  <2> QED  BY <2>1, <2>2
<1>12. CountOwes'
  BY <1>1 DEF CountOwes, CountMatchesList, OnlyOwnerInList, PoolTypeOK,
         InList, Bucket, Owed
<1>13. ClearedIsQuiet'
  BY DEF ClearedIsQuiet, PoolTypeOK
<1> QED  BY <1>1, <1>2, <1>3, <1>4, <1>5, <1>6, <1>7, <1>8,
            <1>9, <1>10, <1>11, <1>12, <1>13

-----------------------------------------------------------------------------
\* The counts of the list.

LEMMA DecreaseCountKeepsInv ==
    ASSUME PoolInv, NEW t \in Thread, DecreaseCount(t)
    PROVE  PoolInv'
<1> USE PoolAssumption DEF PoolInv, DecreaseCount, Goto, objects, list
<1>1. (\A b : Pooled(b)' = Pooled(b)) /\ ListsAreChains'
  BY ListsKept
<1>2. PoolTypeOK'
  <2>1. count[Bucket(t)] - 1 \in 0..Limit
    <3>1. Bucket(t) \in Type /\ count[Bucket(t)] \in 0..Limit
      BY DEF PoolTypeOK, Bucket
    <3>2. Cardinality(Pooled(Bucket(t))) \in Nat
      BY <3>1, PooledType
    <3> QED  BY <3>1, <3>2 DEF CountOwes, InList, Owed
  <2> QED  BY <2>1 DEF PoolTypeOK, Steps, InList, Bucket
<1>3. OnlyOwnerInList'
  BY DEF OnlyOwnerInList, PoolTypeOK, InList, Bucket
<1>4. DestructedIsLeaving'
  BY DEF DestructedIsLeaving, PoolTypeOK, Object
<1>5. HeldIsAllocated'
  BY DEF HeldIsAllocated, PoolTypeOK, HeldBy
<1>6. CarriedIsFree'
  BY DEF CarriedIsFree, PoolTypeOK, Carries, Object, HeldBy
<1>7. PooledIsFree'
  BY <1>1 DEF PooledIsFree, PoolTypeOK, Carries, Object, HeldBy
<1>8. NothingLost'
  BY <1>1 DEF NothingLost, PoolTypeOK, Carries, Object, HeldBy
<1>9. ReleasesItsOwn'
  BY DEF ReleasesItsOwn, PoolTypeOK, Object, Bucket, HeldBy
<1>10. AtTheList'
  BY DEF AtTheList, PoolTypeOK, Object, Bucket
<1>11. CountMatchesList'
  <2> SUFFICES ASSUME NEW b \in Type,
                      \A u \in Thread : pc'[u] \in InList => Bucket(u)' # b
               PROVE  count'[b] = Cardinality(Pooled(b))
    BY <1>1 DEF CountMatchesList
  <2>1. CASE b = Bucket(t) /\ pc[t] \in InList
    <3>1. Cardinality(Pooled(b)) \in Nat
      BY PooledType
    <3>2. count[b] = Cardinality(Pooled(b)) + Owed(t)
      BY <2>1 DEF CountOwes
    <3> QED  BY <2>1, <3>1, <3>2 DEF Owed, InList, PoolTypeOK, Bucket
  <2>2. CASE ~(b = Bucket(t) /\ pc[t] \in InList)
    <3>1. \A u \in Thread : pc[u] \in InList => Bucket(u) # b
      BY <2>2 DEF PoolTypeOK, Bucket, InList
    <3> QED  BY <3>1, <2>2 DEF CountMatchesList, PoolTypeOK, Bucket, InList
  <2> QED  BY <2>1, <2>2
<1>12. CountOwes'
  BY <1>1 DEF CountOwes, CountMatchesList, OnlyOwnerInList, PoolTypeOK,
         InList, Bucket, Owed
<1>13. ClearedIsQuiet'
  BY DEF ClearedIsQuiet, PoolTypeOK
<1> QED  BY <1>1, <1>2, <1>3, <1>4, <1>5, <1>6, <1>7, <1>8,
            <1>9, <1>10, <1>11, <1>12, <1>13

LEMMA IncreaseCountKeepsInv ==
    ASSUME PoolInv, NEW t \in Thread, IncreaseCount(t)
    PROVE  PoolInv'
<1> USE PoolAssumption DEF PoolInv, IncreaseCount, Goto, objects, list
<1>1. (\A b : Pooled(b)' = Pooled(b)) /\ ListsAreChains'
  BY ListsKept
<1>2. PoolTypeOK'
  <2>1. count[Bucket(t)] + 1 \in 0..Limit
    <3>1. Bucket(t) \in Type /\ count[Bucket(t)] \in 0..Limit
      BY DEF PoolTypeOK, Bucket
    <3>2. Cardinality(Pooled(Bucket(t))) \in Nat
      BY <3>1, PooledType
    <3> QED  BY <3>1, <3>2 DEF AtTheList, InList, Owed
  <2> QED  BY <2>1 DEF PoolTypeOK, Steps, InList, Bucket
<1>3. OnlyOwnerInList'
  BY DEF OnlyOwnerInList, PoolTypeOK, InList, Bucket
<1>4. DestructedIsLeaving'
  BY DEF DestructedIsLeaving, PoolTypeOK, Object
<1>5. HeldIsAllocated'
  BY DEF HeldIsAllocated, PoolTypeOK, HeldBy
<1>6. CarriedIsFree'
  BY DEF CarriedIsFree, PoolTypeOK, Carries, Object, HeldBy
<1>7. PooledIsFree'
  BY <1>1 DEF PooledIsFree, PoolTypeOK, Carries, Object, HeldBy
<1>8. NothingLost'
  BY <1>1 DEF NothingLost, PoolTypeOK, Carries, Object, HeldBy
<1>9. ReleasesItsOwn'
  BY DEF ReleasesItsOwn, PoolTypeOK, Object, Bucket, HeldBy
<1>10. AtTheList'
  BY DEF AtTheList, OnlyOwnerInList, InList, PoolTypeOK, Object, Bucket
<1>11. CountMatchesList'
  <2> SUFFICES ASSUME NEW b \in Type,
                      \A u \in Thread : pc'[u] \in InList => Bucket(u)' # b
               PROVE  count'[b] = Cardinality(Pooled(b))
    BY <1>1 DEF CountMatchesList
  <2>1. CASE b = Bucket(t) /\ pc[t] \in InList
    <3>1. Cardinality(Pooled(b)) \in Nat
      BY PooledType
    <3>2. count[b] = Cardinality(Pooled(b)) + Owed(t)
      BY <2>1 DEF CountOwes
    <3> QED  BY <2>1, <3>1, <3>2 DEF Owed, InList, PoolTypeOK, Bucket
  <2>2. CASE ~(b = Bucket(t) /\ pc[t] \in InList)
    <3>1. \A u \in Thread : pc[u] \in InList => Bucket(u) # b
      BY <2>2 DEF PoolTypeOK, Bucket, InList
    <3> QED  BY <3>1, <2>2 DEF CountMatchesList, PoolTypeOK, Bucket, InList
  <2> QED  BY <2>1, <2>2
<1>12. CountOwes'
  BY <1>1 DEF CountOwes, CountMatchesList, OnlyOwnerInList, PoolTypeOK,
         InList, Bucket, Owed
<1>13. ClearedIsQuiet'
  BY DEF ClearedIsQuiet, PoolTypeOK
<1> QED  BY <1>1, <1>2, <1>3, <1>4, <1>5, <1>6, <1>7, <1>8,
            <1>9, <1>10, <1>11, <1>12, <1>13

-----------------------------------------------------------------------------
\* The objects.

LEMMA AllocKeepsInv ==
    ASSUME PoolInv, NEW t \in Thread, CallAlloc(t)
    PROVE  PoolInv'
<1> USE PoolAssumption DEF PoolInv, list
<1>1. (\A b : Pooled(b)' = Pooled(b)) /\ ListsAreChains'
  BY ListsKept DEF CallAlloc
<1>2. PICK c \in Cell :
        /\ pc[t] = "alloc" /\ ~allocated[c]
        /\ allocated' = [allocated EXCEPT ![c] = TRUE]
        /\ Start(t, "construct", Bucket(t), c)
        /\ UNCHANGED <<held, objType, weak, destructs, list, owner, cleared>>
  BY Zenon DEF CallAlloc
<1>3. /\ pc'[t] = "construct" /\ Object(t)' = c /\ Bucket(t)' = Bucket(t)
      /\ \A u \in Thread \ {t} :
            pc'[u] = pc[u] /\ Object(u)' = Object(u) /\ Bucket(u)' = Bucket(u)
  BY <1>2 DEF PoolTypeOK, Start, Object, Bucket
<1>4. allocated'[c] = TRUE /\ \A d \in Cell \ {c} : allocated'[d] = allocated[d]
  BY <1>2 DEF PoolTypeOK
<1>5. HeldBy(c) = {} /\ \A b \in Type : c \notin Pooled(b)
  BY <1>2 DEF HeldIsAllocated, PooledIsFree
<1>6. \A d : HeldBy(d)' = HeldBy(d)
  BY <1>2 DEF HeldBy
<1>7. PoolTypeOK'
  <2>1. allocated' \in [Cell -> BOOLEAN]
    BY <1>2, Zenon DEF PoolTypeOK
  <2>2. pc' \in [Thread -> Steps]
        /\ reg' \in [Thread -> [bucket : Type, cell : Cell \cup {None}]]
    BY <1>2 DEF PoolTypeOK, Steps, Bucket, Start
  <2> QED  BY <1>2, <2>1, <2>2 DEF PoolTypeOK
<1>8. OnlyOwnerInList'
  BY <1>2, <1>3 DEF OnlyOwnerInList, InList
<1>9. DestructedIsLeaving'
  BY <1>2, <1>3 DEF DestructedIsLeaving
<1>10. HeldIsAllocated'
  BY <1>2, <1>4, <1>6 DEF HeldIsAllocated
<1>11. CarriedIsFree'
  BY <1>2, <1>3, <1>4, <1>5, <1>6 DEF CarriedIsFree, Carries
<1>12. PooledIsFree'
  BY <1>1, <1>2, <1>3, <1>4, <1>5, <1>6, PooledType DEF PooledIsFree, Carries
<1>13. NothingLost'
  BY <1>1, <1>2, <1>3, <1>4, <1>6 DEF NothingLost, Carries
<1>14. ReleasesItsOwn'
  BY <1>2, <1>3, <1>6 DEF ReleasesItsOwn
<1>15. AtTheList'
  BY <1>2, <1>3 DEF AtTheList
<1>16. CountMatchesList'
  BY <1>1, <1>2, <1>3 DEF CountMatchesList, InList
<1>17. CountOwes'
  BY <1>1, <1>2, <1>3 DEF CountOwes, InList, Owed
<1>18. ClearedIsQuiet'
  BY <1>2, <1>3 DEF ClearedIsQuiet
<1> QED  BY <1>1, <1>7, <1>8, <1>9, <1>10, <1>11, <1>12, <1>13,
            <1>14, <1>15, <1>16, <1>17, <1>18

LEMMA ConstructKeepsInv ==
    ASSUME PoolInv, NEW t \in Thread, Construct(t)
    PROVE  PoolInv'
<1> USE PoolAssumption DEF PoolInv, Construct, Goto, list
<1>1. (\A b : Pooled(b)' = Pooled(b)) /\ ListsAreChains'
  BY ListsKept
<1>2. Object(t) \in Cell /\ HeldBy(Object(t)) = {}
      /\ \A u \in Thread : Object(t) \notin held[u]
  BY DEF CarriedIsFree, Carries, HeldBy
<1>3. \A d : HeldBy(d)' = IF d = Object(t) THEN {t} ELSE HeldBy(d)
  BY <1>2 DEF HeldBy, PoolTypeOK
<1>4. Bucket(t) \in Type
  BY DEF PoolTypeOK, Bucket
<1>5. PoolTypeOK'
  BY <1>2, <1>4 DEF PoolTypeOK, Steps
<1>6. OnlyOwnerInList'
  BY DEF OnlyOwnerInList, PoolTypeOK, InList, Bucket
<1>7. DestructedIsLeaving'
  BY <1>2 DEF DestructedIsLeaving, PoolTypeOK, Object
<1>8. HeldIsAllocated'
  BY <1>2, <1>3 DEF HeldIsAllocated, CarriedIsFree, Carries, PoolTypeOK
<1>9. CarriedIsFree'
  BY <1>3 DEF CarriedIsFree, PoolTypeOK, Carries, Object
<1>10. PooledIsFree'
  BY <1>1, <1>3 DEF PooledIsFree, PoolTypeOK, Carries, Object
<1>11. NothingLost'
  BY <1>1, <1>3 DEF NothingLost, PoolTypeOK, Carries, Object
<1>12. ReleasesItsOwn'
  <2>1. \A u \in Thread \ {t} :
            pc[u] \in {"check", "dec", "release", "r_load", "r_cas", "room", "link", "sethead"}
                => Object(u) # Object(t)
    BY <1>2 DEF ReleasesItsOwn, CarriedIsFree, Carries
  <2>2. \A u \in Thread \ {t} :
            pc'[u] = pc[u] /\ Object(u)' = Object(u) /\ Bucket(u)' = Bucket(u)
            /\ held'[u] = held[u]
    BY DEF PoolTypeOK, Object, Bucket
  <2>3. \A d \in Cell \ {Object(t)} : objType'[d] = objType[d] /\ weak'[d] = weak[d]
    BY DEF PoolTypeOK
  <2>4. \A u \in Thread : pc[u] \in {"check", "dec", "release"} => Object(u) \in Cell
    BY DEF ReleasesItsOwn, PoolTypeOK
  <2>5. \A u \in Thread : pc[u] \in {"r_load", "r_cas", "room", "link", "sethead"}
            => Object(u) \in Cell
    BY DEF CarriedIsFree, Carries
  <2>6. pc'[t] = "idle"
    BY DEF PoolTypeOK
  <2> SUFFICES ASSUME NEW u \in Thread \ {t}
               PROVE  /\ pc'[u] \in {"check", "dec", "release"} => Object(u)' \in held'[u]
                      /\ pc'[u] \in {"check", "dec", "r_load", "r_cas", "room", "link", "sethead"}
                            => objType[Object(u)]' = Bucket(u)'
                      /\ pc'[u] = "dec"
                            => weak[Object(u)]' = "none" /\ HeldBy(Object(u))' = {u}
    BY <2>6 DEF ReleasesItsOwn
  <2> QED  BY <1>3, <2>1, <2>2, <2>3, <2>4, <2>5 DEF ReleasesItsOwn
<1>13. AtTheList'
  BY DEF AtTheList, PoolTypeOK, Object, Bucket
<1>14. CountMatchesList'
  BY <1>1 DEF CountMatchesList, CountOwes, OnlyOwnerInList, PoolTypeOK,
         InList, Bucket, Owed
<1>15. CountOwes'
  BY <1>1 DEF CountOwes, CountMatchesList, OnlyOwnerInList, PoolTypeOK,
         InList, Bucket, Owed
<1>16. ClearedIsQuiet'
  BY DEF ClearedIsQuiet, PoolTypeOK
<1> QED  BY <1>1, <1>5, <1>6, <1>7, <1>8, <1>9, <1>10, <1>11,
            <1>12, <1>13, <1>14, <1>15, <1>16

LEMMA ReleaseScalarKeepsInv ==
    ASSUME PoolInv, NEW t \in Thread, ReleaseScalarOnly(t)
    PROVE  PoolInv'
<1> USE PoolAssumption DEF PoolInv, list
<1>1. (\A b : Pooled(b)' = Pooled(b)) /\ ListsAreChains'
  BY ListsKept DEF ReleaseScalarOnly
<1>2. /\ pc[t] = "check" /\ Object(t) \in Cell /\ t \in HeldBy(Object(t))
      /\ destructs[Object(t)] = 0
      /\ UNCHANGED <<held, objType, weak, allocated, list, owner, cleared, reg>>
  BY DEF ReleaseScalarOnly, Goto, ReleasesItsOwn, PoolTypeOK, HeldBy, DestructedIsLeaving
<1>3. \/ pc' = [pc EXCEPT ![t] = "release"] /\ destructs' = destructs
      \/ /\ HeldBy(Object(t)) = {t} /\ weak[Object(t)] = "none"
         /\ pc' = [pc EXCEPT ![t] = "dec"]
         /\ destructs' = [destructs EXCEPT ![Object(t)] = @ + 1]
  BY <1>2, CountOfOne DEF ReleaseScalarOnly, Goto
<1>4. \A d : HeldBy(d)' = HeldBy(d)
  BY <1>2 DEF HeldBy
<1>5. PoolTypeOK'
  BY <1>2, <1>3 DEF PoolTypeOK, Steps
<1>6. OnlyOwnerInList'
  BY <1>2, <1>3 DEF OnlyOwnerInList, PoolTypeOK, InList, Bucket
<1>7. DestructedIsLeaving'
  BY <1>2, <1>3 DEF DestructedIsLeaving, HeldBy, PoolTypeOK, Object
<1>8. HeldIsAllocated'
  BY <1>2, <1>4 DEF HeldIsAllocated
<1>9. CarriedIsFree'
  <2>1. \A u \in Thread : Carries(u)' <=> Carries(u)
    BY <1>2, <1>3 DEF Carries, PoolTypeOK
  <2>2. \A u : Object(u)' = Object(u)
    BY <1>2 DEF Object
  <2> QED  BY <1>2, <1>4, <2>1, <2>2 DEF CarriedIsFree
<1>10. PooledIsFree'
  BY <1>1, <1>2, <1>3, <1>4 DEF PooledIsFree, PoolTypeOK, Carries, Object
<1>11. NothingLost'
  BY <1>1, <1>2, <1>3, <1>4 DEF NothingLost, PoolTypeOK, Carries, Object
<1>12. ReleasesItsOwn'
  BY <1>2, <1>3, <1>4, ZenonT(60) DEF ReleasesItsOwn, PoolTypeOK, Object, Bucket
<1>13. AtTheList'
  BY <1>2, <1>3 DEF AtTheList, PoolTypeOK, Object, Bucket
<1>14. CountMatchesList'
  BY <1>1, <1>2, <1>3 DEF CountMatchesList, PoolTypeOK, InList, Bucket
<1>15. CountOwes'
  BY <1>1, <1>2, <1>3 DEF CountOwes, PoolTypeOK, InList, Bucket, Owed
<1>16. ClearedIsQuiet'
  BY <1>2, <1>3 DEF ClearedIsQuiet, PoolTypeOK
<1> QED  BY <1>1, <1>5, <1>6, <1>7, <1>8, <1>9, <1>10, <1>11,
            <1>12, <1>13, <1>14, <1>15, <1>16

LEMMA DecreaseRefKeepsInv ==
    ASSUME PoolInv, NEW t \in Thread, DecreaseRef(t)
    PROVE  PoolInv'
<1> USE PoolAssumption DEF PoolInv, list
<1>1. (\A b : Pooled(b)' = Pooled(b)) /\ ListsAreChains'
  BY ListsKept DEF DecreaseRef
<1>2. /\ pc[t] = "dec" /\ Object(t) \in Cell /\ HeldBy(Object(t)) = {t}
      /\ weak[Object(t)] = "none" /\ held' = [held EXCEPT ![t] = @ \ {Object(t)}]
      /\ UNCHANGED <<objType, weak, destructs, allocated, list, owner, cleared, reg>>
  BY DEF DecreaseRef, Goto, ReleasesItsOwn, PoolTypeOK
<1>3. pc' = [pc EXCEPT ![t] = "r_load"]
  BY <1>2, FS_Singleton DEF DecreaseRef, Goto, RefCount
<1>4. \A d : HeldBy(d)' = IF d = Object(t) THEN {} ELSE HeldBy(d)
  BY <1>2 DEF HeldBy, PoolTypeOK
<1>5. allocated[Object(t)] /\ \A b \in Type : Object(t) \notin Pooled(b)
  BY <1>2 DEF HeldIsAllocated, PooledIsFree
<1>6. PoolTypeOK'
  BY <1>2, <1>3 DEF PoolTypeOK, Steps
<1>7. OnlyOwnerInList'
  BY <1>2, <1>3 DEF OnlyOwnerInList, PoolTypeOK, InList, Bucket
<1>8. DestructedIsLeaving'
  BY <1>2, <1>3 DEF DestructedIsLeaving, PoolTypeOK, Object
<1>9. HeldIsAllocated'
  BY <1>2, <1>4 DEF HeldIsAllocated
<1>10. CarriedIsFree'
  <2>1. \A u \in Thread : Carries(u)' <=> Carries(u) \/ u = t
    BY <1>2, <1>3 DEF Carries, PoolTypeOK
  <2>2. \A u : Object(u)' = Object(u)
    BY <1>2 DEF Object
  <2>3. \A u \in Thread : Carries(u) => Object(u) # Object(t)
    BY <1>2 DEF CarriedIsFree
  <2> QED  BY <1>2, <1>4, <1>5, <2>1, <2>2, <2>3 DEF CarriedIsFree
<1>11. PooledIsFree'
  BY <1>1, <1>2, <1>3, <1>4, <1>5 DEF PooledIsFree, PoolTypeOK, Carries, Object
<1>12. NothingLost'
  BY <1>1, <1>2, <1>3, <1>4 DEF NothingLost, PoolTypeOK, Carries, Object
<1>13. ReleasesItsOwn'
  <2>1. \A u \in Thread \ {t} :
            pc[u] \in {"check", "dec", "release"} => Object(u) # Object(t) \/ pc[u] # "dec"
    BY <1>2 DEF ReleasesItsOwn
  <2> QED  BY <1>2, <1>3, <1>4, <2>1 DEF ReleasesItsOwn, PoolTypeOK, Object, Bucket
<1>14. AtTheList'
  BY <1>2, <1>3 DEF AtTheList, PoolTypeOK, Object, Bucket
<1>15. CountMatchesList'
  BY <1>1, <1>2, <1>3 DEF CountMatchesList, PoolTypeOK, InList, Bucket
<1>16. CountOwes'
  BY <1>1, <1>2, <1>3 DEF CountOwes, PoolTypeOK, InList, Bucket, Owed
<1>17. ClearedIsQuiet'
  BY <1>2, <1>3 DEF ClearedIsQuiet, PoolTypeOK
<1> QED  BY <1>1, <1>6, <1>7, <1>8, <1>9, <1>10, <1>11, <1>12,
            <1>13, <1>14, <1>15, <1>16, <1>17

LEMMA FreeKeepsInv ==
    ASSUME PoolInv, NEW t \in Thread, CallFree(t)
    PROVE  PoolInv'
<1> USE PoolAssumption DEF PoolInv, CallFree, Goto, list
<1>1. (\A b : Pooled(b)' = Pooled(b)) /\ ListsAreChains'
  BY ListsKept
<1>2. PoolTypeOK'
  BY DEF PoolTypeOK, Steps, InList, Bucket, Object
<1>3. OnlyOwnerInList'
  BY DEF OnlyOwnerInList, PoolTypeOK, InList, Bucket
<1>4. DestructedIsLeaving'
  BY DEF DestructedIsLeaving, PoolTypeOK, Object
<1>5. HeldIsAllocated'
  <2>1. HeldBy(Object(t)) = {} /\ \A d : HeldBy(d)' = HeldBy(d)
    BY DEF CarriedIsFree, Carries, HeldBy
  <2> QED  BY <2>1 DEF HeldIsAllocated, PoolTypeOK
<1>6. CarriedIsFree'
  BY DEF CarriedIsFree, PoolTypeOK, Carries, Object, HeldBy
<1>7. PooledIsFree'
  BY <1>1 DEF PooledIsFree, PoolTypeOK, Carries, Object, HeldBy
<1>8. NothingLost'
  BY <1>1 DEF NothingLost, PoolTypeOK, Carries, Object, HeldBy
<1>9. ReleasesItsOwn'
  BY DEF ReleasesItsOwn, PoolTypeOK, Object, Bucket, HeldBy
<1>10. AtTheList'
  BY DEF AtTheList, PoolTypeOK, Object, Bucket
<1>11. CountMatchesList'
  BY <1>1 DEF CountMatchesList, CountOwes, OnlyOwnerInList, PoolTypeOK,
         InList, Bucket, Owed
<1>12. CountOwes'
  BY <1>1 DEF CountOwes, CountMatchesList, OnlyOwnerInList, PoolTypeOK,
         InList, Bucket, Owed
<1>13. ClearedIsQuiet'
  BY DEF ClearedIsQuiet, PoolTypeOK
<1> QED  BY <1>1, <1>2, <1>3, <1>4, <1>5, <1>6, <1>7, <1>8,
            <1>9, <1>10, <1>11, <1>12, <1>13

LEMMA ScriptReleaseKeepsInv ==
    ASSUME PoolInv, NEW t \in Thread, ScriptObjectRelease(t)
    PROVE  PoolInv'
<1> USE PoolAssumption DEF PoolInv, list
<1>1. (\A b : Pooled(b)' = Pooled(b)) /\ ListsAreChains'
  BY ListsKept DEF ScriptObjectRelease
<1>2. /\ pc[t] = "release" /\ Object(t) \in Cell /\ t \in HeldBy(Object(t))
      /\ held' = [held EXCEPT ![t] = @ \ {Object(t)}]
      /\ pc' = [pc EXCEPT ![t] = "idle"]
      /\ UNCHANGED <<objType, list, owner, cleared, reg>>
  BY DEF ScriptObjectRelease, Goto, ReleasesItsOwn, PoolTypeOK, HeldBy
<1>3. \A d : HeldBy(d)' = IF d = Object(t) THEN HeldBy(d) \ {t} ELSE HeldBy(d)
  BY <1>2 DEF HeldBy, PoolTypeOK
<1>4. \/ HeldBy(Object(t)) # {t} /\ UNCHANGED <<weak, destructs, allocated>>
      \/ /\ HeldBy(Object(t)) = {t} /\ weak'[Object(t)] \in {"none", "dead"}
         /\ weak' \in [Cell -> {"none", "alive", "dead"}]
         /\ destructs' \in [Cell -> Nat]
         /\ \A d \in Cell \ {Object(t)} :
                weak'[d] = weak[d] /\ destructs'[d] = destructs[d]
         /\ allocated' = [allocated EXCEPT ![Object(t)] = FALSE]
  <2>1. CASE RefCount(Object(t)) > 1
    <3>1. HeldBy(Object(t)) # {t}
      BY <2>1, FS_Singleton DEF RefCount
    <3>2. UNCHANGED <<weak, destructs, allocated>>
      BY <2>1 DEF ScriptObjectRelease
    <3> QED  BY <3>1, <3>2
  <2>2. CASE ~(RefCount(Object(t)) > 1)
    <3>1. RefCount(Object(t)) \in Nat
      BY FS_Subset, FS_CardinalityType DEF PoolAssumption, RefCount, HeldBy
    <3>2. HeldBy(Object(t)) = {t}
      BY <1>2, <2>2, <3>1, CountOfOne
    <3>3. allocated' = [allocated EXCEPT ![Object(t)] = FALSE]
      BY <2>2, Zenon DEF ScriptObjectRelease
    <3>4. /\ weak' \in [Cell -> {"none", "alive", "dead"}]
          /\ weak'[Object(t)] \in {"none", "dead"}
          /\ \A d \in Cell \ {Object(t)} : weak'[d] = weak[d]
      BY <1>2, <2>2 DEF ScriptObjectRelease, PoolTypeOK
    <3>5. /\ destructs' \in [Cell -> Nat]
          /\ \A d \in Cell \ {Object(t)} : destructs'[d] = destructs[d]
      BY <1>2, <2>2 DEF ScriptObjectRelease, PoolTypeOK
    <3> QED  BY <3>2, <3>3, <3>4, <3>5
  <2> QED  BY <2>1, <2>2
<1>5. /\ allocated[Object(t)] /\ \A b \in Type : Object(t) \notin Pooled(b)
      /\ \A u \in Thread : Carries(u) => Object(u) # Object(t)
      /\ \A u \in Thread \ {t} : pc[u] = "dec" => Object(u) # Object(t)
  BY <1>2 DEF HeldIsAllocated, PooledIsFree, CarriedIsFree, ReleasesItsOwn
<1>6. PoolTypeOK'
  <2>1. allocated' \in [Cell -> BOOLEAN]
    BY <1>4, Zenon DEF PoolTypeOK
  <2>2. pc' \in [Thread -> Steps] /\ held' \in [Thread -> SUBSET Cell]
    BY <1>2 DEF PoolTypeOK, Steps
  <2>3. weak' \in [Cell -> {"none", "alive", "dead"}] /\ destructs' \in [Cell -> Nat]
    BY <1>4 DEF PoolTypeOK
  <2> QED  BY <1>2, <2>1, <2>2, <2>3 DEF PoolTypeOK
<1>7. OnlyOwnerInList'
  BY <1>2 DEF OnlyOwnerInList, PoolTypeOK, InList, Bucket
<1>8. DestructedIsLeaving'
  <2> SUFFICES ASSUME NEW u \in Thread, NEW d \in held'[u], destructs'[d] > 0
               PROVE  pc'[u] = "dec" /\ Object(u) = d
    BY <1>2 DEF DestructedIsLeaving, Object
  <2>1. d \in Cell /\ d \in held[u]
    BY <1>2 DEF PoolTypeOK
  <2>2. u \in HeldBy(d)'
    BY DEF HeldBy
  <2>3. destructs'[d] = destructs[d]
    BY <1>3, <1>4, <2>1, <2>2
  <2>4. pc[u] = "dec" /\ Object(u) = d
    BY <2>1, <2>3 DEF DestructedIsLeaving
  <2> QED  BY <1>2, <2>4 DEF PoolTypeOK
<1>9. HeldIsAllocated'
  <2> SUFFICES ASSUME NEW d \in Cell
               PROVE  /\ HeldBy(d)' # {} => allocated'[d]
                      /\ weak'[d] = "alive" => HeldBy(d)' # {}
    BY DEF HeldIsAllocated
  <2>1. CASE d # Object(t)
    BY <1>3, <1>4, <2>1 DEF HeldIsAllocated, PoolTypeOK
  <2>2. CASE d = Object(t)
    BY <1>2, <1>3, <1>4, <2>2 DEF HeldIsAllocated, PoolTypeOK
  <2> QED  BY <2>1, <2>2
<1>10. CarriedIsFree'
  <2>1. \A u \in Thread : Carries(u)' <=> Carries(u)
    BY <1>2 DEF Carries, PoolTypeOK
  <2>2. \A d \in Cell \ {Object(t)} : allocated'[d] = allocated[d]
    BY <1>4 DEF PoolTypeOK
  <2>3. \A u : Object(u)' = Object(u)
    BY <1>2 DEF Object
  <2> QED  BY <1>3, <1>5, <2>1, <2>2, <2>3 DEF CarriedIsFree
<1>11. PooledIsFree'
  <2>1. \A u \in Thread : Carries(u)' <=> Carries(u)
    BY <1>2 DEF Carries, PoolTypeOK
  <2>2. \A d \in Cell \ {Object(t)} : allocated'[d] = allocated[d]
    BY <1>4 DEF PoolTypeOK
  <2>3. \A u : Object(u)' = Object(u)
    BY <1>2 DEF Object
  <2>4. \A b \in Type : Pooled(b) \subseteq Cell
    BY PooledType
  <2> QED  BY <1>1, <1>2, <1>3, <1>5, <2>1, <2>2, <2>3, <2>4 DEF PooledIsFree
<1>12. NothingLost'
  <2>1. \A u \in Thread : Carries(u)' <=> Carries(u)
    BY <1>2 DEF Carries, PoolTypeOK
  <2>2. \A d \in Cell \ {Object(t)} : allocated'[d] = allocated[d]
    BY <1>4 DEF PoolTypeOK
  <2>3. \A u : Object(u)' = Object(u)
    BY <1>2 DEF Object
  <2>4. allocated'[Object(t)] => HeldBy(Object(t))' # {}
    <3>1. CASE HeldBy(Object(t)) = {t}
      BY <1>2, <1>4, <3>1 DEF PoolTypeOK
    <3>2. CASE HeldBy(Object(t)) # {t}
      <4>1. PICK u \in HeldBy(Object(t)) : u # t
        BY <1>2, <3>2
      <4> QED  BY <1>3, <2>3, <4>1
    <3> QED  BY <3>1, <3>2
  <2> QED  BY <1>1, <1>3, <2>1, <2>2, <2>3, <2>4 DEF NothingLost
<1>13. ReleasesItsOwn'
  <2>1. \A u \in Thread \ {t} : pc[u] = "dec" => weak'[Object(u)] = weak[Object(u)]
    BY <1>4, <1>5 DEF ReleasesItsOwn, PoolTypeOK
  <2> QED  BY <1>2, <1>3, <1>5, <2>1 DEF ReleasesItsOwn, PoolTypeOK, Object, Bucket
<1>14. AtTheList'
  BY <1>2 DEF AtTheList, PoolTypeOK, Object, Bucket
<1>15. CountMatchesList'
  BY <1>1, <1>2 DEF CountMatchesList, PoolTypeOK, InList, Bucket
<1>16. CountOwes'
  BY <1>1, <1>2 DEF CountOwes, PoolTypeOK, InList, Bucket, Owed
<1>17. ClearedIsQuiet'
  BY <1>2 DEF ClearedIsQuiet, PoolTypeOK
<1> QED  BY <1>1, <1>6, <1>7, <1>8, <1>9, <1>10, <1>11, <1>12,
            <1>13, <1>14, <1>15, <1>16, <1>17

LEMMA ShareKeepsInv ==
    ASSUME PoolInv, NEW t \in Thread, NEW u \in Thread, NEW c \in Cell, Share(t, u, c)
    PROVE  PoolInv'
<1> USE PoolAssumption DEF PoolInv, Share, list
<1>1. (\A b : Pooled(b)' = Pooled(b)) /\ ListsAreChains'
  BY ListsKept
<1>2. PoolTypeOK'
  BY DEF PoolTypeOK, Steps, InList, Bucket, Object
<1>3. OnlyOwnerInList'
  BY DEF OnlyOwnerInList, PoolTypeOK, InList, Bucket
<1>4. DestructedIsLeaving'
  BY DEF DestructedIsLeaving, PoolTypeOK, Object
<1>5. HeldIsAllocated'
  BY DEF HeldIsAllocated, PoolTypeOK, HeldBy
<1>6. CarriedIsFree'
  BY DEF CarriedIsFree, PoolTypeOK, Carries, Object, HeldBy
<1>7. PooledIsFree'
  BY <1>1 DEF PooledIsFree, PoolTypeOK, Carries, Object, HeldBy
<1>8. NothingLost'
  BY <1>1 DEF NothingLost, PoolTypeOK, Carries, Object, HeldBy
<1>9. ReleasesItsOwn'
  BY DEF ReleasesItsOwn, PoolTypeOK, Object, Bucket, HeldBy
<1>10. AtTheList'
  BY DEF AtTheList, PoolTypeOK, Object, Bucket
<1>11. CountMatchesList'
  BY <1>1 DEF CountMatchesList, CountOwes, OnlyOwnerInList, PoolTypeOK,
         InList, Bucket, Owed
<1>12. CountOwes'
  BY <1>1 DEF CountOwes, CountMatchesList, OnlyOwnerInList, PoolTypeOK,
         InList, Bucket, Owed
<1>13. ClearedIsQuiet'
  BY DEF ClearedIsQuiet, PoolTypeOK
<1> QED  BY <1>1, <1>2, <1>3, <1>4, <1>5, <1>6, <1>7, <1>8,
            <1>9, <1>10, <1>11, <1>12, <1>13

LEMMA WatchKeepsInv ==
    ASSUME PoolInv, NEW t \in Thread, NEW c \in Cell, Watch(t, c)
    PROVE  PoolInv'
<1> USE PoolAssumption DEF PoolInv, Watch, list
<1>1. (\A b : Pooled(b)' = Pooled(b)) /\ ListsAreChains'
  BY ListsKept
<1>2. PoolTypeOK'
  BY DEF PoolTypeOK, Steps, InList, Bucket, Object
<1>3. OnlyOwnerInList'
  BY DEF OnlyOwnerInList, PoolTypeOK, InList, Bucket
<1>4. DestructedIsLeaving'
  BY DEF DestructedIsLeaving, PoolTypeOK, Object
<1>5. HeldIsAllocated'
  BY DEF HeldIsAllocated, PoolTypeOK, HeldBy
<1>6. CarriedIsFree'
  BY DEF CarriedIsFree, PoolTypeOK, Carries, Object, HeldBy
<1>7. PooledIsFree'
  BY <1>1 DEF PooledIsFree, PoolTypeOK, Carries, Object, HeldBy
<1>8. NothingLost'
  BY <1>1 DEF NothingLost, PoolTypeOK, Carries, Object, HeldBy
<1>9. ReleasesItsOwn'
  BY DEF ReleasesItsOwn, PoolTypeOK, Object, Bucket, HeldBy
<1>10. AtTheList'
  BY DEF AtTheList, PoolTypeOK, Object, Bucket
<1>11. CountMatchesList'
  BY <1>1 DEF CountMatchesList, CountOwes, OnlyOwnerInList, PoolTypeOK,
         InList, Bucket, Owed
<1>12. CountOwes'
  BY <1>1 DEF CountOwes, CountMatchesList, OnlyOwnerInList, PoolTypeOK,
         InList, Bucket, Owed
<1>13. ClearedIsQuiet'
  BY DEF ClearedIsQuiet, PoolTypeOK
<1> QED  BY <1>1, <1>2, <1>3, <1>4, <1>5, <1>6, <1>7, <1>8,
            <1>9, <1>10, <1>11, <1>12, <1>13

LEMMA UpgradeKeepsInv ==
    ASSUME PoolInv, NEW t \in Thread, NEW c \in Cell, Upgrade(t, c)
    PROVE  PoolInv'
<1> USE PoolAssumption DEF PoolInv, Upgrade, list
<1>1. (\A b : Pooled(b)' = Pooled(b)) /\ ListsAreChains'
  BY ListsKept
<1>2. HeldBy(c) # {} /\ \A u \in Thread : c \in held[u] => destructs[c] = 0
  BY DEF HeldIsAllocated, DestructedIsLeaving, ReleasesItsOwn, PoolTypeOK
<1>3. \A d : HeldBy(d)' = IF d = c THEN HeldBy(d) \cup {t} ELSE HeldBy(d)
  BY DEF HeldBy, PoolTypeOK
<1>4. \E u \in Thread : c \in held[u]
  BY <1>2 DEF HeldBy
<1>5. PoolTypeOK'
  BY DEF PoolTypeOK, Steps, InList, Bucket, Object
<1>6. OnlyOwnerInList'
  BY DEF OnlyOwnerInList, PoolTypeOK, InList, Bucket
<1>7. DestructedIsLeaving'
  BY <1>2, <1>4 DEF DestructedIsLeaving, PoolTypeOK, Object
<1>8. HeldIsAllocated'
  BY <1>2, <1>3 DEF HeldIsAllocated, PoolTypeOK
<1>9. CarriedIsFree'
  BY <1>2, <1>3 DEF CarriedIsFree, Carries, Object
<1>10. PooledIsFree'
  BY <1>1, <1>2, <1>3 DEF PooledIsFree, Carries, Object
<1>11. NothingLost'
  BY <1>1, <1>3 DEF NothingLost, Carries, Object
<1>12. ReleasesItsOwn'
  BY <1>2, <1>3 DEF ReleasesItsOwn, PoolTypeOK, Object, Bucket
<1>13. AtTheList'
  BY DEF AtTheList, PoolTypeOK, Object, Bucket
<1>14. CountMatchesList'
  BY <1>1 DEF CountMatchesList, CountOwes, OnlyOwnerInList, PoolTypeOK,
         InList, Bucket, Owed
<1>15. CountOwes'
  BY <1>1 DEF CountOwes, CountMatchesList, OnlyOwnerInList, PoolTypeOK,
         InList, Bucket, Owed
<1>16. ClearedIsQuiet'
  BY DEF ClearedIsQuiet, PoolTypeOK
<1> QED  BY <1>1, <1>5, <1>6, <1>7, <1>8, <1>9, <1>10, <1>11,
            <1>12, <1>13, <1>14, <1>15, <1>16

-----------------------------------------------------------------------------
\* The list.

\* What a thread that is at a list knows about the other threads and lists.
LEMMA AloneAtTheList ==
    ASSUME PoolAssumption, PoolInv, NEW t \in Thread, pc[t] \in InList
    PROVE  \A u \in Thread \ {t} : pc[u] \in InList => Bucket(u) # Bucket(t)
  BY DEF PoolInv, OnlyOwnerInList

LEMMA UnlinkKeepsInv ==
    ASSUME PoolInv, NEW t \in Thread, Unlink(t)
    PROVE  PoolInv'
<1> USE PoolAssumption DEF PoolInv, objects
<1>0. Object(t) \in Cell /\ Bucket(t) \in Type
  BY DEF Unlink, AtTheList, PoolTypeOK, Object, Bucket
<1> PICK c \in Cell, b \in Type : c = Object(t) /\ b = Bucket(t)
  BY <1>0
<1>1. /\ pc[t] = "unlink" /\ c = head[b] /\ c \in Cell /\ b \in Type
      /\ head' = [head EXCEPT ![b] = next[c]]
      /\ pc' = [pc EXCEPT ![t] = "uncount"]
      /\ UNCHANGED <<objects, next, count, owner, cleared, reg>>
  BY DEF Unlink, Goto, AtTheList, PoolTypeOK, Object, Bucket
<1>2. \A d : HeldBy(d)' = HeldBy(d)
  BY <1>1 DEF HeldBy
<1>3. \A u : Object(u)' = Object(u) /\ Bucket(u)' = Bucket(u)
  BY <1>1 DEF Object, Bucket
<1>4. \A u \in Thread : Carries(u)' <=> Carries(u) \/ u = t
  BY <1>1 DEF Carries, PoolTypeOK
<1>5. head'[b] = next[c] /\ \A e \in Type \ {b} : head'[e] = head[e]
  BY <1>1 DEF PoolTypeOK
<1>6. Pooled(b)' = Pooled(b) \ {c} /\ Chain(head[b], next)'
  <2>1. Chain(c, next) /\ next \in [Cell -> Cell \cup {None}]
    BY <1>1 DEF ListsAreChains, PoolTypeOK
  <2>2. Reached(next[c], next) = Reached(c, next) \ {c} /\ Chain(next[c], next)
    BY <1>1, <2>1, WithoutFirst DEF PoolAssumption
  <2> QED  BY <1>1, <1>5, <2>2 DEF Pooled
<1>7. \A e \in Type \ {b} : Pooled(e)' = Pooled(e) /\ Chain(head[e], next)'
  BY <1>1, <1>5 DEF Pooled, ListsAreChains
<1>8. c \in Pooled(b) /\ \A e \in Type : Pooled(e) \subseteq Cell
  BY <1>1, PooledType DEF PoolAssumption
<1>9. /\ Cardinality(Pooled(b)) \in Nat
      /\ Cardinality(Pooled(b)') = Cardinality(Pooled(b)) - 1
  <2>1. IsFiniteSet(Pooled(b)) /\ Cardinality(Pooled(b)) \in Nat
    BY PooledType
  <2>2. Cardinality(Pooled(b) \ {c}) = Cardinality(Pooled(b)) - 1
    BY <1>8, <2>1, FS_RemoveElement
  <2> QED  BY <1>6, <2>1, <2>2
<1>10. \A u \in Thread : pc'[u] \in InList <=> pc[u] \in InList
  BY <1>1 DEF PoolTypeOK, InList
<1>11. PoolTypeOK'
  <2>1. head' \in [Type -> Cell \cup {None}] /\ pc' \in [Thread -> Steps]
    BY <1>1 DEF PoolTypeOK, Steps, InList
  <2> QED  BY <1>1, <2>1 DEF PoolTypeOK
<1>12. OnlyOwnerInList'
  BY <1>1, <1>3, <1>10 DEF OnlyOwnerInList
<1>13. DestructedIsLeaving'
  BY <1>1, <1>3 DEF DestructedIsLeaving, PoolTypeOK
<1>14. HeldIsAllocated'
  BY <1>1, <1>2 DEF HeldIsAllocated
<1>15. CarriedIsFree'
  <2>2. /\ allocated[c] /\ HeldBy(c) = {}
        /\ \A u \in Thread : Carries(u) => Object(u) # c
    BY <1>1, <1>8 DEF PooledIsFree
  <2> QED  BY <1>1, <1>2, <1>3, <1>4, <2>2 DEF CarriedIsFree
<1>16. PooledIsFree'
  <2>2. \A e \in Type : Pooled(e)' \subseteq Pooled(e) /\ c \notin Pooled(e)'
    BY <1>1, <1>6, <1>7, <1>8 DEF PooledIsFree
  <2>3. ASSUME NEW e \in Type, NEW d \in Pooled(e)'
        PROVE  /\ allocated'[d] /\ objType'[d] = e /\ HeldBy(d)' = {}
               /\ \A u \in Thread : Carries(u)' => Object(u)' # d
               /\ \A f \in Type : d \in Pooled(f)' => f = e
    <3>1. d \in Pooled(e) /\ d # c
      BY <2>2
    <3> QED  BY <1>1, <1>2, <1>3, <1>4, <2>2, <3>1 DEF PooledIsFree
  <2> QED  BY <2>3 DEF PooledIsFree
<1>17. NothingLost'
  <2> SUFFICES ASSUME NEW d \in Cell, allocated[d]
               PROVE  \/ HeldBy(d)' # {}
                      \/ \E u \in Thread : Carries(u)' /\ Object(u)' = d
                      \/ \E e \in Type : d \in Pooled(e)'
    BY <1>1 DEF NothingLost
  <2>2. CASE d = c
    BY <1>3, <1>4, <2>2
  <2>3. CASE d # c
    BY <1>1, <1>2, <1>3, <1>4, <1>6, <1>7, <2>3 DEF NothingLost
  <2> QED  BY <2>2, <2>3
<1>18. ListsAreChains'
  BY <1>1, <1>6, <1>7 DEF ListsAreChains
<1>19. ReleasesItsOwn'
  BY <1>1, <1>2, <1>3 DEF ReleasesItsOwn, PoolTypeOK
<1>20. AtTheList'
  <2>1. \A u \in Thread \ {t} : pc[u] \in InList => Bucket(u) \in Type \ {b}
    BY <1>1, AloneAtTheList DEF InList, PoolTypeOK, Bucket
  <2> QED  BY <1>1, <1>3, <1>5, <2>1 DEF AtTheList, PoolTypeOK, InList
<1>21. CountMatchesList'
  <2> SUFFICES ASSUME NEW e \in Type,
                      \A u \in Thread : pc'[u] \in InList => Bucket(u)' # e
               PROVE  count'[e] = Cardinality(Pooled(e)')
    BY DEF CountMatchesList
  <2>1. \A u \in Thread : pc[u] \in InList => Bucket(u) # e
    BY <1>3, <1>10
  <2>2. e # b
    BY <1>1, <2>1 DEF InList
  <2> QED  BY <1>1, <1>7, <2>1, <2>2 DEF CountMatchesList
<1>22. CountOwes'
  <2> SUFFICES ASSUME NEW u \in Thread, pc'[u] \in InList
               PROVE  count'[Bucket(u)] = Cardinality(Pooled(Bucket(u))') + Owed(u)'
    BY <1>3 DEF CountOwes
  <2>1. CASE u = t
    <3>1. count[b] = Cardinality(Pooled(b)) + 0
      BY <1>1 DEF CountOwes, InList, Owed
    <3>2. Owed(t)' = 1
      BY <1>1 DEF Owed, PoolTypeOK
    <3> QED  BY <1>1, <1>3, <1>9, <2>1, <3>1, <3>2
  <2>2. CASE u # t
    <3>1. Bucket(u) \in Type \ {b} /\ pc[u] \in InList
      BY <1>1, <1>10, <2>2, AloneAtTheList DEF InList, PoolTypeOK, Bucket
    <3>2. Owed(u)' = Owed(u)
      BY <1>1, <2>2 DEF Owed, PoolTypeOK
    <3>3. Pooled(Bucket(u))' = Pooled(Bucket(u))
      BY <1>3, <1>7, <3>1
    <3> QED  BY <1>1, <3>1, <3>2, <3>3 DEF CountOwes
  <2> QED  BY <2>1, <2>2
<1>23. ClearedIsQuiet'
  BY <1>1 DEF ClearedIsQuiet
<1> QED  BY <1>11, <1>12, <1>13, <1>14, <1>15, <1>16, <1>17, <1>18, <1>19,
            <1>20, <1>21, <1>22, <1>23

LEMMA LinkKeepsInv ==
    ASSUME PoolInv, NEW t \in Thread, Link(t)
    PROVE  PoolInv'
<1> USE PoolAssumption DEF PoolInv, objects
<1>0. Object(t) \in Cell /\ Bucket(t) \in Type
  BY DEF Link, CarriedIsFree, Carries, PoolTypeOK, Object, Bucket
<1> PICK c \in Cell, b \in Type : c = Object(t) /\ b = Bucket(t)
  BY <1>0
<1>1. /\ pc[t] = "link"
      /\ next' = [next EXCEPT ![c] = head[b]]
      /\ pc' = [pc EXCEPT ![t] = "sethead"]
      /\ UNCHANGED <<objects, head, count, owner, cleared, reg>>
  BY DEF Link, Goto
<1>2. \A d : HeldBy(d)' = HeldBy(d)
  BY <1>1 DEF HeldBy
<1>3. \A u : Object(u)' = Object(u) /\ Bucket(u)' = Bucket(u)
  BY <1>1 DEF Object, Bucket
<1>4. \A u \in Thread : Carries(u)' <=> Carries(u)
  BY <1>1 DEF Carries, PoolTypeOK
<1>5. \A e \in Type : c \notin Pooled(e)
  BY <1>1 DEF PooledIsFree, Carries
<1>6. \A e \in Type : Pooled(e)' = Pooled(e) /\ Chain(head[e], next)'
  <2> SUFFICES ASSUME NEW e \in Type
               PROVE  Pooled(e)' = Pooled(e) /\ Chain(head[e], next)'
    OBVIOUS
  <2>1. /\ head[e] \in Cell \cup {None} /\ next \in [Cell -> Cell \cup {None}]
        /\ next' \in [Cell -> Cell \cup {None}]
        /\ \A d \in Cell : d # c => next'[d] = next[d]
    BY <1>1 DEF PoolTypeOK
  <2>2. c \notin Reached(head[e], next) /\ Chain(head[e], next)
    BY <1>5 DEF Pooled, ListsAreChains
  <2>3. Reached(head[e], next') = Reached(head[e], next) /\ Chain(head[e], next')
    BY <2>1, <2>2, LinkOutside
  <2> QED  BY <1>1, <2>3 DEF Pooled, Chain
<1>7. \A u \in Thread : pc'[u] \in InList <=> pc[u] \in InList
  BY <1>1 DEF PoolTypeOK, InList
<1>8. PoolTypeOK'
  <2>1. next' \in [Cell -> Cell \cup {None}] /\ pc' \in [Thread -> Steps]
    BY <1>1 DEF PoolTypeOK, Steps, InList
  <2> QED  BY <1>1, <2>1 DEF PoolTypeOK
<1>9. OnlyOwnerInList'
  BY <1>1, <1>3, <1>7 DEF OnlyOwnerInList
<1>10. DestructedIsLeaving'
  BY <1>1, <1>3 DEF DestructedIsLeaving, PoolTypeOK
<1>11. HeldIsAllocated'
  BY <1>1, <1>2 DEF HeldIsAllocated
<1>12. CarriedIsFree'
  BY <1>1, <1>2, <1>3, <1>4 DEF CarriedIsFree
<1>13. PooledIsFree'
  BY <1>1, <1>2, <1>3, <1>4, <1>6 DEF PooledIsFree
<1>14. NothingLost'
  BY <1>1, <1>2, <1>3, <1>4, <1>6 DEF NothingLost
<1>15. ListsAreChains'
  BY <1>6 DEF ListsAreChains
<1>16. ReleasesItsOwn'
  BY <1>1, <1>2, <1>3 DEF ReleasesItsOwn, PoolTypeOK
<1>17. AtTheList'
  <2>1. \A u \in Thread \ {t} : pc[u] = "sethead" => Object(u) \in Cell \ {c}
    BY <1>1 DEF CarriedIsFree, Carries
  <2>2. next'[c] = head[b] /\ \A d \in Cell \ {c} : next'[d] = next[d]
    BY <1>1 DEF PoolTypeOK
  <2> QED  BY <1>1, <1>3, <2>1, <2>2 DEF AtTheList, PoolTypeOK
<1>18. CountMatchesList'
  BY <1>1, <1>3, <1>6, <1>7 DEF CountMatchesList
<1>19. CountOwes'
  <2>1. \A u \in Thread : Owed(u)' = Owed(u) /\ Bucket(u) \in Type
    BY <1>1 DEF Owed, PoolTypeOK, Bucket
  <2> QED  BY <1>1, <1>3, <1>6, <1>7, <2>1 DEF CountOwes
<1>20. ClearedIsQuiet'
  BY <1>1 DEF ClearedIsQuiet
<1> QED  BY <1>8, <1>9, <1>10, <1>11, <1>12, <1>13, <1>14, <1>15, <1>16,
            <1>17, <1>18, <1>19, <1>20

LEMMA SetHeadKeepsInv ==
    ASSUME PoolInv, NEW t \in Thread, SetHead(t)
    PROVE  PoolInv'
<1> USE PoolAssumption DEF PoolInv, objects
<1>0. Object(t) \in Cell /\ Bucket(t) \in Type
  BY DEF SetHead, CarriedIsFree, Carries, PoolTypeOK, Object, Bucket
<1> PICK c \in Cell, b \in Type : c = Object(t) /\ b = Bucket(t)
  BY <1>0
<1>1. /\ pc[t] = "sethead"
      /\ head' = [head EXCEPT ![b] = c]
      /\ pc' = [pc EXCEPT ![t] = "addcount"]
      /\ UNCHANGED <<objects, next, count, owner, cleared, reg>>
  BY DEF SetHead, Goto
<1>2. \A d : HeldBy(d)' = HeldBy(d)
  BY <1>1 DEF HeldBy
<1>3. \A u : Object(u)' = Object(u) /\ Bucket(u)' = Bucket(u)
  BY <1>1 DEF Object, Bucket
<1>4. \A u \in Thread : Carries(u)' <=> Carries(u) /\ u # t
  BY <1>1 DEF Carries, PoolTypeOK
<1>5. head'[b] = c /\ \A e \in Type \ {b} : head'[e] = head[e]
  BY <1>1 DEF PoolTypeOK
<1>6. /\ \A e \in Type : c \notin Pooled(e)
      /\ next[c] = head[b] /\ objType[c] = b /\ allocated[c] /\ HeldBy(c) = {}
      /\ \A u \in Thread \ {t} : Carries(u) => Object(u) # c
  BY <1>1 DEF PooledIsFree, CarriedIsFree, Carries, AtTheList, ReleasesItsOwn
<1>7. Pooled(b)' = Pooled(b) \cup {c} /\ Chain(head[b], next)'
  <2>1. /\ head[b] \in Cell \cup {None} /\ next \in [Cell -> Cell \cup {None}]
        /\ c \notin Reached(head[b], next) /\ Chain(head[b], next)
    BY <1>6 DEF ListsAreChains, PoolTypeOK, Pooled
  <2>2. Reached(c, next) = Reached(head[b], next) \cup {c} /\ Chain(c, next)
    BY <1>6, <2>1, WithOneMore DEF PoolAssumption
  <2> QED  BY <1>1, <1>5, <2>2 DEF Pooled
<1>8. \A e \in Type \ {b} : Pooled(e)' = Pooled(e) /\ Chain(head[e], next)'
  BY <1>1, <1>5 DEF Pooled, ListsAreChains
<1>9. /\ Cardinality(Pooled(b)) \in Nat
      /\ Cardinality(Pooled(b)') = Cardinality(Pooled(b)) + 1
  <2>1. IsFiniteSet(Pooled(b)) /\ Cardinality(Pooled(b)) \in Nat
    BY PooledType
  <2>2. Cardinality(Pooled(b) \cup {c}) = Cardinality(Pooled(b)) + 1
    BY <1>6, <2>1, FS_AddElement
  <2> QED  BY <1>7, <2>1, <2>2
<1>10. \A u \in Thread : pc'[u] \in InList <=> pc[u] \in InList
  BY <1>1 DEF PoolTypeOK, InList
<1>11. PoolTypeOK'
  <2>1. head' \in [Type -> Cell \cup {None}] /\ pc' \in [Thread -> Steps]
    BY <1>1 DEF PoolTypeOK, Steps, InList
  <2> QED  BY <1>1, <2>1 DEF PoolTypeOK
<1>12. OnlyOwnerInList'
  BY <1>1, <1>3, <1>10 DEF OnlyOwnerInList
<1>13. DestructedIsLeaving'
  BY <1>1, <1>3 DEF DestructedIsLeaving, PoolTypeOK
<1>14. HeldIsAllocated'
  BY <1>1, <1>2 DEF HeldIsAllocated
<1>15. CarriedIsFree'
  BY <1>1, <1>2, <1>3, <1>4 DEF CarriedIsFree
<1>16. PooledIsFree'
  <2> SUFFICES ASSUME NEW e \in Type, NEW d \in Pooled(e)'
               PROVE  /\ allocated'[d] /\ objType'[d] = e /\ HeldBy(d)' = {}
                      /\ \A u \in Thread : Carries(u)' => Object(u)' # d
                      /\ \A f \in Type : d \in Pooled(f)' => f = e
    BY DEF PooledIsFree
  <2>1. CASE d = c
    BY <1>1, <1>2, <1>3, <1>4, <1>6, <1>8, <2>1
  <2>2. CASE d # c
    <3>1. \A f \in Type : d \in Pooled(f)' <=> d \in Pooled(f)
      BY <1>7, <1>8, <2>2
    <3> QED  BY <1>1, <1>2, <1>3, <1>4, <3>1 DEF PooledIsFree
  <2> QED  BY <2>1, <2>2
<1>17. NothingLost'
  <2> SUFFICES ASSUME NEW d \in Cell, allocated[d]
               PROVE  \/ HeldBy(d)' # {}
                      \/ \E u \in Thread : Carries(u)' /\ Object(u)' = d
                      \/ \E e \in Type : d \in Pooled(e)'
    BY <1>1 DEF NothingLost
  <2>1. CASE d = c
    BY <1>7, <2>1
  <2>2. CASE d # c
    BY <1>1, <1>2, <1>3, <1>4, <1>7, <1>8, <2>2 DEF NothingLost
  <2> QED  BY <2>1, <2>2
<1>18. ListsAreChains'
  BY <1>1, <1>7, <1>8 DEF ListsAreChains
<1>19. ReleasesItsOwn'
  BY <1>1, <1>2, <1>3 DEF ReleasesItsOwn, PoolTypeOK
<1>20. AtTheList'
  <2>1. \A u \in Thread \ {t} : pc[u] \in InList => Bucket(u) \in Type \ {b}
    BY <1>1, AloneAtTheList DEF InList, PoolTypeOK, Bucket
  <2> QED  BY <1>1, <1>3, <1>5, <2>1 DEF AtTheList, PoolTypeOK, InList
<1>21. CountMatchesList'
  <2> SUFFICES ASSUME NEW e \in Type,
                      \A u \in Thread : pc'[u] \in InList => Bucket(u)' # e
               PROVE  count'[e] = Cardinality(Pooled(e)')
    BY DEF CountMatchesList
  <2>1. \A u \in Thread : pc[u] \in InList => Bucket(u) # e
    BY <1>3, <1>10
  <2>2. e # b
    BY <1>1, <2>1 DEF InList
  <2> QED  BY <1>1, <1>8, <2>1, <2>2 DEF CountMatchesList
<1>22. CountOwes'
  <2> SUFFICES ASSUME NEW u \in Thread, pc'[u] \in InList
               PROVE  count'[Bucket(u)] = Cardinality(Pooled(Bucket(u))') + Owed(u)'
    BY <1>3 DEF CountOwes
  <2>1. CASE u = t
    <3>1. count[b] = Cardinality(Pooled(b)) + 0
      BY <1>1 DEF CountOwes, InList, Owed
    <3>2. Owed(t)' = -1
      BY <1>1 DEF Owed, PoolTypeOK
    <3> QED  BY <1>1, <1>3, <1>9, <2>1, <3>1, <3>2
  <2>2. CASE u # t
    <3>1. Bucket(u) \in Type \ {b} /\ pc[u] \in InList
      BY <1>1, <1>10, <2>2, AloneAtTheList DEF InList, PoolTypeOK, Bucket
    <3>2. Owed(u)' = Owed(u)
      BY <1>1, <2>2 DEF Owed, PoolTypeOK
    <3>3. Pooled(Bucket(u))' = Pooled(Bucket(u))
      BY <1>3, <1>8, <3>1
    <3> QED  BY <1>1, <3>1, <3>2, <3>3 DEF CountOwes
  <2> QED  BY <2>1, <2>2
<1>23. ClearedIsQuiet'
  BY <1>1 DEF ClearedIsQuiet
<1> QED  BY <1>11, <1>12, <1>13, <1>14, <1>15, <1>16, <1>17, <1>18, <1>19,
            <1>20, <1>21, <1>22, <1>23

LEMMA ClearKeepsInv == PoolInv /\ Clear => PoolInv'
<1> SUFFICES ASSUME PoolInv, Clear
             PROVE  PoolInv'
  OBVIOUS
<1> USE PoolAssumption DEF PoolInv
<1>1. /\ \A t \in Thread : pc[t] = "idle"
      /\ allocated' = [c \in Cell |-> allocated[c] /\ \A b \in Type : c \notin Pooled(b)]
      /\ head' = [b \in Type |-> None] /\ count' = [b \in Type |-> 0]
      /\ UNCHANGED <<held, objType, weak, destructs, next, owner, pc, reg>>
  BY DEF Clear
<1>2. \A b \in Type : Pooled(b)' = {} /\ Cardinality(Pooled(b)') = 0
  <2>1. \A b \in Type : Pooled(b)' = {}
    BY <1>1, NothingReached DEF Pooled
  <2> QED  BY <2>1, FS_EmptySet
<1>3. \A c \in Cell : allocated'[c] <=> allocated[c] /\ \A b \in Type : c \notin Pooled(b)
  BY <1>1
<1>4. \A c : HeldBy(c)' = HeldBy(c)
  BY <1>1 DEF HeldBy
<1>5. \A t \in Thread : ~Carries(t) /\ ~Carries(t)'
  BY <1>1 DEF Carries
<1>6. PoolTypeOK'
  <2>1. allocated' \in [Cell -> BOOLEAN] /\ cleared' \in BOOLEAN
    BY <1>1, Zenon DEF Clear
  <2>2. head' \in [Type -> Cell \cup {None}] /\ count' \in [Type -> 0..Limit]
    BY <1>1 DEF PoolAssumption
  <2> QED  BY <1>1, <2>1, <2>2 DEF PoolTypeOK
<1>7. OnlyOwnerInList' /\ DestructedIsLeaving'
  BY <1>1 DEF OnlyOwnerInList, DestructedIsLeaving, InList, Object
<1>8. HeldIsAllocated'
  BY <1>1, <1>3, <1>4 DEF HeldIsAllocated, PooledIsFree
<1>9. CarriedIsFree' /\ PooledIsFree'
  BY <1>2, <1>5 DEF CarriedIsFree, PooledIsFree
<1>10. NothingLost'
  BY <1>3, <1>4, <1>5 DEF NothingLost
<1>11. ListsAreChains'
  BY <1>2 DEF ListsAreChains, Chain, Pooled
<1>12. ReleasesItsOwn' /\ AtTheList'
  BY <1>1 DEF ReleasesItsOwn, AtTheList
<1>13. CountMatchesList' /\ CountOwes'
  BY <1>1, <1>2 DEF CountMatchesList, CountOwes, InList
<1>14. ClearedIsQuiet'
  BY <1>1 DEF ClearedIsQuiet
<1> QED  BY <1>6, <1>7, <1>8, <1>9, <1>10, <1>11, <1>12, <1>13, <1>14

LEMMA StutterKeepsInv == PoolInv /\ UNCHANGED vars => PoolInv'
<1> SUFFICES ASSUME PoolInv, UNCHANGED vars
             PROVE  PoolInv'
  OBVIOUS
<1> USE DEF PoolInv, vars, objects, list
<1>1. (\A b : Pooled(b)' = Pooled(b)) /\ ListsAreChains'
  BY ListsKept
<1>2. PoolTypeOK' /\ OnlyOwnerInList' /\ DestructedIsLeaving'
  BY DEF PoolTypeOK, OnlyOwnerInList, DestructedIsLeaving, Bucket, Object
<1>3. HeldIsAllocated' /\ CarriedIsFree'
  BY DEF HeldIsAllocated, CarriedIsFree, HeldBy, Carries, Object
<1>4. PooledIsFree' /\ NothingLost'
  BY <1>1 DEF PooledIsFree, NothingLost, HeldBy, Carries, Object
<1>5. ReleasesItsOwn' /\ AtTheList'
  BY DEF ReleasesItsOwn, AtTheList, HeldBy, Object, Bucket
<1>6. CountMatchesList' /\ CountOwes' /\ ClearedIsQuiet'
  BY <1>1 DEF CountMatchesList, CountOwes, ClearedIsQuiet, Bucket, Owed
<1> QED  BY <1>1, <1>2, <1>3, <1>4, <1>5, <1>6

LEMMA NextKeepsPoolInv == PoolInv /\ [Next]_vars => PoolInv'
<1> SUFFICES ASSUME PoolInv, [Next]_vars
             PROVE  PoolInv'
  OBVIOUS
<1>1. CASE Clear
  BY <1>1, ClearKeepsInv
<1>2. ASSUME NEW t \in Thread, IsPoolOwnerLoad(t) \/ IsPoolOwnerExchange(t)
      PROVE  PoolInv'
  BY <1>2, LoadKeepsInv, ExchangeKeepsInv
<1>3. ASSUME NEW t \in Thread, Create(t)
      PROVE  PoolInv'
  BY <1>3, CreateKeepsInv, ReadHeadKeepsInv, UnlinkKeepsInv,
     DecreaseCountKeepsInv, AllocKeepsInv, ConstructKeepsInv DEF Create
<1>4. ASSUME NEW t \in Thread, Release(t)
      PROVE  PoolInv'
  BY <1>4, ReleasePooledKeepsInv, ReleaseScalarKeepsInv, DecreaseRefKeepsInv,
     CheckRoomKeepsInv, LinkKeepsInv, SetHeadKeepsInv, IncreaseCountKeepsInv,
     FreeKeepsInv, ScriptReleaseKeepsInv DEF Release
<1>5. ASSUME NEW t \in Thread, Use(t)
      PROVE  PoolInv'
  BY <1>5, ShareKeepsInv, WatchKeepsInv, UpgradeKeepsInv DEF Use
<1>6. CASE UNCHANGED vars
  BY <1>6, StutterKeepsInv
<1> QED  BY <1>1, <1>2, <1>3, <1>4, <1>5, <1>6 DEF Next

(***************************************************************************)
(* The theorems.                                                           *)
(***************************************************************************)

\* PoolInv holds in every state.
THEOREM PoolInvariant == Spec => []PoolInv
<1>1. Init => PoolInv
  BY InitEstablishesPoolInv
<1>2. PoolInv /\ [Next]_vars => PoolInv'
  BY NextKeepsPoolInv
<1> QED  BY <1>1, <1>2, PTL DEF Spec

\* Every variable keeps its type; a count stays between zero and the limit
\* (ScalarObjectPoolBucket).
THEOREM PoolTypeCorrect == Spec => []PoolTypeOK
<1>1. PoolInv => PoolTypeOK
  BY DEF PoolInv
<1> QED  BY <1>1, PoolInvariant, PTL

\* However many threads race for it, a list is used by its owner only
\* (IsPoolOwner).
THEOREM OwnershipIsALock == Spec => []OnlyOwnerInList
<1>1. PoolInv => OnlyOwnerInList
  BY DEF PoolInv
<1> QED  BY <1>1, PoolInvariant, PTL

\* Memory in a list belongs to nobody, and fits the class of the bucket
\* (CacheReleasedObject).
THEOREM PooledStaysDead == Spec => []PooledIsDead
<1>1. PoolInv => PooledIsDead
  <2> SUFFICES ASSUME PoolInv
               PROVE  PooledIsDead
    OBVIOUS
  <2>1. PooledIsFree
    BY DEF PoolInv
  <2> QED  BY <2>1 DEF PooledIsFree, PooledIsDead, HeldBy, Carries
<1> QED  BY <1>1, PoolInvariant, PTL

\* A list nobody is at is as long as its count says.
THEOREM CountIsRight == Spec => []CountMatchesList
<1>1. PoolInv => CountMatchesList
  BY DEF PoolInv
<1> QED  BY <1>1, PoolInvariant, PTL

\* No block is lost between the threads, the lists and the allocator.
THEOREM NoBlockIsLost == Spec => []NothingLeaks
<1>1. PoolInv => NothingLeaks
  <2> SUFFICES ASSUME PoolInv, NEW c \in Cell, allocated[c]
               PROVE  \/ \E t \in Thread : c \in held[t] \/ (pc[t] # "idle" /\ Object(t) = c)
                      \/ ~cleared /\ \E b \in Type : c \in Pooled(b)
    BY DEF NothingLeaks
  <2>1. CASE HeldBy(c) # {}
    BY <2>1 DEF HeldBy
  <2>2. CASE \E t \in Thread : Carries(t) /\ Object(t) = c
    BY <2>2 DEF Carries
  <2>3. CASE \E b \in Type : c \in Pooled(b)
    <3>1. ~cleared
      BY <2>3, NothingReached DEF PoolInv, ClearedIsQuiet, Pooled
    <3> QED  BY <2>3, <3>1
  <2> QED  BY <2>1, <2>2, <2>3 DEF PoolInv, NothingLost
<1> QED  BY <1>1, PoolInvariant, PTL

\* An object whose destructor has run is only in the hands of the thread that
\* releases it (ReleaseScalarOnlyWithoutFree).
THEOREM NobodyRevives == Spec => []DestructedIsLeaving
<1>1. PoolInv => DestructedIsLeaving
  BY DEF PoolInv
<1> QED  BY <1>1, PoolInvariant, PTL

-----------------------------------------------------------------------------
(***************************************************************************)
(* The refinement.                                                         *)
(***************************************************************************)

LEMMA InitRefines == Init => Heap!Init
  BY DEF Init, Heap!Init

LEMMA LiveIsHeld == \A c : Heap!Live(c) <=> HeldBy(c) # {}
  BY DEF Heap!Live, HeldBy

LEMMA StepRefines == PoolInv /\ [Next]_vars => [Heap!Next]_<<held, objType>>
<1> SUFFICES ASSUME PoolInv, [Next]_vars
             PROVE  Heap!Next \/ UNCHANGED <<held, objType>>
  OBVIOUS
<1>1. ASSUME NEW t \in Thread, Construct(t)
      PROVE  Heap!Next
  <2>1. Object(t) \in Cell /\ ~Heap!Live(Object(t)) /\ Bucket(t) \in Type
    BY <1>1, LiveIsHeld DEF Construct, PoolInv, CarriedIsFree, Carries, PoolTypeOK, Bucket
  <2>2. Heap!New(t, Object(t), Bucket(t))
    BY <1>1, <2>1 DEF Construct, Heap!New
  <2> QED  BY <2>1, <2>2 DEF Heap!Next
<1>2. ASSUME NEW t \in Thread, DecreaseRef(t) \/ ScriptObjectRelease(t)
      PROVE  Heap!Next
  <2>1. Object(t) \in held[t] /\ Object(t) \in Cell
    BY <1>2 DEF DecreaseRef, ScriptObjectRelease, PoolInv, ReleasesItsOwn, PoolTypeOK
  <2>2. Heap!Drop(t, Object(t))
    BY <1>2, <2>1 DEF DecreaseRef, ScriptObjectRelease, Heap!Drop
  <2> QED  BY <2>1, <2>2 DEF Heap!Next
<1>3. ASSUME NEW t \in Thread, NEW u \in Thread, NEW c \in Cell, Share(t, u, c)
      PROVE  Heap!Next
  <2>1. Heap!Share(u, c)
    BY <1>3 DEF Share, Heap!Share, Heap!Live
  <2> QED  BY <2>1 DEF Heap!Next
<1>4. ASSUME NEW t \in Thread, NEW c \in Cell, Upgrade(t, c)
      PROVE  Heap!Next
  <2>1. Heap!Live(c)
    BY <1>4, LiveIsHeld DEF Upgrade, PoolInv, HeldIsAllocated
  <2>2. Heap!Share(t, c)
    BY <1>4, <2>1 DEF Upgrade, Heap!Share
  <2> QED  BY <2>2 DEF Heap!Next
<1>5. ASSUME NEW t \in Thread, Create(t), ~Construct(t)
      PROVE  UNCHANGED <<held, objType>>
  BY <1>5 DEF Create, CreatePooledScriptObject, ReadHead, Unlink, DecreaseCount,
     CallAlloc, objects
<1>6. ASSUME NEW t \in Thread, Release(t), ~(DecreaseRef(t) \/ ScriptObjectRelease(t))
      PROVE  UNCHANGED <<held, objType>>
  BY <1>6 DEF Release, ReleasePooledScriptObject, ReleaseScalarOnly, CheckRoom,
     Link, SetHead, IncreaseCount, CallFree, objects
<1>7. ASSUME NEW t \in Thread, Use(t)
      PROVE  Heap!Next \/ UNCHANGED <<held, objType>>
  BY <1>3, <1>4, <1>7 DEF Use, Watch
<1>8. ASSUME NEW t \in Thread, IsPoolOwnerLoad(t) \/ IsPoolOwnerExchange(t)
      PROVE  UNCHANGED <<held, objType>>
  BY <1>8 DEF IsPoolOwnerLoad, IsPoolOwnerExchange, objects
<1>9. CASE Clear \/ UNCHANGED vars
  BY <1>9 DEF Clear, vars, objects
<1> QED  BY <1>1, <1>2, <1>5, <1>6, <1>7, <1>8, <1>9 DEF Next

\* The pool implements an object heap: whatever it does with the memory of
\* released objects, a new object never takes that of one that is held.
THEOREM PoolIsAHeap == Spec => ImplementsHeap
<1>1. Init => Heap!Init
  BY InitRefines
<1>2. PoolInv /\ [Next]_vars => [Heap!Next]_<<held, objType>>
  BY StepRefines
<1> QED  BY <1>1, <1>2, PoolInvariant, PTL DEF Spec, ImplementsHeap, Heap!Spec
=============================================================================
