----------------------------- MODULE VisionProofs -----------------------------
(***************************************************************************)
(* Proofs about the image features and their cache.                        *)
(***************************************************************************)
EXTENDS VisionFeatures, DequeTheorems

(* The bytes of a set of features are summed up by a recursion over the    *)
(* set: they are as many as the set has units.                             *)
LEMMA SizeIsUnits ==
    ASSUME NEW K \in SUBSET Key
    PROVE  /\ IsFiniteSet(K) /\ \A k \in K : Bytes[k] \in Nat
           /\ Size(K) = Cardinality(Units(Bytes, K))
<1>1. IsFiniteSet(K) /\ \A k \in K : Bytes[k] \in Nat
  BY StoreAssumption, FS_Subset
<1> DEFINE f == CHOOSE f : SumsUp(f, Bytes, K)
<1>2. Size(K) = f[K]
  BY DEF Size, MapThenSumSet, MapThenFoldSet, SumsUp
<1>3. SumsUp(f, Bytes, K)
  BY <1>1, SumIsUnits
<1> HIDE DEF f
<1> QED BY <1>1, <1>2, <1>3, SumIsUnits

(* Sizes are numbers, grow with the set, and lose what a key has when it   *)
(* is taken out.                                                           *)
LEMMA SizeFacts ==
    ASSUME NEW K \in SUBSET Key
    PROVE  /\ Size(K) \in Nat
           /\ \A J \in SUBSET K : Size(J) <= Size(K)
           /\ \A k \in K : Size(K) = Bytes[k] + Size(K \ {k})
<1>1. /\ Size(K) = Cardinality(Units(Bytes, K)) /\ Size(K) \in Nat
      /\ IsFiniteSet(Units(Bytes, K))
  BY SizeIsUnits, UnitsFinite
<1>2. ASSUME NEW J \in SUBSET K
      PROVE  Size(J) <= Size(K)
  <2>1. Units(Bytes, J) \in SUBSET Units(Bytes, K)
    BY DEF Units
  <2>2. Cardinality(Units(Bytes, J)) <= Cardinality(Units(Bytes, K))
    BY <1>1, <2>1, FS_Subset
  <2> QED
    BY <1>1, <2>2, SizeIsUnits
<1>3. ASSUME NEW k \in K
      PROVE  Size(K) = Bytes[k] + Size(K \ {k})
  BY <1>1, SizeIsUnits, UnitsAdd
<1> QED
  BY <1>1, <1>2, <1>3

(***************************************************************************)
(* The inductive invariant, in three parts.                                *)
(***************************************************************************)

(* The store: no key twice, and every byte is accounted for.               *)
StoreInv ==
    /\ entries \in Seq(Key) /\ Injective(entries)
    /\ DOMAIN values = Stored
    /\ resident = Size(Stored) /\ resident <= Budget

(* The registrations: counted by the requests that are live.               *)
InputInv ==
    /\ live \subseteq Request /\ IsFiniteSet(live)
    /\ refs \in [Registered -> Nat \ {0}]
    /\ InputsWhileLive

(* The images of a prefill: what is needed belongs to live requests, and   *)
(* what was found in the store is pinned and stays there.                  *)
NeedInv ==
    /\ need \in Seq(Key) /\ Injective(need) /\ cached \subseteq Range(need)
    /\ DOMAIN encoded \subseteq Range(need)
    /\ pins \in [Key -> Nat] /\ PinsExact
    /\ phase # "idle" => Range(need) \subseteq UNION { ImagesOf(r) : r \in live }
    /\ phase \in {"idle", "lookup"} => cached = {} /\ encoded = NoFeatures
    /\ phase \in {"pin", "encode", "put"} => cached = Range(need) \cap Stored
    /\ phase = "peek" \/ (phase = "unpin" /\ error = "none") => Range(need) \subseteq Stored

(* Every error belongs to a place where it was raised.                     *)
ErrorInv ==
    /\ phase \in {"idle", "lookup", "pin", "encode", "put", "unpin", "peek",
                  "use", "release", "raised"}
    /\ phase \in {"idle", "lookup", "pin", "encode", "put", "peek", "use"} => error = "none"
    /\ phase = "unpin"   => error \in {"none", "encoder", "budget"}
    /\ phase = "release" => error \in {"none", "rows"}
    /\ phase = "raised"  => error \in {"encoder", "budget", "rows"}
    /\ RefusedOnlyTooLarge

IInv == StoreInv /\ InputInv /\ NeedInv /\ ErrorInv

(***************************************************************************)
(* The store.                                                              *)
(***************************************************************************)

(* Moving entries to the end changes nothing but their order.              *)
LEMMA TouchKeepsStore ==
    ASSUME StoreInv, NEW ks \in Seq(Key), Injective(ks), Range(ks) \subseteq Stored,
           entries' = Touch(ks), UNCHANGED <<values, resident>>
    PROVE  StoreInv' /\ Stored' = Stored
<1> DEFINE others == Keep(entries, Stored \ Range(ks))
<1>1. entries \in Seq(Key) /\ Injective(entries)
  BY DEF StoreInv
<1>2. /\ others \in Seq(Key) /\ Injective(others)
      /\ Range(others) = Range(entries) \cap (Stored \ Range(ks))
  BY <1>1, KeepProperties
<1>3. Range(others) = Stored \ Range(ks)
  BY <1>2 DEF Stored
<1>4. entries' = others \o ks
  BY DEF Touch
<1> HIDE DEF others
<1>5. /\ others \o ks \in Seq(Key)
      /\ Range(others \o ks) = Range(others) \cup Range(ks)
      /\ Injective(others \o ks)
  BY <1>2, <1>3, ConcatFacts
<1>6. Stored' = Stored
  BY <1>3, <1>4, <1>5 DEF Stored
<1> QED
  BY <1>4, <1>5, <1>6 DEF StoreInv

(* The entries that may be evicted, in the order of their use.             *)
LEMMA EvictableFacts ==
    ASSUME StoreInv, NEW ks \in Seq(Key)
    PROVE  /\ Evictable(ks) \in Seq(Key) /\ Injective(Evictable(ks))
           /\ Range(Evictable(ks)) = { k \in Stored \ Range(ks) : pins[k] = 0 }
<1>1. entries \in Seq(Key) /\ Injective(entries)
  BY DEF StoreInv
<1>2. /\ Retained(ks) \in Seq(Key) /\ Injective(Retained(ks))
      /\ Range(Retained(ks)) = Range(entries) \cap (Stored \ Range(ks))
  BY <1>1, KeepProperties DEF Retained
<1>3. /\ Evictable(ks) \in Seq(Key) /\ Injective(Evictable(ks))
      /\ Range(Evictable(ks)) = Range(Retained(ks)) \cap { k \in Stored : pins[k] = 0 }
  BY <1>2, KeepProperties DEF Evictable
<1> QED
  BY <1>2, <1>3 DEF Stored

(* If all evictions together make enough room, then there is a least       *)
(* number of them that does.                                               *)
LEMMA VictimsFacts ==
    ASSUME StoreInv, NEW ks \in Seq(Key), Fits(ks)
    PROVE  \E n \in 0..Len(Evictable(ks)) :
              /\ Victims(ks) = Range(SubSeq(Evictable(ks), 1, n))
              /\ Size(After(ks, n)) <= Budget
              /\ \A m \in 0..n - 1 : ~(Size(After(ks, m)) <= Budget)
<1> DEFINE N == { n \in 0..Len(Evictable(ks)) : Size(After(ks, n)) <= Budget }
<1>1. Len(Evictable(ks)) \in Nat
  BY EvictableFacts
<1>2. N \in SUBSET Nat /\ N # {}
  BY <1>1 DEF Fits
<1>3. \E n \in N : \A m \in N : n <= m
  <2> HIDE DEF N
  <2> QED
    BY <1>2, LeastNatural
<1>4. Min(N) \in N /\ \A m \in N : Min(N) <= m
  <2> HIDE DEF N
  <2> QED
    BY <1>3 DEF Min
<1>5. Victims(ks) = Range(SubSeq(Evictable(ks), 1, Min(N)))
  BY DEF Victims
<1>6. \A m \in 0..Min(N) - 1 : m \notin N
  <2> SUFFICES ASSUME NEW m \in 0..Min(N) - 1, m \in N
               PROVE  FALSE
    OBVIOUS
  <2>1. Min(N) \in Nat /\ m \in Nat /\ m < Min(N)
    BY <1>2, <1>4
  <2> QED
    BY <1>4, <2>1
<1>7. \A m \in 0..Min(N) - 1 : m \in 0..Len(Evictable(ks))
  <2>1. Min(N) \in 0..Len(Evictable(ks))
    BY <1>4
  <2> HIDE DEF N
  <2> QED
    BY <1>1, <2>1
<1>8. PICK n \in N : n = Min(N)
  BY <1>4
<1> QED
  BY <1>5, <1>6, <1>7, <1>8

(* A new working set goes in, victims that are not in it go out.           *)
LEMMA PutKeepsStore ==
    ASSUME StoreInv, NEW ks \in Seq(Key), Injective(ks), NEW features, PutMany(ks, features)
    PROVE  /\ StoreInv'
           /\ Victims(ks) \subseteq Range(Evictable(ks))
           /\ Stored' = (Stored \cup Range(ks)) \ Victims(ks)
<1> DEFINE kept == Keep(Retained(ks), Stored \ Victims(ks))
           next == (Stored \cup Range(ks)) \ Victims(ks)
<1>1. PICK n \in 0..Len(Evictable(ks)) :
        /\ Victims(ks) = Range(SubSeq(Evictable(ks), 1, n))
        /\ Size(After(ks, n)) <= Budget
  BY VictimsFacts DEF PutMany, CanPut
<1>2. /\ Evictable(ks) \in Seq(Key)
      /\ Range(Evictable(ks)) = { k \in Stored \ Range(ks) : pins[k] = 0 }
  BY EvictableFacts
<1>3. Victims(ks) \subseteq Range(Evictable(ks))
  <2>1. Range(SubSeq(Evictable(ks), 1, n)) \subseteq Range(Evictable(ks))
    BY <1>2, SplitFacts
  <2> QED
    BY <1>1, <2>1
<1>4. entries \in Seq(Key) /\ Injective(entries)
  BY DEF StoreInv
<1>5. /\ Retained(ks) \in Seq(Key) /\ Injective(Retained(ks))
      /\ Range(Retained(ks)) = Range(entries) \cap (Stored \ Range(ks))
  BY <1>4, KeepProperties DEF Retained
<1>6. /\ kept \in Seq(Key) /\ Injective(kept)
      /\ Range(kept) = Range(Retained(ks)) \cap (Stored \ Victims(ks))
  BY <1>5, KeepProperties
<1>7. entries' = kept \o ks
  BY DEF PutMany
<1> HIDE DEF kept
<1>8. Range(kept) \cap Range(ks) = {} /\ Range(kept) \cup Range(ks) = next
  BY <1>2, <1>3, <1>5, <1>6 DEF Stored
<1>9. /\ kept \o ks \in Seq(Key)
      /\ Range(kept \o ks) = Range(kept) \cup Range(ks)
      /\ Injective(kept \o ks)
  BY <1>6, <1>8, ConcatFacts
<1>10. Stored' = next
  BY <1>7, <1>8, <1>9 DEF Stored
<1>11. next = After(ks, n)
  BY <1>1 DEF After
<1>12. DOMAIN values' = next /\ resident' = Size(next)
  BY DEF PutMany, ResidentAfter
<1> HIDE DEF next
<1>13. resident' = Size(Stored') /\ resident' <= Budget
  BY <1>1, <1>10, <1>11, <1>12
<1>14. StoreInv'
  BY <1>7, <1>9, <1>10, <1>12, <1>13 DEF StoreInv
<1> QED
  BY <1>3, <1>10, <1>14 DEF next

(***************************************************************************)
(* The registrations.                                                      *)
(***************************************************************************)

LEMMA ImagesAreKeys ==
    ASSUME NEW r \in Request
    PROVE  ImagesOf(r) \subseteq Key
<1>1. Images[r] \in Seq(Key)
  BY VisionAssumption
<1> QED
  BY <1>1 DEF ImagesOf, Range

LEMMA UsersFinite ==
    ASSUME InputInv, NEW k
    PROVE  IsFiniteSet(Users(k)) /\ Cardinality(Users(k)) \in Nat
<1>1. IsFiniteSet(live) /\ Users(k) \in SUBSET live
  BY DEF InputInv, Users
<1> QED
  BY <1>1, FS_Subset, FS_CardinalityType

(* A request that is added counts for each of its images.                  *)
LEMMA AddKeepsInputs ==
    ASSUME InputInv, NEW r \in Request, AddSequence(r)
    PROVE  InputInv'
<1>1. /\ live \subseteq Request /\ IsFiniteSet(live) /\ r \notin live
      /\ live' = live \cup {r}
  BY DEF InputInv, AddSequence
<1>2. /\ Registered = { k \in Key : Users(k) # {} }
      /\ \A k \in Registered : refs[k] = Cardinality(Users(k))
  BY DEF InputInv, InputsWhileLive
<1>3. /\ Registered' = Registered \cup ImagesOf(r)
      /\ \A k \in Registered' :
            refs'[k] = Count(r, k) + IF k \in Registered THEN refs[k] ELSE 0
  BY DEF AddSequence, RegisterInputs, Registered
<1>4. \A k : Users(k)' = Users(k) \cup IF k \in ImagesOf(r) THEN {r} ELSE {}
  BY <1>1 DEF Users
<1>5. \A k : r \notin Users(k)
  BY <1>1 DEF Users
<1>6. ImagesOf(r) \subseteq Key
  BY ImagesAreKeys
<1>7. Registered' = { k \in Key : Users(k)' # {} }
  BY <1>2, <1>3, <1>4, <1>6
<1>8. ASSUME NEW k \in Registered'
      PROVE  /\ refs'[k] = Cardinality(Users(k)')
             /\ refs'[k] \in Nat \ {0}
  <2>1. IsFiniteSet(Users(k)) /\ Cardinality(Users(k)) \in Nat
    BY UsersFinite
  <2>2. (IF k \in Registered THEN refs[k] ELSE 0) = Cardinality(Users(k))
    <3>1. CASE k \in Registered
      BY <1>2, <3>1
    <3>2. CASE k \notin Registered
      <4>1. Users(k) = {}
        BY <1>2, <1>3, <1>6, <1>8, <3>2
      <4> QED
        BY <3>2, <4>1, FS_EmptySet
    <3> QED
      BY <3>1, <3>2
  <2>3. refs'[k] = Count(r, k) + Cardinality(Users(k))
    BY <1>3, <1>8, <2>2
  <2>4. CASE k \in ImagesOf(r)
    <3>1. Users(k)' = Users(k) \cup {r}
      BY <1>4, <2>4
    <3>2. Cardinality(Users(k) \cup {r}) = Cardinality(Users(k)) + 1
      BY <1>5, <2>1, FS_AddElement
    <3>3. Count(r, k) = 1
      BY <2>4 DEF Count
    <3> QED
      BY <2>1, <2>3, <3>1, <3>2, <3>3
  <2>5. CASE k \notin ImagesOf(r)
    <3>1. Users(k)' = Users(k) /\ Count(r, k) = 0
      BY <1>4, <2>5 DEF Count
    <3>2. Users(k) # {}
      BY <1>2, <1>3, <1>8, <2>5
    <3>3. Cardinality(Users(k)) # 0
      BY <2>1, <3>2, FS_EmptySet
    <3> QED
      BY <2>1, <2>3, <3>1, <3>3
  <2> QED
    BY <2>4, <2>5
<1>9. refs' \in [Registered' -> Nat \ {0}]
  <2>1. refs' = [ k \in Registered' |-> refs'[k] ]
    BY DEF AddSequence, RegisterInputs, Registered
  <2> QED
    BY <1>8, <2>1
<1>10. live' \subseteq Request /\ IsFiniteSet(live')
  BY <1>1, FS_AddElement
<1> QED
  BY <1>7, <1>8, <1>9, <1>10 DEF InputInv, InputsWhileLive

(* Requests that end, one of them or all, no longer count.                 *)
LEMMA ReleaseKeepsInputs ==
    ASSUME InputInv, NEW R \in SUBSET live, ReleaseInputs(R), live' = live \ R
    PROVE  InputInv'
<1>1. /\ live \subseteq Request /\ IsFiniteSet(live)
      /\ Registered = { k \in Key : Users(k) # {} }
      /\ \A k \in Registered : refs[k] = Cardinality(Users(k))
  BY DEF InputInv, InputsWhileLive
<1>2. /\ Registered' = Registered \ Released(R)
      /\ \A k \in Registered' : refs'[k] = refs[k] - Holders(R, k)
      /\ refs' = [ k \in Registered' |-> refs'[k] ]
  BY DEF ReleaseInputs, Registered
<1>3. ASSUME NEW k \in Registered
      PROVE  /\ k \in Released(R) <=> Users(k)' = {}
             /\ refs[k] - Holders(R, k) = Cardinality(Users(k)')
             /\ Cardinality(Users(k)') \in Nat
             /\ Users(k)' # {} => Cardinality(Users(k)') # 0
  <2> DEFINE U == Users(k)
             gone == U \cap R
  <2>1. IsFiniteSet(U) /\ Cardinality(U) \in Nat /\ refs[k] = Cardinality(U)
    BY <1>1, UsersFinite
  <2>2. Users(k)' = U \ R
    BY DEF Users
  <2>3. Holders(R, k) = Cardinality(gone)
    <3>1. { r \in R : k \in ImagesOf(r) } = gone
      BY DEF Users
    <3> QED
      BY <3>1 DEF Holders
  <2> HIDE DEF U
  <2>4. IsFiniteSet(U \ R) /\ Cardinality(U \ R) = Cardinality(U) - Cardinality(gone)
    BY <2>1, FS_Difference
  <2>5. Cardinality(U \ R) \in Nat /\ (Cardinality(U \ R) = 0 <=> U \ R = {})
    BY <2>4, FS_CardinalityType, FS_EmptySet
  <2>6. IsFiniteSet(gone) /\ Cardinality(gone) \in Nat
    BY <2>1, FS_Intersection, FS_CardinalityType
  <2>7. k \in Released(R) <=> Cardinality(U) <= Cardinality(gone)
    BY <2>1, <2>3 DEF Released
  <2>8. Cardinality(U) <= Cardinality(gone) <=> Cardinality(U \ R) = 0
    <3> HIDE DEF gone
    <3> QED
      BY <2>1, <2>4, <2>5, <2>6
  <2> QED
    BY <2>1, <2>2, <2>3, <2>4, <2>5, <2>7, <2>8
<1>4. \A k : Users(k)' \subseteq Users(k)
  BY DEF Users
<1>5. Registered' = { k \in Key : Users(k)' # {} }
  BY <1>1, <1>2, <1>3, <1>4
<1>6. \A k \in Registered' : refs'[k] = Cardinality(Users(k)') /\ refs'[k] \in Nat \ {0}
  BY <1>2, <1>3
<1>7. refs' \in [Registered' -> Nat \ {0}]
  BY <1>2, <1>6
<1>8. live' \subseteq Request /\ IsFiniteSet(live')
  BY <1>1, FS_Difference
<1> QED
  BY <1>5, <1>6, <1>7, <1>8 DEF InputInv, InputsWhileLive

LEMMA NothingKeepsInputs ==
    ASSUME InputInv, UNCHANGED inputVars
    PROVE  InputInv'
<1>1. live' = live /\ refs' = refs
  BY DEF inputVars
<1>2. Registered' = Registered /\ \A k : Users(k)' = Users(k)
  BY <1>1 DEF Registered, Users
<1> QED
  BY <1>1, <1>2 DEF InputInv, InputsWhileLive

(***************************************************************************)
(* The steps.                                                              *)
(***************************************************************************)

(* The features in use, those that PinsExact wants pinned.                 *)
InUse ==
    IF phase \in {"encode", "put", "unpin"} THEN cached
    ELSE IF phase \in {"use", "release"} THEN Range(need) ELSE {}

LEMMA PinsInUse ==
    PinsExact <=> \A k \in Key : pins[k] = IF k \in InUse THEN 1 ELSE 0
<1>1. ASSUME NEW k \in Key
      PROVE  (IF k \in InUse THEN 1 ELSE 0) =
                CASE phase \in {"encode", "put", "unpin"} /\ k \in cached -> 1
                  [] phase \in {"use", "release"} /\ k \in Range(need)    -> 1
                  [] OTHER                                               -> 0
  BY DEF InUse
<1> QED
  BY <1>1 DEF PinsExact

LEMMA NeedKeys ==
    ASSUME NEW q \in Seq(Key)
    PROVE  Range(q) \subseteq Key
  BY DEF Range

LEMMA KeepNeed ==
    ASSUME NEW q \in Seq(Key), Injective(q), NEW S
    PROVE  /\ Keep(q, S) \in Seq(Key) /\ Injective(Keep(q, S))
           /\ Range(Keep(q, S)) = Range(q) \cap S
  BY KeepProperties

LEMMA InitIInv == Init => IInv
<1> SUFFICES ASSUME Init
             PROVE  IInv
  OBVIOUS
<1>0. /\ entries = << >> /\ values = [ k \in {} |-> << >> ]
      /\ pins = [ k \in Key |-> 0 ] /\ resident = 0
      /\ live = {} /\ refs = [ k \in {} |-> 0 ]
      /\ phase = "idle" /\ need = << >> /\ cached = {} /\ encoded = NoFeatures /\ error = "none"
  BY DEF Init, InitStore
<1>1. Range(<< >>) = {} /\ Injective(<< >>) /\ << >> \in Seq(Key)
  BY DEF Range, Injective
<1>2. StoreInv
  <2>1. Stored = {}
    BY <1>0, <1>1 DEF Stored
  <2>2. Size({}) = 0
    <3>1. Cardinality(Units(Bytes, {})) = 0
      BY UnitsOfNone
    <3>2. {} \in SUBSET Key
      OBVIOUS
    <3> QED
      BY <3>1, <3>2, SizeIsUnits
  <2>3. 0 <= Budget
    BY StoreAssumption
  <2>4. DOMAIN values = {}
    BY <1>0
  <2> QED
    BY <1>0, <1>1, <2>1, <2>2, <2>3, <2>4 DEF StoreInv
<1>3. InputInv
  <2>1. Registered = {} /\ \A k : Users(k) = {}
    BY <1>0 DEF Registered, Users
  <2>2. refs \in [Registered -> Nat \ {0}]
    BY <1>0, <2>1
  <2> QED
    BY <1>0, <2>1, <2>2, FS_EmptySet DEF InputInv, InputsWhileLive
<1>4. NeedInv
  <2>1. PinsExact
    BY <1>0, PinsInUse DEF InUse
  <2>2. DOMAIN encoded = {}
    BY <1>0 DEF NoFeatures
  <2>3. pins \in [Key -> Nat]
    BY <1>0
  <2> QED
    BY <1>0, <1>1, <2>1, <2>2, <2>3 DEF NeedInv
<1>5. ErrorInv
  BY <1>0 DEF ErrorInv, RefusedOnlyTooLarge
<1> QED
  BY <1>2, <1>3, <1>4, <1>5 DEF IInv

(* A request that comes or goes changes nothing of the store.              *)
LEMMA RequestsKeepIInv ==
    ASSUME IInv, phase = "idle", InputInv', UNCHANGED <<storeVars, resolveVars>>
    PROVE  IInv'
<1>1. /\ entries' = entries /\ values' = values /\ pins' = pins /\ resident' = resident
      /\ phase' = phase /\ need' = need /\ cached' = cached /\ encoded' = encoded /\ error' = error
  BY DEF storeVars, resolveVars
<1>2. Stored' = Stored /\ (PinsExact' <=> PinsExact)
  BY <1>1 DEF Stored, PinsExact
<1>3. StoreInv'
  BY <1>1, <1>2 DEF IInv, StoreInv
<1>4. NeedInv'
  BY <1>1, <1>2 DEF IInv, NeedInv
<1>5. ErrorInv'
  BY <1>1 DEF IInv, ErrorInv, RefusedOnlyTooLarge
<1> QED
  BY <1>3, <1>4, <1>5 DEF IInv

LEMMA AddKeepsIInv ==
    ASSUME IInv, NEW r \in Request, AddSequence(r)
    PROVE  IInv'
<1>1. InputInv'
  BY AddKeepsInputs DEF IInv
<1> QED
  BY <1>1, RequestsKeepIInv DEF AddSequence

LEMMA EndKeepsIInv ==
    ASSUME IInv, NEW r \in Request, End(r)
    PROVE  IInv'
<1>1. {r} \in SUBSET live /\ ReleaseInputs({r}) /\ live' = live \ {r}
  BY DEF End
<1>2. InputInv'
  BY <1>1, ReleaseKeepsInputs DEF IInv
<1> QED
  BY <1>2, RequestsKeepIInv DEF End

LEMMA PrefillKeepsIInv ==
    ASSUME IInv, NEW ks \in Demands, Prefill(ks)
    PROVE  IInv'
<1>1. ks \in Seq(Key) /\ Injective(ks)
  BY DEF Demands
<1>2. /\ phase = "idle" /\ phase' = "lookup" /\ need' = ks
      /\ Range(ks) \subseteq UNION { ImagesOf(r) : r \in live }
      /\ entries' = entries /\ values' = values /\ pins' = pins /\ resident' = resident
      /\ cached' = cached /\ encoded' = encoded /\ error' = error
      /\ live' = live /\ UNCHANGED inputVars
  BY DEF Prefill, storeVars, inputVars
<1>3. Stored' = Stored
  BY <1>2 DEF Stored
<1>4. StoreInv' /\ InputInv'
  BY <1>2, <1>3, NothingKeepsInputs DEF IInv, StoreInv
<1>5. cached = {} /\ encoded = NoFeatures /\ error = "none"
  BY <1>2 DEF IInv, NeedInv, ErrorInv
<1>6. PinsExact'
  <2>1. \A k \in Key : pins[k] = 0
    BY <1>2, PinsInUse DEF IInv, NeedInv, InUse
  <2> QED
    BY <1>2, <2>1 DEF PinsExact
<1>7. DOMAIN NoFeatures = {}
  BY DEF NoFeatures
<1>8. NeedInv'
  BY <1>1, <1>2, <1>3, <1>5, <1>6, <1>7 DEF IInv, NeedInv, ImagesOf
<1>9. ErrorInv'
  BY <1>2, <1>5 DEF ErrorInv, RefusedOnlyTooLarge
<1> QED
  BY <1>4, <1>8, <1>9 DEF IInv

(* What is needed is registered, so nothing is refused for want of inputs. *)
LEMMA NeedRegistered ==
    ASSUME IInv, phase # "idle"
    PROVE  Range(need) \subseteq Registered
<1>1. need \in Seq(Key) /\ Range(need) \subseteq UNION { ImagesOf(r) : r \in live }
  BY DEF IInv, NeedInv
<1>2. Registered = { k \in Key : Users(k) # {} }
  BY DEF IInv, InputInv, InputsWhileLive
<1>3. ASSUME NEW k \in Range(need)
      PROVE  k \in Registered
  <2>1. PICK r \in live : k \in ImagesOf(r)
    BY <1>1
  <2>2. r \in Users(k)
    BY <2>1 DEF Users
  <2>3. k \in Key
    BY <1>1, NeedKeys
  <2> QED
    BY <1>2, <2>2, <2>3
<1> QED
  BY <1>3

LEMMA LookupKeepsIInv ==
    ASSUME IInv, Lookup
    PROVE  IInv'
<1> DEFINE found == Keep(need, Stored)
<1>1. /\ phase = "lookup" /\ Get(need) /\ cached' = Range(need) \cap Stored
      /\ IF Range(need) \ cached' \subseteq Registered
         THEN phase' = (IF cached' = Range(need) THEN "peek" ELSE "pin") /\ UNCHANGED error
         ELSE phase' = "raised" /\ error' = "unregistered"
      /\ UNCHANGED inputVars /\ need' = need /\ encoded' = encoded
  BY DEF Lookup
<1>2. /\ phase' = (IF cached' = Range(need) THEN "peek" ELSE "pin")
      /\ error' = error /\ error = "none"
  <2>1. error = "none"
    BY <1>1 DEF IInv, ErrorInv
  <2> QED
    BY <1>1, <2>1, NeedRegistered
<1>3. need \in Seq(Key) /\ Injective(need) /\ cached = {} /\ encoded = NoFeatures
  BY <1>1 DEF IInv, NeedInv
<1>4. found \in Seq(Key) /\ Injective(found) /\ Range(found) \subseteq Stored
  BY <1>3, KeepNeed
<1>5. StoreInv' /\ Stored' = Stored
  <2>1. entries' = Touch(found) /\ UNCHANGED <<values, resident>>
    BY <1>1 DEF Get
  <2> HIDE DEF found
  <2> QED
    BY <1>4, <2>1, TouchKeepsStore DEF IInv
<1>6. InputInv' /\ live' = live
  BY <1>1, NothingKeepsInputs DEF IInv, inputVars
<1>7. pins' = pins /\ pins \in [Key -> Nat] /\ PinsExact'
  <2>1. \A k \in Key : pins[k] = 0
    BY <1>1, PinsInUse DEF IInv, NeedInv, InUse
  <2>2. pins' = pins
    BY <1>1 DEF Get
  <2>3. phase' \notin {"encode", "put", "unpin", "use", "release"}
    BY <1>2
  <2>4. pins \in [Key -> Nat]
    BY DEF IInv, NeedInv
  <2> QED
    BY <2>1, <2>2, <2>3, <2>4 DEF PinsExact
<1>8. NeedInv'
  <2>1. DOMAIN encoded = {}
    BY <1>3 DEF NoFeatures
  <2>2. Range(need) \subseteq UNION { ImagesOf(r) : r \in live }
    BY <1>1 DEF IInv, NeedInv
  <2>3. /\ phase' \in {"peek", "pin"}
        /\ phase' = "peek" => Range(need) \subseteq Stored
    BY <1>1, <1>2
  <2> QED
    BY <1>1, <1>3, <1>5, <1>6, <1>7, <2>1, <2>2, <2>3 DEF NeedInv, ImagesOf
<1>9. ErrorInv'
  BY <1>2 DEF ErrorInv, RefusedOnlyTooLarge
<1> QED
  BY <1>5, <1>6, <1>8, <1>9 DEF IInv

LEMMA PinCachedKeepsIInv ==
    ASSUME IInv, PinCached
    PROVE  IInv'
<1> DEFINE found == Keep(need, cached)
<1>1. /\ phase = "pin" /\ Pin(found) /\ phase' = "encode" /\ UNCHANGED inputVars
      /\ need' = need /\ cached' = cached /\ encoded' = encoded /\ error' = error
  BY DEF PinCached, Moves
<1>2. /\ need \in Seq(Key) /\ Injective(need) /\ cached = Range(need) \cap Stored
      /\ DOMAIN encoded \subseteq Range(need) /\ error = "none"
      /\ Range(need) \subseteq UNION { ImagesOf(r) : r \in live }
  BY <1>1 DEF IInv, NeedInv, ErrorInv
<1>3. found \in Seq(Key) /\ Injective(found) /\ Range(found) = cached
  BY <1>2, KeepNeed
<1> HIDE DEF found
<1>4. StoreInv' /\ Stored' = Stored
  <2>1. entries' = Touch(found) /\ UNCHANGED <<values, resident>> /\ Range(found) \subseteq Stored
    BY <1>1 DEF Pin
  <2> QED
    BY <1>3, <2>1, TouchKeepsStore DEF IInv
<1>5. InputInv' /\ live' = live
  BY <1>1, NothingKeepsInputs DEF IInv, inputVars
<1>6. pins' \in [Key -> Nat] /\ PinsExact'
  <2>1. pins' = [ k \in Key |-> pins[k] + IF k \in cached THEN 1 ELSE 0 ]
    BY <1>1, <1>3 DEF Pin
  <2>2. \A k \in Key : pins[k] = 0
    BY <1>1, PinsInUse DEF IInv, NeedInv, InUse
  <2>3. pins' = [ k \in Key |-> IF k \in cached THEN 1 ELSE 0 ]
    BY <2>1, <2>2
  <2> QED
    BY <1>1, <2>3 DEF PinsExact
<1>7. NeedInv'
  BY <1>1, <1>2, <1>4, <1>5, <1>6 DEF NeedInv, ImagesOf
<1>8. ErrorInv'
  BY <1>1, <1>2 DEF ErrorInv, RefusedOnlyTooLarge
<1> QED
  BY <1>4, <1>5, <1>7, <1>8 DEF IInv

(* Encoding names the features after the missing images.                   *)
LEMMA EncodedDomain ==
    ASSUME NEW ks \in Seq(Key)
    PROVE  DOMAIN Encoded(ks) = Range(ks)
<1>1. DOMAIN Encoded(ks) = SE!ToSet(ks)
  BY DEF Encoded
<1>2. SE!ToSet(ks) = Range(ks)
  BY DEF SE!ToSet, Range
<1> QED
  BY <1>1, <1>2

LEMMA MissingFacts ==
    ASSUME IInv, phase \in {"pin", "encode", "put"}
    PROVE  /\ Missing \in Seq(Key) /\ Injective(Missing)
           /\ Range(Missing) = Range(need) \ cached
           /\ Range(Missing) \cap Stored = {}
<1>1. need \in Seq(Key) /\ Injective(need) /\ cached = Range(need) \cap Stored
  BY DEF IInv, NeedInv
<1>2. /\ Missing \in Seq(Key) /\ Injective(Missing)
      /\ Range(Missing) = Range(need) \cap (Range(need) \ cached)
  BY <1>1, KeepNeed DEF Missing
<1> QED
  BY <1>1, <1>2

LEMMA EncodeKeepsIInv ==
    ASSUME IInv, Encode
    PROVE  IInv'
<1>1. /\ phase = "encode" /\ UNCHANGED storeVars /\ UNCHANGED inputVars
      /\ need' = need /\ cached' = cached
      /\ \/ phase' = "put" /\ encoded' = Encoded(Missing) /\ error' = error
         \/ phase' = "unpin" /\ error' = "encoder" /\ encoded' = encoded
  BY DEF Encode, Raises
<1>2. entries' = entries /\ values' = values /\ pins' = pins /\ resident' = resident
  BY <1>1 DEF storeVars
<1>3. Stored' = Stored
  BY <1>2 DEF Stored
<1>4. StoreInv'
  BY <1>2, <1>3 DEF IInv, StoreInv
<1>5. InputInv' /\ live' = live
  BY <1>1, NothingKeepsInputs DEF IInv, inputVars
<1>6. DOMAIN encoded' \subseteq Range(need)
  <2>1. DOMAIN encoded \subseteq Range(need)
    BY DEF IInv, NeedInv
  <2>2. DOMAIN Encoded(Missing) = Range(Missing) /\ Range(Missing) \subseteq Range(need)
    BY <1>1, MissingFacts, EncodedDomain
  <2> QED
    BY <1>1, <2>1, <2>2
<1>7. PinsExact'
  <2>1. PinsExact
    BY DEF IInv, NeedInv
  <2>2. phase' \in {"put", "unpin"}
    BY <1>1
  <2> QED
    BY <1>1, <1>2, <2>1, <2>2 DEF PinsExact
<1>8. NeedInv'
  <2>1. /\ need \in Seq(Key) /\ Injective(need) /\ cached = Range(need) \cap Stored
        /\ pins \in [Key -> Nat]
        /\ Range(need) \subseteq UNION { ImagesOf(r) : r \in live }
    BY <1>1 DEF IInv, NeedInv
  <2>2. phase' \in {"put", "unpin"} /\ (phase' = "unpin" => error' # "none")
    BY <1>1
  <2> QED
    BY <1>1, <1>2, <1>3, <1>5, <1>6, <1>7, <2>1, <2>2 DEF NeedInv, ImagesOf
<1>9. ErrorInv'
  <2>1. error = "none"
    BY <1>1 DEF IInv, ErrorInv
  <2> QED
    BY <1>1, <2>1 DEF ErrorInv, RefusedOnlyTooLarge
<1> QED
  BY <1>4, <1>5, <1>8, <1>9 DEF IInv

(* A working set is refused only if it is larger than the budget: all that *)
(* is not pinned may be evicted, and only what it needs is pinned.         *)
LEMMA RefusedTooLarge ==
    ASSUME IInv, phase = "put", ~CanPut(Missing)
    PROVE  Size(Range(need)) > Budget
<1> DEFINE ev == Evictable(Missing)
<1>1. /\ Missing \in Seq(Key) /\ Range(Missing) = Range(need) \ cached
      /\ Range(Missing) \cap Stored = {}
  BY MissingFacts
<1>2. /\ need \in Seq(Key) /\ cached = Range(need) \cap Stored
      /\ \A k \in Key : pins[k] = IF k \in cached THEN 1 ELSE 0
  BY PinsInUse DEF IInv, NeedInv, InUse
<1>3. Range(need) \in SUBSET Key /\ Range(Missing) \in SUBSET Range(need)
  BY <1>1, <1>2, NeedKeys
<1>4. Stored \subseteq Key
  BY NeedKeys DEF IInv, StoreInv, Stored
<1>5. \A k \in Range(Missing) : pins[k] = 0
  BY <1>1, <1>2, <1>3
<1>6. ev \in Seq(Key) /\ Range(ev) = { k \in Stored \ Range(Missing) : pins[k] = 0 }
  BY <1>1, EvictableFacts DEF IInv
<1>7. After(Missing, Len(ev)) = Range(need)
  <2>1. SubSeq(ev, 1, Len(ev)) = ev
    <3> HIDE DEF ev
    <3> QED
      BY <1>6
  <2>2. After(Missing, Len(ev)) = (Stored \cup Range(Missing)) \ Range(ev)
    BY <2>1 DEF After
  <2>3. \A k \in Stored \ Range(Missing) : pins[k] = 0 <=> k \notin Range(need)
    BY <1>2, <1>4
  <2> HIDE DEF ev
  <2> QED
    BY <1>1, <1>2, <1>6, <2>2, <2>3
<1>8. Size(Range(need)) \in Nat /\ Size(Range(Missing)) <= Size(Range(need))
  BY <1>3, SizeFacts
<1>9. Size(Range(Missing)) \in Nat
  BY <1>3, SizeFacts
<1>10. Budget \in Nat
  BY StoreAssumption
<1>11. ~Fits(Missing)
  BY <1>5 DEF CanPut
<1> QED
  BY <1>7, <1>8, <1>9, <1>10, <1>11 DEF Fits

LEMMA PutKeepsIInv ==
    ASSUME IInv, Put
    PROVE  IInv'
<1>1. /\ phase = "put" /\ UNCHANGED inputVars
      /\ need' = need /\ cached' = cached /\ encoded' = encoded /\ phase' = "unpin"
      /\ \/ PutMany(Missing, encoded) /\ error' = error
         \/ ~CanPut(Missing) /\ error' = "budget" /\ UNCHANGED storeVars
  BY DEF Put, Moves, Raises
<1>2. /\ Missing \in Seq(Key) /\ Injective(Missing)
      /\ Range(Missing) = Range(need) \ cached
  BY <1>1, MissingFacts
<1>3. /\ need \in Seq(Key) /\ Injective(need) /\ cached = Range(need) \cap Stored
      /\ DOMAIN encoded \subseteq Range(need) /\ pins \in [Key -> Nat] /\ PinsExact
      /\ Range(need) \subseteq UNION { ImagesOf(r) : r \in live }
      /\ error = "none"
  BY <1>1 DEF IInv, NeedInv, ErrorInv
<1>4. InputInv' /\ live' = live
  BY <1>1, NothingKeepsInputs DEF IInv, inputVars
<1>5. CASE PutMany(Missing, encoded) /\ error' = error
  <2>1. /\ StoreInv' /\ Victims(Missing) \subseteq Range(Evictable(Missing))
        /\ Stored' = (Stored \cup Range(Missing)) \ Victims(Missing)
    BY <1>2, <1>5, PutKeepsStore DEF IInv
  <2>2. Range(Evictable(Missing)) = { k \in Stored \ Range(Missing) : pins[k] = 0 }
    BY <1>2, EvictableFacts DEF IInv
  <2>3. \A k \in cached : pins[k] = 1
    <3>1. cached \subseteq Key
      BY <1>3, NeedKeys
    <3> QED
      BY <1>1, <1>3, <3>1, PinsInUse DEF InUse
  <2>4. Range(need) \subseteq Stored'
    BY <1>2, <1>3, <2>1, <2>2, <2>3
  <2>5. pins' = pins
    BY <1>5 DEF PutMany
  <2>6. PinsExact'
    BY <1>1, <1>3, <2>5 DEF PinsExact
  <2>7. NeedInv'
    BY <1>1, <1>3, <1>4, <2>4, <2>5, <2>6 DEF NeedInv, ImagesOf
  <2>8. ErrorInv'
    BY <1>1, <1>3, <1>5 DEF ErrorInv, RefusedOnlyTooLarge
  <2> QED
    BY <1>4, <2>1, <2>7, <2>8 DEF IInv
<1>6. CASE ~CanPut(Missing) /\ error' = "budget" /\ UNCHANGED storeVars
  <2>1. entries' = entries /\ values' = values /\ pins' = pins /\ resident' = resident
    BY <1>6 DEF storeVars
  <2>2. StoreInv'
    BY <2>1 DEF IInv, StoreInv, Stored
  <2>3. PinsExact'
    BY <1>1, <1>3, <2>1 DEF PinsExact
  <2>4. NeedInv'
    BY <1>1, <1>3, <1>4, <1>6, <2>1, <2>3 DEF NeedInv, ImagesOf
  <2>5. Size(Range(need)) > Budget
    BY <1>1, <1>6, RefusedTooLarge
  <2>6. ErrorInv'
    BY <1>1, <1>6, <2>5 DEF ErrorInv, RefusedOnlyTooLarge
  <2> QED
    BY <1>4, <2>2, <2>4, <2>6 DEF IInv
<1> QED
  BY <1>1, <1>5, <1>6

(* Only the unpinning of what was found; the error is kept.                *)
LEMMA UnpinCachedKeepsIInv ==
    ASSUME IInv, UnpinCached
    PROVE  IInv'
<1>1. /\ phase = "unpin" /\ Unpin(cached) /\ UNCHANGED inputVars
      /\ phase' = (IF error = "none" THEN "peek" ELSE "raised")
      /\ need' = need /\ cached' = cached /\ encoded' = encoded /\ error' = error
  BY DEF UnpinCached, Moves
<1>2. /\ need \in Seq(Key) /\ Injective(need) /\ cached \subseteq Range(need)
      /\ DOMAIN encoded \subseteq Range(need)
      /\ Range(need) \subseteq UNION { ImagesOf(r) : r \in live }
      /\ error = "none" => Range(need) \subseteq Stored
      /\ error \in {"none", "encoder", "budget"} /\ RefusedOnlyTooLarge
  BY <1>1 DEF IInv, NeedInv, ErrorInv
<1>3. /\ pins' = [ k \in Key |-> pins[k] - IF k \in cached THEN 1 ELSE 0 ]
      /\ entries' = entries /\ values' = values /\ resident' = resident
  BY <1>1 DEF Unpin
<1>4. StoreInv' /\ Stored' = Stored
  BY <1>3 DEF IInv, StoreInv, Stored
<1>5. InputInv' /\ live' = live
  BY <1>1, NothingKeepsInputs DEF IInv, inputVars
<1>6. pins' = [ k \in Key |-> 0 ]
  <2>1. \A k \in Key : pins[k] = IF k \in cached THEN 1 ELSE 0
    BY <1>1, PinsInUse DEF IInv, NeedInv, InUse
  <2> QED
    BY <1>3, <2>1
<1>7. phase' \in {"peek", "raised"}
  BY <1>1
<1>8. pins' \in [Key -> Nat] /\ PinsExact'
  BY <1>6, <1>7 DEF PinsExact
<1>9. NeedInv'
  BY <1>1, <1>2, <1>4, <1>5, <1>7, <1>8 DEF NeedInv, ImagesOf
<1>10. ErrorInv'
  BY <1>1, <1>2 DEF ErrorInv, RefusedOnlyTooLarge
<1> QED
  BY <1>4, <1>5, <1>9, <1>10 DEF IInv

LEMMA PinNeedKeepsIInv ==
    ASSUME IInv, PinNeed
    PROVE  IInv'
<1>1. /\ phase = "peek" /\ UNCHANGED inputVars
      /\ need \in Seq(Key) /\ Injective(need) /\ cached \subseteq Range(need)
      /\ DOMAIN encoded \subseteq Range(need) /\ Range(need) \subseteq Stored
      /\ Range(need) \subseteq UNION { ImagesOf(r) : r \in live }
      /\ error = "none"
  BY DEF PinNeed, IInv, NeedInv, ErrorInv
<1>2. /\ Pin(need) /\ phase' = "use"
      /\ need' = need /\ cached' = cached /\ encoded' = encoded /\ error' = error
  BY <1>1 DEF PinNeed, Moves
<1>3. StoreInv' /\ Stored' = Stored
  <2>1. entries' = Touch(need) /\ UNCHANGED <<values, resident>>
    BY <1>2 DEF Pin
  <2> QED
    BY <1>1, <2>1, TouchKeepsStore DEF IInv
<1>4. InputInv' /\ live' = live
  BY <1>1, NothingKeepsInputs DEF IInv, inputVars
<1>5. pins' = [ k \in Key |-> IF k \in Range(need) THEN 1 ELSE 0 ]
  <2>1. \A k \in Key : pins[k] = 0
    BY <1>1, PinsInUse DEF IInv, NeedInv, InUse
  <2>2. pins' = [ k \in Key |-> pins[k] + IF k \in Range(need) THEN 1 ELSE 0 ]
    BY <1>2 DEF Pin
  <2> QED
    BY <2>1, <2>2
<1>6. pins' \in [Key -> Nat] /\ PinsExact'
  BY <1>2, <1>5 DEF PinsExact
<1>7. NeedInv'
  BY <1>1, <1>2, <1>3, <1>4, <1>6 DEF NeedInv, ImagesOf
<1>8. ErrorInv'
  BY <1>1, <1>2 DEF ErrorInv, RefusedOnlyTooLarge
<1> QED
  BY <1>3, <1>4, <1>7, <1>8 DEF IInv

LEMMA UseKeepsIInv ==
    ASSUME IInv, Use
    PROVE  IInv'
<1>1. /\ phase = "use" /\ phase' = "release" /\ UNCHANGED storeVars /\ UNCHANGED inputVars
      /\ need' = need /\ cached' = cached /\ encoded' = encoded
      /\ error' = error \/ error' = "rows"
  BY DEF Use, Moves, Raises
<1>2. /\ need \in Seq(Key) /\ Injective(need) /\ cached \subseteq Range(need)
      /\ DOMAIN encoded \subseteq Range(need) /\ pins \in [Key -> Nat] /\ PinsExact
      /\ Range(need) \subseteq UNION { ImagesOf(r) : r \in live }
      /\ error = "none"
  BY <1>1 DEF IInv, NeedInv, ErrorInv
<1>3. entries' = entries /\ values' = values /\ pins' = pins /\ resident' = resident
  BY <1>1 DEF storeVars
<1>4. StoreInv'
  BY <1>3 DEF IInv, StoreInv, Stored
<1>5. InputInv' /\ live' = live
  BY <1>1, NothingKeepsInputs DEF IInv, inputVars
<1>6. PinsExact'
  BY <1>1, <1>2, <1>3 DEF PinsExact
<1>7. NeedInv'
  BY <1>1, <1>2, <1>3, <1>5, <1>6 DEF NeedInv, ImagesOf
<1>8. ErrorInv'
  BY <1>1, <1>2 DEF ErrorInv, RefusedOnlyTooLarge
<1> QED
  BY <1>4, <1>5, <1>7, <1>8 DEF IInv

LEMMA UnpinNeedKeepsIInv ==
    ASSUME IInv, UnpinNeed
    PROVE  IInv'
<1>1. /\ phase = "release" /\ Unpin(Range(need)) /\ UNCHANGED inputVars
      /\ phase' = (IF error = "none" THEN "idle" ELSE "raised")
      /\ need' = << >> /\ cached' = {} /\ encoded' = NoFeatures /\ error' = error
  BY DEF UnpinNeed
<1>2. error \in {"none", "rows"}
  BY <1>1 DEF IInv, ErrorInv
<1>3. /\ pins' = [ k \in Key |-> pins[k] - IF k \in Range(need) THEN 1 ELSE 0 ]
      /\ entries' = entries /\ values' = values /\ resident' = resident
  BY <1>1 DEF Unpin
<1>4. StoreInv'
  BY <1>3 DEF IInv, StoreInv, Stored
<1>5. InputInv' /\ live' = live
  BY <1>1, NothingKeepsInputs DEF IInv, inputVars
<1>6. pins' = [ k \in Key |-> 0 ]
  <2>1. \A k \in Key : pins[k] = IF k \in Range(need) THEN 1 ELSE 0
    BY <1>1, PinsInUse DEF IInv, NeedInv, InUse
  <2> QED
    BY <1>3, <2>1
<1>7. phase' \in {"idle", "raised"}
  BY <1>1
<1>8. pins' \in [Key -> Nat] /\ PinsExact'
  BY <1>6, <1>7 DEF PinsExact
<1>9. NeedInv'
  <2>1. Range(<< >>) = {} /\ Injective(<< >>) /\ << >> \in Seq(Key)
    BY DEF Range, Injective
  <2>2. DOMAIN NoFeatures = {}
    BY DEF NoFeatures
  <2> QED
    BY <1>1, <1>7, <1>8, <2>1, <2>2 DEF NeedInv
<1>10. ErrorInv'
  BY <1>1, <1>2 DEF ErrorInv, RefusedOnlyTooLarge
<1> QED
  BY <1>4, <1>5, <1>9, <1>10 DEF IInv

LEMMA FailedKeepsIInv ==
    ASSUME IInv, Failed
    PROVE  IInv'
<1>1. /\ phase = "raised" /\ phase' = "idle" /\ UNCHANGED storeVars
      /\ need' = << >> /\ cached' = {} /\ encoded' = NoFeatures /\ error' = "none"
      /\ (ReleaseInputs(live) /\ live' = {}) \/ UNCHANGED inputVars
  BY DEF Failed
<1>2. entries' = entries /\ values' = values /\ pins' = pins /\ resident' = resident
  BY <1>1 DEF storeVars
<1>3. StoreInv'
  BY <1>2 DEF IInv, StoreInv, Stored
<1>4. InputInv'
  <2>1. CASE ReleaseInputs(live) /\ live' = {}
    <3>1. live \in SUBSET live /\ live' = live \ live
      BY <2>1
    <3> QED
      BY <2>1, <3>1, ReleaseKeepsInputs DEF IInv
  <2>2. CASE UNCHANGED inputVars
    BY <2>2, NothingKeepsInputs DEF IInv
  <2> QED
    BY <1>1, <2>1, <2>2
<1>5. pins \in [Key -> Nat] /\ PinsExact'
  <2>1. \A k \in Key : pins[k] = 0
    BY <1>1, PinsInUse DEF IInv, NeedInv, InUse
  <2>2. pins \in [Key -> Nat]
    BY DEF IInv, NeedInv
  <2> QED
    BY <1>1, <1>2, <2>1, <2>2 DEF PinsExact
<1>6. NeedInv'
  <2>1. Range(<< >>) = {} /\ Injective(<< >>) /\ << >> \in Seq(Key)
    BY DEF Range, Injective
  <2>2. DOMAIN NoFeatures = {}
    BY DEF NoFeatures
  <2> QED
    BY <1>1, <1>2, <1>5, <2>1, <2>2 DEF NeedInv
<1>7. ErrorInv'
  BY <1>1 DEF ErrorInv, RefusedOnlyTooLarge
<1> QED
  BY <1>3, <1>4, <1>6, <1>7 DEF IInv

LEMMA StutterKeepsIInv ==
    ASSUME IInv, UNCHANGED vars
    PROVE  IInv'
<1>1. /\ entries' = entries /\ values' = values /\ pins' = pins /\ resident' = resident
      /\ phase' = phase /\ need' = need /\ cached' = cached /\ encoded' = encoded /\ error' = error
      /\ live' = live /\ UNCHANGED inputVars
  BY DEF vars, storeVars, inputVars, resolveVars
<1>2. Stored' = Stored /\ (PinsExact' <=> PinsExact)
  BY <1>1 DEF Stored, PinsExact
<1>3. StoreInv' /\ InputInv'
  BY <1>1, <1>2, NothingKeepsInputs DEF IInv, StoreInv
<1>4. NeedInv' /\ ErrorInv'
  BY <1>1, <1>2 DEF IInv, NeedInv, ErrorInv, RefusedOnlyTooLarge, ImagesOf
<1> QED
  BY <1>3, <1>4 DEF IInv

LEMMA NextKeepsIInv ==
    ASSUME IInv, [Next]_vars
    PROVE  IInv'
<1>1. ASSUME NEW r \in Request, AddSequence(r) \/ End(r)
      PROVE  IInv'
  BY <1>1, AddKeepsIInv, EndKeepsIInv
<1>2. ASSUME NEW ks \in Demands, Prefill(ks)
      PROVE  IInv'
  BY <1>2, PrefillKeepsIInv
<1>3. CASE ResolvePinned
  <2>1. CASE Lookup
    BY <2>1, LookupKeepsIInv
  <2>2. CASE PinCached
    BY <2>2, PinCachedKeepsIInv
  <2>3. CASE Encode
    BY <2>3, EncodeKeepsIInv
  <2>4. CASE Put
    BY <2>4, PutKeepsIInv
  <2>5. CASE UnpinCached
    BY <2>5, UnpinCachedKeepsIInv
  <2>6. CASE PinNeed
    BY <2>6, PinNeedKeepsIInv
  <2>7. CASE Use
    BY <2>7, UseKeepsIInv
  <2>8. CASE UnpinNeed
    BY <2>8, UnpinNeedKeepsIInv
  <2> QED
    BY <1>3, <2>1, <2>2, <2>3, <2>4, <2>5, <2>6, <2>7, <2>8 DEF ResolvePinned
<1>4. CASE Failed
  BY <1>4, FailedKeepsIInv
<1>5. CASE UNCHANGED vars
  BY <1>5, StutterKeepsIInv
<1> QED
  BY <1>1, <1>2, <1>3, <1>4, <1>5 DEF Next

(* Every reachable state satisfies the invariant.                          *)
THEOREM FeatureInvariant == Spec => []IInv
<1>1. Init => IInv
  BY InitIInv
<1>2. IInv /\ [Next]_vars => IInv'
  BY NextKeepsIInv
<1> QED
  BY <1>1, <1>2, PTL DEF Spec

(* The variables have their types, and the bytes of the features in the    *)
(* cache add up to what is recorded, never more than the budget.           *)
THEOREM FeaturesTypeCorrect == Spec => []TypeOK
<1>1. IInv => TypeOK
  <2> SUFFICES ASSUME IInv
               PROVE  TypeOK
    OBVIOUS
  <2>1. Stored \subseteq Key /\ Range(need) \subseteq Key
    BY NeedKeys DEF IInv, StoreInv, NeedInv, Stored
  <2>2. Registered \subseteq Key
    BY DEF IInv, InputInv, InputsWhileLive
  <2>3. error \in {"none", "unregistered", "encoder", "budget", "lost", "rows"}
    BY DEF IInv, ErrorInv
  <2> QED
    BY <2>1, <2>2, <2>3 DEF TypeOK, IInv, StoreInv, InputInv, NeedInv, ErrorInv
<1> QED
  BY <1>1, FeatureInvariant, PTL

(* An image is registered as often as live requests may still prefill it,  *)
(* whatever requests come, end or fail, and however images are shared.     *)
THEOREM RegisteredWhileLive == Spec => []InputsWhileLive
<1>1. IInv => InputsWhileLive
  BY DEF IInv, InputInv
<1> QED
  BY <1>1, FeatureInvariant, PTL

(* By whatever way a prefill ends, exactly the features in use are pinned. *)
THEOREM PinsAlwaysExact == Spec => []PinsExact
<1>1. IInv => PinsExact
  BY DEF IInv, NeedInv
<1> QED
  BY <1>1, FeatureInvariant, PTL

(* A prefill is refused only if its own images exceed the budget: what the *)
(* cache holds is never in the way, and nothing needed is lost.            *)
THEOREM NeverRefusedByTheCache == Spec => []RefusedOnlyTooLarge
<1>1. IInv => RefusedOnlyTooLarge
  BY DEF IInv, ErrorInv
<1> QED
  BY <1>1, FeatureInvariant, PTL

(***************************************************************************)
(* Eviction.                                                               *)
(***************************************************************************)

(* Nothing leaves the cache but for a new working set.                     *)
LEMMA EvictsOnlyInPut ==
    ASSUME IInv, [Next]_vars
    PROVE  Stored' = Stored \/ (phase = "put" /\ PutMany(Missing, encoded))
<1>1. CASE entries' = entries
  BY <1>1 DEF Stored
<1>2. CASE Lookup
  <2> DEFINE found == Keep(need, Stored)
  <2>1. found \in Seq(Key) /\ Injective(found) /\ Range(found) \subseteq Stored
    BY KeepNeed DEF IInv, NeedInv
  <2>2. entries' = Touch(found) /\ UNCHANGED <<values, resident>>
    BY <1>2 DEF Lookup, Get
  <2> HIDE DEF found
  <2> QED
    BY <2>1, <2>2, TouchKeepsStore DEF IInv
<1>3. CASE PinCached
  <2> DEFINE found == Keep(need, cached)
  <2>1. found \in Seq(Key) /\ Injective(found)
    BY KeepNeed DEF IInv, NeedInv
  <2>2. /\ entries' = Touch(found) /\ UNCHANGED <<values, resident>>
        /\ Range(found) \subseteq Stored
    BY <1>3 DEF PinCached, Pin
  <2> HIDE DEF found
  <2> QED
    BY <2>1, <2>2, TouchKeepsStore DEF IInv
<1>4. CASE PinNeed
  <2>1. need \in Seq(Key) /\ Injective(need)
    BY DEF IInv, NeedInv
  <2>2. CASE Range(need) \subseteq Stored
    <3>1. entries' = Touch(need) /\ UNCHANGED <<values, resident>>
      BY <1>4, <2>2 DEF PinNeed, Pin
    <3> QED
      BY <2>1, <2>2, <3>1, TouchKeepsStore DEF IInv
  <2>3. CASE ~(Range(need) \subseteq Stored)
    BY <1>1, <1>4, <2>3 DEF PinNeed, storeVars
  <2> QED
    BY <2>2, <2>3
<1>5. CASE Put
  BY <1>1, <1>5 DEF Put, storeVars
<1>6. ASSUME NEW r \in Request, AddSequence(r) \/ End(r)
      PROVE  entries' = entries
  BY <1>6 DEF AddSequence, End, storeVars
<1>7. ASSUME NEW ks \in Demands, Prefill(ks)
      PROVE  entries' = entries
  BY <1>7 DEF Prefill, storeVars
<1>8. CASE Encode \/ UnpinCached \/ Use \/ UnpinNeed \/ Failed
  BY <1>1, <1>8 DEF Encode, UnpinCached, Use, UnpinNeed, Failed, Unpin, storeVars
<1>9. CASE UNCHANGED vars
  BY <1>1, <1>9 DEF vars, storeVars
<1> QED
  BY <1>1, <1>2, <1>3, <1>4, <1>5, <1>6, <1>7, <1>8, <1>9 DEF Next, ResolvePinned

(* Where the evictable entries are, least recently used first.             *)
LEMMA EvictableOrder ==
    ASSUME StoreInv, NEW ks \in Seq(Key)
    PROVE  \E at \in [1..Len(Evictable(ks)) -> 1..Len(entries)] :
              /\ \A a \in 1..Len(Evictable(ks)) : Evictable(ks)[a] = entries[at[a]]
              /\ \A a, b \in 1..Len(Evictable(ks)) : a < b => at[a] < at[b]
<1> DEFINE kept == Retained(ks)
           ev   == Evictable(ks)
<1>1. entries \in Seq(Key) /\ kept \in Seq(Key)
  BY KeepProperties DEF StoreInv, Retained
<1>2. PICK there \in [1..Len(kept) -> 1..Len(entries)] :
        /\ \A j \in 1..Len(kept) : kept[j] = entries[there[j]]
        /\ \A i, j \in 1..Len(kept) : i < j => there[i] < there[j]
  BY <1>1, KeepOrder DEF Retained
<1>3. PICK back \in [1..Len(ev) -> 1..Len(kept)] :
        /\ \A j \in 1..Len(ev) : ev[j] = kept[back[j]]
        /\ \A i, j \in 1..Len(ev) : i < j => back[i] < back[j]
  <2> DEFINE U == { k \in Stored : pins[k] = 0 }
  <2>1. ev = Keep(kept, U)
    BY DEF Evictable
  <2> HIDE DEF kept, ev, U
  <2>2. \E back \in [1..Len(Keep(kept, U)) -> 1..Len(kept)] :
          /\ \A j \in 1..Len(Keep(kept, U)) : Keep(kept, U)[j] = kept[back[j]]
          /\ \A i, j \in 1..Len(Keep(kept, U)) : i < j => back[i] < back[j]
    BY <1>1, KeepOrder
  <2> QED
    BY <2>1, <2>2
<1> DEFINE at == [ a \in 1..Len(ev) |-> there[back[a]] ]
<1> HIDE DEF kept, ev
<1>4. at \in [1..Len(ev) -> 1..Len(entries)]
  BY <1>2, <1>3
<1>5. /\ \A a \in 1..Len(ev) : ev[a] = entries[at[a]]
      /\ \A a, b \in 1..Len(ev) : a < b => at[a] < at[b]
  BY <1>2, <1>3
<1> HIDE DEF at
<1> QED
  BY <1>4, <1>5 DEF ev

LEMMA EvictsInOrder ==
    ASSUME IInv, phase = "put", PutMany(Missing, encoded),
           NEW i \in DOMAIN entries, entries[i] \in Stored \ Stored'
    PROVE  /\ pins[entries[i]] = 0
           /\ \A j \in 1..i : entries[j] \in Stored \ Stored' \/ pins[entries[j]] > 0
           /\ \/ \E j \in DOMAIN entries : j > i /\ entries[j] \in Stored \ Stored'
              \/ resident' + Bytes[entries[i]] > Budget
<1> DEFINE ks == Missing
           ev == Evictable(ks)
<1>1. ks \in Seq(Key) /\ Injective(ks) /\ Range(ks) \cap Stored = {}
  BY MissingFacts
<1>2. /\ StoreInv /\ entries \in Seq(Key) /\ Injective(entries) /\ pins \in [Key -> Nat]
      /\ Stored \subseteq Key
  BY NeedKeys DEF IInv, StoreInv, NeedInv, Stored
<1>3. /\ ev \in Seq(Key) /\ Injective(ev) /\ Len(ev) \in Nat
      /\ Range(ev) = { k \in Stored \ Range(ks) : pins[k] = 0 }
  BY <1>1, <1>2, EvictableFacts
<1>4. PICK n \in 0..Len(ev) :
        /\ Victims(ks) = Range(SubSeq(ev, 1, n))
        /\ \A m \in 0..n - 1 : ~(Size(After(ks, m)) <= Budget)
  BY <1>1, <1>2, VictimsFacts DEF PutMany, CanPut
<1>5. PICK at \in [1..Len(ev) -> 1..Len(entries)] :
        /\ \A a \in 1..Len(ev) : ev[a] = entries[at[a]]
        /\ \A a, b \in 1..Len(ev) : a < b => at[a] < at[b]
  BY <1>1, <1>2, EvictableOrder
<1>6. /\ StoreInv' /\ Victims(ks) \subseteq Range(ev)
      /\ Stored' = (Stored \cup Range(ks)) \ Victims(ks)
  <2> HIDE DEF ks
  <2>1. PutMany(ks, encoded)
    BY DEF ks
  <2> QED
    BY <1>1, <1>2, <2>1, PutKeepsStore
<1>7. Stored \ Stored' = Victims(ks)
  BY <1>1, <1>3, <1>6
<1>8. After(ks, n) = Stored'
  BY <1>4, <1>6 DEF After
<1> HIDE DEF ks, ev
<1>9. ASSUME NEW m \in 0..Len(ev)
      PROVE  Range(SubSeq(ev, 1, m)) = { ev[a] : a \in 1..m }
  <2>1. DOMAIN SubSeq(ev, 1, m) = 1..m /\ \A a \in 1..m : SubSeq(ev, 1, m)[a] = ev[a]
    BY <1>3
  <2> QED
    BY <2>1 DEF Range
<1>10. \A k : k \in Stored \ Stored' <=> \E a \in 1..n : k = ev[a]
  BY <1>4, <1>7, <1>9
<1>11. PICK a \in 1..n : entries[i] = ev[a]
  BY <1>10
<1>12. DOMAIN entries = 1..Len(entries) /\ Len(entries) \in Nat
  BY <1>2
<1>13. a \in 1..Len(ev) /\ n \in Nat /\ a \in Nat /\ a <= n /\ n <= Len(ev)
  BY <1>3, <1>4, <1>11
<1>14. at[a] = i
  BY <1>2, <1>5, <1>11, <1>12, <1>13 DEF Injective
<1>15. pins[entries[i]] = 0
  <2>1. entries[i] \in Range(ev)
    BY <1>6, <1>7
  <2> QED
    BY <1>3, <2>1
<1>16. ASSUME NEW j \in 1..i, ~(pins[entries[j]] > 0)
       PROVE  entries[j] \in Stored \ Stored'
  <2>1. j \in 1..Len(entries) /\ entries[j] \in Stored
    BY <1>12 DEF Stored, Range
  <2>2. pins[entries[j]] = 0
    BY <1>2, <1>16, <2>1
  <2>3. entries[j] \in Range(ev)
    BY <1>1, <1>3, <2>1, <2>2
  <2>4. PICK b \in 1..Len(ev) : entries[j] = ev[b]
    BY <1>3, <2>3 DEF Range
  <2>5. at[b] = j
    BY <1>2, <1>5, <2>1, <2>4 DEF Injective
  <2>6. b <= a
    <3>1. CASE a < b
      <4>1. at[a] < at[b]
        BY <1>5, <1>13, <2>4, <3>1
      <4> QED
        BY <1>12, <1>14, <2>1, <2>5, <4>1
    <3> QED
      BY <1>13, <3>1
  <2>7. b \in 1..n
    BY <1>13, <2>4, <2>6
  <2> QED
    BY <1>10, <2>4, <2>7
<1>17. CASE a < n
  <2>1. n \in 1..Len(ev) /\ at[n] \in DOMAIN entries /\ at[n] > i
    BY <1>5, <1>12, <1>13, <1>14, <1>17
  <2>2. entries[at[n]] = ev[n] /\ n \in 1..n
    BY <1>5, <1>13, <2>1
  <2>3. entries[at[n]] \in Stored \ Stored'
    BY <1>10, <2>2
  <2> QED
    BY <1>15, <1>16, <2>1, <2>3
<1>18. CASE a = n
  <2>1. n - 1 \in 0..n - 1 /\ n - 1 \in 0..Len(ev)
    BY <1>13, <1>18
  <2>2. ~(Size(After(ks, n - 1)) <= Budget)
    BY <1>4, <2>1
  <2>3. After(ks, n - 1) = (Stored \cup Range(ks)) \ { ev[b] : b \in 1..n - 1 }
    BY <1>9, <2>1 DEF After, ev
  <2>4. Stored' = (Stored \cup Range(ks)) \ { ev[b] : b \in 1..n }
    BY <1>4, <1>6, <1>9
  <2>5. ev[n] \in Stored /\ ev[n] \notin { ev[b] : b \in 1..n - 1 }
    <3>1. ev[n] \in Range(ev)
      BY <1>3, <1>13, <1>18 DEF Range
    <3>2. \A b \in 1..n - 1 : ev[b] # ev[n]
      BY <1>3, <1>13, <1>18 DEF Injective
    <3> QED
      BY <1>3, <3>1, <3>2
  <2>6. ev[n] \in After(ks, n - 1) /\ Stored' = After(ks, n - 1) \ {ev[n]}
    <3>1. \A b : b \in 1..n <=> b \in 1..n - 1 \/ b = n
      BY <1>13, <1>18
    <3>2. { ev[b] : b \in 1..n } = { ev[b] : b \in 1..n - 1 } \cup {ev[n]}
      BY <3>1
    <3> QED
      BY <2>3, <2>4, <2>5, <3>2
  <2>7. After(ks, n - 1) \in SUBSET Key
    BY <1>1, <1>2, <2>3, NeedKeys
  <2>8. /\ Size(After(ks, n - 1)) \in Nat
        /\ Size(After(ks, n - 1)) = Bytes[ev[n]] + Size(Stored')
    <3>1. PICK rest \in SUBSET Key : rest = After(ks, n - 1)
      BY <2>7
    <3>2. PICK k \in rest : k = ev[n]
      BY <2>6, <3>1
    <3>3. Size(rest) \in Nat /\ Size(rest) = Bytes[k] + Size(rest \ {k})
      BY SizeFacts
    <3> QED
      BY <2>6, <3>1, <3>2, <3>3
  <2>9. resident' = Size(Stored')
    BY <1>6 DEF StoreInv
  <2>10. Budget \in Nat
    BY StoreAssumption
  <2>11. Bytes[ev[n]] + Size(Stored') > Budget
    BY <2>2, <2>8, <2>10
  <2>12. /\ Bytes[ev[n]] \in Nat /\ Size(Stored') \in Nat
    <3>1. ev[n] \in Key
      BY <2>6, <2>7
    <3>2. Stored' \in SUBSET Key
      BY <2>6, <2>7
    <3>3. \A K \in SUBSET Key : Size(K) \in Nat
      BY SizeFacts
    <3> QED
      BY <3>1, <3>2, <3>3, StoreAssumption
  <2>13. resident' + Bytes[entries[i]] > Budget
    BY <1>11, <1>18, <2>9, <2>11, <2>12
  <2> QED
    BY <1>15, <1>16, <2>13
<1> QED
  BY <1>13, <1>17, <1>18

(* Evictions hit the least recently used of the features not in use, and   *)
(* stop as soon as the new ones fit.                                       *)
THEOREM EvictsLeastRecentlyUsed == Spec => EvictsAsNeeded
<1> DEFINE Step ==
      LET gone == Stored \ Stored'
      IN  \A i \in DOMAIN entries :
            entries[i] \in gone =>
              /\ pins[entries[i]] = 0
              /\ \A j \in 1..i : entries[j] \in gone \/ pins[entries[j]] > 0
              /\ \/ \E j \in DOMAIN entries : j > i /\ entries[j] \in gone
                 \/ resident' + Bytes[entries[i]] > Budget
<1>1. IInv /\ [Next]_vars => Step
  <2> SUFFICES ASSUME IInv, [Next]_vars, NEW i \in DOMAIN entries,
                      entries[i] \in Stored \ Stored'
               PROVE  /\ pins[entries[i]] = 0
                      /\ \A j \in 1..i : entries[j] \in Stored \ Stored' \/ pins[entries[j]] > 0
                      /\ \/ \E j \in DOMAIN entries : j > i /\ entries[j] \in Stored \ Stored'
                         \/ resident' + Bytes[entries[i]] > Budget
    OBVIOUS
  <2>1. phase = "put" /\ PutMany(Missing, encoded)
    BY EvictsOnlyInPut
  <2> QED
    BY <2>1, EvictsInOrder
<1>2. IInv /\ [Next]_vars => [Step]_vars
  BY <1>1
<1> QED
  BY <1>2, FeatureInvariant, PTL DEF Spec, EvictsAsNeeded

(***************************************************************************)
(* The features of an image: the orders of its patches.                    *)
(***************************************************************************)

(* A number of two digits.                                                 *)
LEMMA Digits ==
    ASSUME NEW B \in Nat \ {0}, NEW q \in Nat, NEW r \in 0..B - 1
    PROVE  /\ q * B + r \in Nat
           /\ (q * B + r) \div B = q /\ (q * B + r) % B = r
<1> DEFINE p == q * B
           n == p + r
<1>1. p \in Nat /\ (q + 1) * B = p + B /\ q * B = p
  OBVIOUS
<1>2. r \in Nat /\ r < B
  OBVIOUS
<1>0. \A k \in Nat : q * B <= k /\ k < (q + 1) * B => k \div B = q /\ k % B = k - q * B
  BY Quotient
<1> HIDE DEF p
<1>3. n \in Nat /\ p <= n /\ n < p + B /\ n - p = r
  BY <1>1, <1>2
<1> HIDE DEF n
<1>4. n \div B = q /\ n % B = n - q * B
  BY <1>0, <1>1, <1>3
<1>5. n \div B = q /\ n % B = r
  BY <1>1, <1>3, <1>4
<1> QED BY <1>1, <1>3, <1>5 DEF n

(* The digits make a number below the product of the bases.                *)
LEMMA DigitsBelow ==
    ASSUME NEW B \in Nat \ {0}, NEW A \in Nat \ {0}, NEW q \in 0..A - 1, NEW r \in 0..B - 1
    PROVE  q * B + r \in 0..A * B - 1
<1> DEFINE p == q * B
           s == A * B
<1>1. p \in Nat /\ s \in Nat /\ q + 1 <= A /\ q \in Nat
  OBVIOUS
<1>2. (q + 1) * B <= A * B /\ (q + 1) * B = p + B
  BY <1>1
<1>3. p + B <= s
  BY <1>2
<1> HIDE DEF p, s
<1>4. p + r \in 0..s - 1
  BY <1>1, <1>3
<1> QED BY <1>4 DEF p, s

LEMMA DigitsOf ==
    ASSUME NEW B \in Nat \ {0}, NEW A \in Nat \ {0}, NEW n \in 0..A * B - 1
    PROVE  n \div B \in 0..A - 1 /\ n % B \in 0..B - 1 /\ n = (n \div B) * B + (n % B)
<1> DEFINE s == A * B
           q == n \div B
           r == n % B
<1>1. s \in Nat /\ n \in 0..s - 1
  OBVIOUS
<1> HIDE DEF s
<1>2. n \in Nat /\ n < s
  BY <1>1
<1>3. q \in Nat /\ r \in 0..B - 1 /\ n = B * q + r /\ \A k \in Nat : n < k * B => q < k
  BY <1>2, Quotient
<1>4. q < A
  BY <1>2, <1>3 DEF s
<1> HIDE DEF q, r
<1>5. q \in 0..A - 1
  BY <1>3, <1>4
<1>6. B * q = q * B
  BY <1>3
<1> QED BY <1>3, <1>5, <1>6 DEF q, r

(* The patch with digits f, R, C, a, b: of frame f, in the square at       *)
(* <<R, C>>, at <<a, b>> within that.                                      *)
LaidOut(M, H, W, u, A, F, f, R, C, a, b, n, J, e, K) ==
    /\ M \in Nat \ {0} /\ H \in Nat \ {0} /\ W \in Nat \ {0}
    /\ f \in Nat /\ R \in 0..H - 1 /\ C \in 0..W - 1 /\ a \in 0..M - 1 /\ b \in 0..M - 1
    /\ u = M * M /\ A = H * W /\ F = A * u
    /\ n = R * W + C /\ J = f * A + n /\ e = a * M + b /\ K = J * u + e

LEMMA Layout ==
    ASSUME NEW M, NEW H, NEW W, NEW u, NEW A, NEW F, NEW f, NEW R, NEW C, NEW a, NEW b,
           NEW n, NEW J, NEW e, NEW K, LaidOut(M, H, W, u, A, F, f, R, C, a, b, n, J, e, K)
    PROVE  /\ u \in Nat \ {0} /\ A \in Nat \ {0} /\ F \in Nat \ {0}
           /\ n \in 0..A - 1 /\ e \in 0..u - 1 /\ J \in Nat /\ K \in Nat
           /\ n \div W = R /\ n % W = C /\ e \div M = a /\ e % M = b
           /\ J \div A = f /\ J % A = n /\ K \div u = J /\ K % u = e
           /\ K \div F = f /\ K % F = n * u + e
           /\ n * u + e \in 0..F - 1
           /\ (n * u + e) \div u = n
           /\ ((n * u + e) \div M) % M = a /\ (n * u + e) % M = b
           /\ K % M = b /\ (K \div M) % M = a
           /\ J % W = C /\ (J \div W) % H = R /\ K \div (u * W) = J \div W
<1>0. /\ M \in Nat \ {0} /\ H \in Nat \ {0} /\ W \in Nat \ {0}
      /\ f \in Nat /\ R \in 0..H - 1 /\ C \in 0..W - 1 /\ a \in 0..M - 1 /\ b \in 0..M - 1
  BY DEF LaidOut
<1>m. u = M * M /\ A = H * W
  BY DEF LaidOut
<1>n. n = R * W + C
  BY DEF LaidOut
<1>e. e = a * M + b
  BY DEF LaidOut
<1>j. J = f * A + n
  BY DEF LaidOut
<1>k. K = J * u + e
  BY DEF LaidOut
<1>f. F = A * u
  BY DEF LaidOut
<1>1. u \in Nat \ {0} /\ A \in Nat \ {0}
  BY <1>0, <1>m
<1>2. F \in Nat \ {0}
  BY <1>1, <1>f
<1>3. n \in 0..A - 1 /\ e \in 0..u - 1
  BY <1>0, <1>m, <1>n, <1>e, DigitsBelow
<1>4. n \in Nat /\ e \in Nat /\ n \div W = R /\ n % W = C /\ e \div M = a /\ e % M = b
  BY <1>0, <1>n, <1>e, Digits
<1>5. J \in Nat /\ J \div A = f /\ J % A = n
  BY <1>0, <1>1, <1>3, <1>j, Digits
<1>6. K \in Nat /\ K \div u = J /\ K % u = e
  BY <1>1, <1>3, <1>5, <1>k, Digits
<1>7. n * u + e \in 0..F - 1 /\ (n * u + e) \div u = n
  BY <1>1, <1>3, <1>4, <1>f, DigitsBelow, Digits
<1>8. K \div F = f /\ K % F = n * u + e
  <2>1. K = f * F + (n * u + e)
    <3>1. J * u = (f * A) * u + n * u
      BY <1>0, <1>1, <1>4, <1>j
    <3>2. (f * A) * u = f * F
      BY <1>0, <1>1, <1>f
    <3>3. J * u \in Nat /\ f * F \in Nat /\ n * u \in Nat
      BY <1>0, <1>1, <1>2, <1>4, <1>5
    <3> DEFINE x == J * u
               y == f * F
               z == n * u
    <3>4. x = y + z /\ x \in Nat /\ y \in Nat /\ z \in Nat /\ K = x + e
      BY <1>k, <3>1, <3>2, <3>3
    <3> HIDE DEF x, y, z
    <3>5. K = y + (z + e)
      BY <1>4, <3>4
    <3> QED BY <3>5 DEF y, z
  <2> DEFINE r == n * u + e
  <2>2. r \in 0..F - 1 /\ K = f * F + r
    BY <1>7, <2>1
  <2> HIDE DEF r
  <2>3. K \div F = f /\ K % F = r
    BY <1>0, <1>2, <2>2, Digits
  <2> QED BY <2>3 DEF r
<1>9. ASSUME NEW x \in Nat PROVE ((x * u + e) \div M) % M = a /\ (x * u + e) % M = b
  <2> DEFINE y == x * M + a
  <2>1. y \in Nat /\ y % M = a
    BY <1>0, Digits
  <2>2. x * u + e = y * M + b
    <3>1. x * u = (x * M) * M
      BY <1>0, <1>m
    <3>2. y * M = (x * M) * M + a * M
      BY <1>0
    <3>3. (x * M) * M \in Nat /\ a * M \in Nat
      BY <1>0
    <3> DEFINE p == (x * M) * M
               q == a * M
    <3>4. x * u = p /\ y * M = p + q /\ e = q + b /\ p \in Nat /\ q \in Nat
      BY <1>e, <3>1, <3>2, <3>3
    <3> HIDE DEF p, q, y
    <3> QED BY <1>0, <3>4
  <2> HIDE DEF y
  <2>3. (y * M + b) \div M = y /\ (y * M + b) % M = b
    BY <1>0, <2>1, Digits
  <2> QED BY <2>1, <2>2, <2>3
<1>10. J % W = C /\ (J \div W) % H = R /\ K \div (u * W) = J \div W
  <2> DEFINE x == f * H + R
             B == u * W
  <2>1. x \in Nat /\ x % H = R
    BY <1>0, Digits
  <2>2. J = x * W + C
    <3>1. f * A = (f * H) * W
      BY <1>0, <1>m
    <3>2. x * W = (f * H) * W + R * W
      BY <1>0
    <3>4. (f * H) * W \in Nat /\ R * W \in Nat
      BY <1>0
    <3> DEFINE p == (f * H) * W
               q == R * W
    <3>3. f * A = p /\ x * W = p + q /\ n = q + C /\ p \in Nat /\ q \in Nat
      BY <1>n, <3>1, <3>2, <3>4
    <3> HIDE DEF p, q, x
    <3> QED BY <1>0, <1>j, <3>3
  <2> HIDE DEF x
  <2>3. J \div W = x /\ J % W = C
    BY <1>0, <2>1, <2>2, Digits
  <2>4. B \in Nat \ {0} /\ W * u = B
    BY <1>0, <1>1
  <2>5. C * u + e \in 0..B - 1
    BY <1>0, <1>1, <1>3, <2>4, DigitsBelow
  <2>6. K = x * B + (C * u + e)
    <3>1. J * u = (x * W) * u + C * u
      BY <1>0, <1>1, <2>1, <2>2
    <3>2. (x * W) * u = x * B
      BY <1>0, <1>1, <2>1
    <3>3. x * B \in Nat /\ C * u \in Nat
      BY <1>0, <1>1, <2>1, <2>4
    <3> DEFINE p == x * B
               q == C * u
               s == J * u
    <3>4. s = p + q /\ K = s + e /\ p \in Nat /\ q \in Nat
      BY <1>k, <3>1, <3>2, <3>3
    <3> HIDE DEF p, q, s
    <3>5. K = p + (q + e)
      BY <1>4, <3>4
    <3> QED BY <3>5 DEF p, q
  <2> DEFINE r == C * u + e
  <2>7. r \in 0..B - 1 /\ K = x * B + r
    BY <2>5, <2>6
  <2> HIDE DEF B, r
  <2>8. K \div B = x
    BY <2>1, <2>4, <2>7, Digits
  <2> QED BY <2>1, <2>3, <2>8 DEF B
<1>11. ((n * u + e) \div M) % M = a /\ (n * u + e) % M = b
  BY <1>4, <1>9
<1>12. K % M = b /\ (K \div M) % M = a
  BY <1>5, <1>9, <1>k
<1> QED BY <1>1, <1>2, <1>3, <1>4, <1>5, <1>6, <1>7, <1>8, <1>10, <1>11, <1>12

(* What the prompt builder and the tower accept of an image.               *)
LEMMA GridOf ==
    ASSUME NEW im \in Key
    PROVE  LET g == Grid[im] IN
           /\ MergeSize \in Nat \ {0} /\ g.t \in Nat \ {0}
           /\ Height(g) \in Nat \ {0} /\ Width(g) \in Nat \ {0}
           /\ g.h = Height(g) * MergeSize /\ g.w = Width(g) * MergeSize
           /\ g.h \in Nat \ {0} /\ g.w \in Nat \ {0}
           /\ FrameSize(g) = (Height(g) * Width(g)) * (MergeSize * MergeSize)
           /\ TokenCount(g) = g.t * (Height(g) * Width(g)) /\ TokenCount(g) \in Nat \ {0}
           /\ PatchCount(g) = TokenCount(g) * (MergeSize * MergeSize)
           /\ PatchCount(g) = g.t * FrameSize(g) /\ PatchCount(g) \in Nat \ {0}
<1> DEFINE g == Grid[im]
           M == MergeSize
           H == Height(g)
           W == Width(g)
<1>1. g \in [t : Nat, h : Nat, w : Nat] /\ TowerAccepts(<<im>>, PatchCount(g)) /\ M \in Nat \ {0}
  BY VisionAssumption, MetadataAssumption
<1>2. im \in SE!ToSet(<<im>>)
  BY DEF SE!ToSet
<1>3. g.t > 0 /\ g.h > 0 /\ g.w > 0 /\ g.h % M = 0 /\ g.w % M = 0
  BY <1>1, <1>2 DEF TowerAccepts
<1>4. g.t \in Nat \ {0} /\ g.h \in Nat \ {0} /\ g.w \in Nat \ {0}
  BY <1>1, <1>3
<1>5. ASSUME NEW x \in Nat \ {0}, x % M = 0 PROVE x \div M \in Nat \ {0} /\ x = (x \div M) * M
  <2> DEFINE q == x \div M
  <2>1. q \in Nat /\ x = M * q + 0
    BY <1>1, <1>5, Quotient
  <2> HIDE DEF q
  <2>2. q # 0 /\ M * q = q * M
    BY <1>1, <2>1
  <2> QED BY <1>1, <2>1, <2>2 DEF q
<1>6. H \in Nat \ {0} /\ W \in Nat \ {0} /\ g.h = H * M /\ g.w = W * M
  BY <1>3, <1>4, <1>5 DEF Height, Width
<1>7. FrameSize(g) = g.h * g.w /\ TokenCount(g) = g.t * H * W /\ PatchCount(g) = g.t * FrameSize(g)
  BY DEF FrameSize, TokenCount, PatchCount
<1> DEFINE t == g.t
           a == g.h
           b == g.w
<1> HIDE DEF g, H, W, M, t, a, b
<1>8. (H * M) * (W * M) = (H * W) * (M * M) /\ t * H * W = t * (H * W)
      /\ t * ((H * W) * (M * M)) = (t * (H * W)) * (M * M)
  BY <1>1, <1>4, <1>6 DEF t
<1>9. FrameSize(g) = (H * W) * (M * M) /\ TokenCount(g) = t * (H * W)
      /\ PatchCount(g) = (t * (H * W)) * (M * M)
  BY <1>6, <1>7, <1>8 DEF t
<1>10. t * (H * W) \in Nat \ {0} /\ (t * (H * W)) * (M * M) \in Nat \ {0}
  <2>1. t \in Nat \ {0} /\ H * W \in Nat \ {0} /\ M * M \in Nat \ {0}
    BY <1>1, <1>4, <1>6 DEF t
  <2> DEFINE p == H * W
             q == M * M
  <2> HIDE DEF p, q
  <2>2. t * p \in Nat \ {0}
    BY <2>1 DEF p
  <2> DEFINE s == t * p
  <2> HIDE DEF s
  <2>3. s * q \in Nat \ {0}
    BY <2>1, <2>2 DEF q, s
  <2> QED BY <2>2, <2>3 DEF p, q, s
<1> QED BY <1>1, <1>4, <1>6, <1>7, <1>9, <1>10 DEF g, H, W, M, t

(* The number of a patch, of frame f, in the square at <<R, C>> of that,   *)
(* at <<a, b>> in the square.                                              *)
PatchNo(g, f, R, C, a, b) ==
    (f * (Height(g) * Width(g)) + (R * Width(g) + C)) * (MergeSize * MergeSize)
      + (a * MergeSize + b)

PatchIs(im, f, R, C, a, b) ==
    LET g  == Grid[im]
        K  == PatchNo(g, f, R, C, a, b)
        at == <<R * MergeSize + a, C * MergeSize + b>>
    IN  /\ K \in 0..PatchCount(g) - 1
        /\ K % FrameSize(g) \in 0..FrameSize(g) - 1
        /\ K = f * FrameSize(g) + (K % FrameSize(g))
        /\ at[1] \in 0..g.h - 1 /\ at[2] \in 0..g.w - 1
        /\ PixelRows(im)[K + 1] = [image |-> im, frame |-> f, at |-> at]
        /\ RotaryRows(im)[K + 1] = at
        /\ PosRows(im)[K + 1] = Corners(g, at[1], at[2])

(* Pixels, positions and rotary coordinates of a patch all have its place. *)
LEMMA PatchAt ==
    ASSUME NEW im \in Key, NEW f \in 0..Grid[im].t - 1, NEW R \in 0..Height(Grid[im]) - 1,
           NEW C \in 0..Width(Grid[im]) - 1, NEW a \in 0..MergeSize - 1, NEW b \in 0..MergeSize - 1
    PROVE  PatchIs(im, f, R, C, a, b)
<1> DEFINE g  == Grid[im]
           M  == MergeSize
           H  == Height(g)
           W  == Width(g)
           u  == M * M
           A  == H * W
           F  == A * u
           n  == R * W + C
           J  == f * A + n
           e  == a * M + b
           K  == J * u + e
           y  == R * M + a
           x  == C * M + b
           N  == PatchCount(g)
<1>1. /\ M \in Nat \ {0} /\ g.t \in Nat \ {0} /\ H \in Nat \ {0} /\ W \in Nat \ {0}
      /\ g.h = H * M /\ g.w = W * M /\ g.h \in Nat \ {0} /\ g.w \in Nat \ {0}
      /\ FrameSize(g) = F /\ N = g.t * FrameSize(g) /\ f \in Nat
  BY GridOf
<1>2. /\ u \in Nat \ {0} /\ A \in Nat \ {0} /\ F \in Nat \ {0}
      /\ n \in 0..A - 1 /\ e \in 0..u - 1 /\ J \in Nat /\ K \in Nat
      /\ n \div W = R /\ n % W = C /\ e \div M = a /\ e % M = b
      /\ J \div A = f /\ J % A = n /\ K \div u = J /\ K % u = e
      /\ K \div F = f /\ K % F = n * u + e
      /\ n * u + e \in 0..F - 1
      /\ (n * u + e) \div u = n
      /\ ((n * u + e) \div M) % M = a /\ (n * u + e) % M = b
      /\ K % M = b /\ (K \div M) % M = a
      /\ J % W = C /\ (J \div W) % H = R /\ K \div (u * W) = J \div W
  <2>1. LaidOut(M, H, W, u, A, F, f, R, C, a, b, n, J, e, K)
    BY <1>1 DEF LaidOut
  <2> HIDE DEF M, H, W, u, A, F, n, J, e, K
  <2> QED BY <2>1, Layout
<1>3. y \in 0..g.h - 1 /\ x \in 0..g.w - 1
  BY <1>1, DigitsBelow
<1>4. K = PatchNo(g, f, R, C, a, b)
  BY DEF PatchNo
<1> DEFINE px(q) == LET square == (q % FrameSize(g)) \div (MergeSize * MergeSize)
                        inside == q % (MergeSize * MergeSize)
                    IN  [image |-> im, frame |-> q \div FrameSize(g),
                         at |-> <<(square \div Width(g)) * MergeSize + (inside \div MergeSize),
                                  (square % Width(g)) * MergeSize + (inside % MergeSize)>>]
           ro(q) == LET z == q % FrameSize(g)
                        block == z \div (MergeSize * MergeSize)
                    IN  <<(block \div Width(g)) * MergeSize + ((z \div MergeSize) % MergeSize),
                          (block % Width(g)) * MergeSize + (z % MergeSize)>>
           po(q) == LET z == Permuted(g, q) % FrameSize(g)
                    IN  Corners(g, z \div g.w, z % g.w)
<1>5. /\ PixelRows(im) = [ k \in 1..N |-> px(k - 1) ]
      /\ RotaryRows(im) = [ k \in 1..N |-> ro(k - 1) ]
      /\ PosRows(im) = [ k \in 1..N |-> po(k - 1) ]
  BY DEF PixelRows, RotaryRows, PosRows
<1>6. px(K) = [image |-> im, frame |-> f, at |-> <<y, x>>]
  <2>1. FrameSize(g) = F /\ MergeSize * MergeSize = u /\ MergeSize = M /\ Width(g) = W
    BY <1>1
  <2> HIDE DEF M, H, W, u, A, F, n, J, e, K, g
  <2>2. px(K) = [image |-> im, frame |-> f, at |-> <<(n \div W) * M + (e \div M), (n % W) * M + (e % M)>>]
    BY <1>2, <2>1, Zenon
  <2> QED BY <1>2, <2>2
<1>7. ro(K) = <<y, x>>
  <2>1. FrameSize(g) = F /\ MergeSize * MergeSize = u /\ MergeSize = M /\ Width(g) = W
    BY <1>1
  <2> DEFINE z == n * u + e
  <2>2. K % F = z /\ z \div u = n /\ (z \div M) % M = a /\ z % M = b /\ n \div W = R /\ n % W = C
    BY <1>2
  <2> HIDE DEF M, H, W, u, A, F, n, J, e, K, g, z
  <2>3. ro(K) = <<(n \div W) * M + ((z \div M) % M), (n % W) * M + (z % M)>>
    BY <2>1, <2>2, Zenon
  <2> QED BY <2>2, <2>3
<1>8. po(K) = Corners(g, y, x)
  <2>1. FrameSize(g) = F /\ MergeSize * MergeSize = u /\ MergeSize = M /\ Width(g) = W /\ Height(g) = H
    BY <1>1
  <2> DEFINE w == g.w
  <2> HIDE DEF M, H, W, u, A, F, n, J, e, K, g, w
  <2>2. Permuted(g, K) = f * F + y * w + C * M + b
    <3>1. Permuted(g, K) =
            (K \div F) * F + (((K \div (u * W)) % H) * M + ((K \div M) % M)) * w
              + ((K \div u) % W) * M + (K % M)
      BY <2>1, Zenon DEF Permuted, w
    <3> QED BY <1>2, <3>1
  <2> DEFINE s == y * w
             v == s + x
  <2>3. w \in Nat \ {0} /\ y \in 0..g.h - 1 /\ x \in 0..w - 1 /\ y \in Nat /\ x \in Nat
        /\ C * M \in Nat /\ b \in Nat /\ x = C * M + b
    BY <1>1, <1>3 DEF w, M
  <2>4. g.h * w = F
    <3>1. FrameSize(g) = g.h * g.w
      BY DEF FrameSize
    <3> QED BY <1>1, <3>1 DEF w
  <2>5. v \in 0..F - 1 /\ v \div w = y /\ v % w = x
    <3>1. v \in 0..g.h * w - 1
      BY <1>1, <2>3, DigitsBelow
    <3>2. v \div w = y /\ v % w = x
      BY <2>3, Digits
    <3> QED BY <2>4, <3>1, <3>2
  <2>6. Permuted(g, K) = f * F + v
    <3> DEFINE r == f * F
               d == C * M
    <3>1. r \in Nat /\ s \in Nat /\ d \in Nat /\ b \in Nat
      BY <1>1, <1>2, <2>3
    <3>2. Permuted(g, K) = r + s + d + b /\ x = d + b
      BY <2>2, <2>3
    <3> HIDE DEF r, s, d, x
    <3> QED BY <3>1, <3>2 DEF r
  <2> HIDE DEF v, y, x
  <2>7. Permuted(g, K) % F = v
    BY <1>1, <1>2, <2>5, <2>6, Digits
  <2> QED BY <2>1, <2>5, <2>7 DEF w
<1>0. K % F \in 0..F - 1 /\ K = f * F + (K % F)
  <2>1. K \in Nat /\ F \in Nat \ {0} /\ K \div F = f
    BY <1>2
  <2> HIDE DEF K, F
  <2>2. K % F \in 0..F - 1 /\ K = F * (K \div F) + (K % F)
    BY <2>1, Quotient
  <2>3. F * f = f * F
    BY <1>1, <2>1
  <2> QED BY <2>1, <2>2, <2>3
<1>9. K + 1 \in 1..N /\ (K + 1) - 1 = K
  <2> DEFINE t == g.t
             p == t * F
  <2>0. t \in Nat \ {0} /\ f \in 0..t - 1 /\ N = t * FrameSize(g) /\ FrameSize(g) = F
    BY <1>1
  <2>3. F \in Nat
    BY <1>2
  <2>1. N = p /\ t \in Nat \ {0} /\ f \in 0..t - 1 /\ p \in Nat
    <3> HIDE DEF t, N, F
    <3> QED BY <2>0, <2>3
  <2> HIDE DEF t, N
  <2>2. f * F + (K % F) \in 0..t * F - 1
    BY <1>2, <1>0, <2>1, DigitsBelow
  <2> HIDE DEF p, K, F
  <2>4. K \in 0..p - 1
    BY <1>0, <2>2 DEF p
  <2> QED BY <2>1, <2>4
<1>10. /\ PixelRows(im)[K + 1] = px(K) /\ RotaryRows(im)[K + 1] = ro(K)
       /\ PosRows(im)[K + 1] = po(K)
  <2> HIDE DEF px, ro, po, K, N
  <2> QED BY <1>5, <1>9
<1>11. K % F \in 0..F - 1 /\ K = f * F + (K % F) /\ K \in 0..N - 1
  <2>2. K \in Nat /\ N \in Nat /\ K + 1 \in 1..N
    BY <1>2, <1>9, GridOf
  <2> HIDE DEF K, N
  <2>3. K \in 0..N - 1
    BY <2>2
  <2> QED BY <1>0, <2>3
<1> DEFINE place == <<y, x>>
<1>12. place[1] = y /\ place[2] = x
  OBVIOUS
<1> HIDE DEF px, ro, po, K, y, x, F, N
<1>13. /\ K \in 0..N - 1
       /\ K % FrameSize(g) \in 0..FrameSize(g) - 1
       /\ K = f * FrameSize(g) + (K % FrameSize(g))
       /\ place[1] \in 0..g.h - 1 /\ place[2] \in 0..g.w - 1
       /\ PixelRows(im)[K + 1] = [image |-> im, frame |-> f, at |-> place]
       /\ RotaryRows(im)[K + 1] = place
       /\ PosRows(im)[K + 1] = Corners(g, place[1], place[2])
  BY <1>1, <1>2, <1>3, <1>6, <1>7, <1>8, <1>10, <1>11, <1>12
<1>14. place = <<R * MergeSize + a, C * MergeSize + b>>
  BY DEF place, y, x
<1> HIDE DEF place
<1> QED BY <1>4, <1>13, <1>14, Zenon DEF PatchIs, N

-----------------------------------------------------------------------------
(* Lengths added up.                                                       *)

Sums(ns, k) == Cardinality(Units(ns, 1..k))

LEMMA SumsSteps ==
    ASSUME NEW n \in Nat, NEW ns, \A i \in 1..n : ns[i] \in Nat
    PROVE  /\ Sums(ns, 0) = 0
           /\ \A k \in 0..n : Sums(ns, k) \in Nat
           /\ \A k \in 1..n : Sums(ns, k) = Sums(ns, k - 1) + ns[k]
           /\ \A k \in 0..n : \A j \in 0..k : Sums(ns, j) <= Sums(ns, k)
<1>1. Sums(ns, 0) = 0
  <2>1. 1..0 = {}
    OBVIOUS
  <2> QED BY <2>1, UnitsOfNone DEF Sums
<1>2. ASSUME NEW k \in 0..n
      PROVE  IsFiniteSet(1..k) /\ IsFiniteSet(Units(ns, 1..k)) /\ Sums(ns, k) \in Nat
  <2>1. IsFiniteSet(1..k)
    BY FS_Interval
  <2>2. \A i \in 1..k : ns[i] \in Nat
    OBVIOUS
  <2> QED BY <2>1, <2>2, UnitsFinite DEF Sums
<1>3. ASSUME NEW k \in 1..n PROVE Sums(ns, k) = Sums(ns, k - 1) + ns[k]
  <2>1. k \in 0..n /\ k - 1 \in 0..n /\ k \in 1..k /\ ns[k] \in Nat
    OBVIOUS
  <2>2. (1..k) \ {k} = 1..k - 1
    OBVIOUS
  <2>3. IsFiniteSet(1..k) /\ \A i \in 1..k : ns[i] \in Nat
    BY <1>2, <2>1
  <2>4. Cardinality(Units(ns, 1..k)) = ns[k] + Cardinality(Units(ns, (1..k) \ {k}))
    BY <2>1, <2>3, UnitsAdd
  <2>5. Sums(ns, k) = ns[k] + Sums(ns, k - 1)
    BY <2>2, <2>4 DEF Sums
  <2>6. Sums(ns, k - 1) \in Nat
    BY <1>2, <2>1
  <2> QED BY <2>1, <2>5, <2>6
<1>4. ASSUME NEW k \in 0..n, NEW j \in 0..k PROVE Sums(ns, j) <= Sums(ns, k)
  <2>1. Units(ns, 1..j) \subseteq Units(ns, 1..k)
    BY DEF Units
  <2> QED BY <1>2, <2>1, FS_Subset DEF Sums
<1> QED BY <1>1, <1>2, <1>3, <1>4

(* Sums depend only on what is summed.                                     *)
LEMMA SumsOfSame ==
    ASSUME NEW k, NEW ns, NEW ms, \A i \in 1..k : ns[i] = ms[i]
    PROVE  Sums(ns, k) = Sums(ms, k)
<1>1. Units(ns, 1..k) = Units(ms, 1..k)
  BY DEF Units
<1> QED BY <1>1 DEF Sums

(* Folding from the left takes the last of what is left.                   *)
FoldsUp(f, ns, k) ==
    f = [ s \in SUBSET (1..k) |->
            IF s = {} THEN 0 ELSE f[s \ {SE!Max(s)}] + ns[SE!Max(s)] ]

LEMMA MaxOfSome ==
    ASSUME NEW k \in Nat, NEW s \in SUBSET (1..k), s # {}
    PROVE  SE!Max(s) \in s
<1> DEFINE N == { k - i : i \in s }
<1>0. \A i \in s : i \in Nat /\ i <= k /\ k - i \in Nat
  OBVIOUS
<1>1. N \in SUBSET Nat /\ N # {}
  BY <1>0
<1>2. PICK m \in N : \A j \in N : m <= j
  <2> HIDE DEF N
  <2> QED BY <1>1, LeastNatural
<1>3. PICK x \in s : m = k - x
  BY <1>2
<1>4. \A y \in s : x >= y
  <2> TAKE y \in s
  <2>1. k - y \in N
    OBVIOUS
  <2>2. k - x <= k - y
    BY <1>2, <1>3, <2>1
  <2> QED BY <1>0, <2>2
<1> QED BY <1>4 DEF SE!Max

LEMMA FoldedSum ==
    ASSUME NEW k \in Nat, NEW w, \A i \in 1..k : w[i] \in Nat
    PROVE  /\ \E f : FoldsUp(f, w, k)
           /\ \A f : FoldsUp(f, w, k) => f[1..k] = Sums(w, k)
<1> DEFINE K == 1..k
           Top(s) == SE!Max(s)
           g == [ s \in SUBSET K |-> Cardinality(Units(w, s)) ]
<1>0. IsFiniteSet(K)
  BY FS_Interval
<1>1. \A s \in SUBSET K : s # {} => Top(s) \in s /\ s \ {Top(s)} \in SUBSET K
  BY MaxOfSome
<1>2. \A s \in SUBSET K : s # {} =>
        Cardinality(Units(w, s)) = Cardinality(Units(w, s \ {Top(s)})) + w[Top(s)]
  <2> SUFFICES ASSUME NEW s \in SUBSET K, s # {}
               PROVE  Cardinality(Units(w, s)) = Cardinality(Units(w, s \ {Top(s)})) + w[Top(s)]
    OBVIOUS
  <2>1. Top(s) \in s /\ IsFiniteSet(s) /\ IsFiniteSet(s \ {Top(s)}) /\ \A i \in s : w[i] \in Nat
    BY <1>0, <1>1, FS_Subset
  <2> HIDE DEF Top
  <2>2. Cardinality(Units(w, s)) = w[Top(s)] + Cardinality(Units(w, s \ {Top(s)}))
    <3>1. PICK x \in s : x = Top(s)
      BY <2>1
    <3>2. Cardinality(Units(w, s)) = w[x] + Cardinality(Units(w, s \ {x}))
      BY <2>1, UnitsAdd
    <3> QED BY <3>1, <3>2
  <2>3. Cardinality(Units(w, s \ {Top(s)})) \in Nat /\ w[Top(s)] \in Nat
    BY <2>1, UnitsFinite
  <2> QED BY <2>2, <2>3
<1>3. Cardinality(Units(w, {})) = 0
  BY UnitsOfNone
<1>4. FoldsUp(g, w, k)
  <2>1. \A s \in SUBSET K : s # {} => g[s \ {Top(s)}] = Cardinality(Units(w, s \ {Top(s)}))
    BY <1>1
  <2>2. \A s \in SUBSET K : g[s] = IF s = {} THEN 0 ELSE g[s \ {Top(s)}] + w[Top(s)]
    <3> HIDE DEF Top
    <3> QED BY <1>2, <1>3, <2>1
  <2>3. g = [ s \in SUBSET K |-> g[s] ]
    OBVIOUS
  <2>4. g = [ s \in SUBSET K |-> IF s = {} THEN 0 ELSE g[s \ {Top(s)}] + w[Top(s)] ]
    <3> HIDE DEF g, Top
    <3> QED BY <2>2, <2>3
  <2> HIDE DEF g
  <2> QED BY <2>4 DEF FoldsUp
<1>5. ASSUME NEW f, FoldsUp(f, w, k) PROVE f[K] = Cardinality(Units(w, K))
  <2> DEFINE Good == { s \in SUBSET K : f[s] = Cardinality(Units(w, s)) }
  <2>1. \A s \in SUBSET K : f[s] = IF s = {} THEN 0 ELSE f[s \ {Top(s)}] + w[Top(s)]
    <3>1. f = [ s \in SUBSET K |-> IF s = {} THEN 0 ELSE f[s \ {Top(s)}] + w[Top(s)] ]
      BY <1>5 DEF FoldsUp
    <3> HIDE DEF Top
    <3> QED BY <3>1, Zenon
  <2>2. ASSUME NEW s \in SUBSET K, \A r \in SUBSET s : r # s => r \in Good
        PROVE  s \in Good
    <3>1. CASE s = {}
      BY <1>3, <2>1, <3>1
    <3>2. CASE s # {}
      <4>1. f[s \ {Top(s)}] = Cardinality(Units(w, s \ {Top(s)}))
        BY <1>1, <2>2, <3>2
      <4> HIDE DEF Top
      <4> QED BY <1>2, <2>1, <3>2, <4>1
    <3> QED BY <3>1, <3>2
  <2>3. \A s \in SUBSET K : (\A r \in SUBSET s : r # s => r \in Good) => s \in Good
    BY <2>2
  <2>4. SUBSET K \subseteq Good
    <3> HIDE DEF Good, K
    <3> QED BY <1>0, <2>3, SubsetInduction
  <2> QED BY <2>4
<1>6. \E f : FoldsUp(f, w, k)
  <2> HIDE DEF g
  <2> QED BY <1>4
<1> QED BY <1>5, <1>6 DEF Sums

LEMMA SumOfIs ==
    ASSUME NEW k \in Nat, NEW ns, DOMAIN ns = 1..k, \A i \in 1..k : ns[i] \in Nat
    PROVE  SumOf(ns) = Sums(ns, k)
<1> DEFINE iter == CHOOSE f : FoldsUp(f, ns, k)
<1>1. FoldsUp(iter, ns, k) /\ iter[1..k] = Sums(ns, k)
  BY FoldedSum
<1>2. SumOf(ns) = iter[1..k]
  BY DEF SumOf, SE!FoldLeft, SE!MapThenFoldSet, FoldsUp
<1> QED BY <1>1, <1>2

(* A pack holds what each of its images has from where those before it     *)
(* end.                                                                    *)
PackOf(x, T, ims, rows, w, n) ==
    /\ x \in Seq(T) /\ Len(x) = Sums(w, n) /\ DOMAIN x = 1..Sums(w, n) /\ Sums(w, n) \in Nat
    /\ \A i \in 1..n : \A k \in 1..w[i] :
          /\ Sums(w, i - 1) + k \in 1..Sums(w, n)
          /\ x[Sums(w, i - 1) + k] = rows[ims[i]][k]

LEMMA PackedFacts ==
    ASSUME NEW T, NEW n \in Nat, NEW ims, DOMAIN ims = 1..n, NEW rows, NEW w,
           \A i \in 1..n : rows[ims[i]] \in Seq(T) /\ w[i] = Len(rows[ims[i]])
    PROVE  PackOf(Packed(ims, rows), T, ims, rows, w, n)
<1> DEFINE ss  == [ i \in 1..n |-> rows[ims[i]] ]
           off == [ i \in 1..n + 1 |-> Sums(w, i - 1) ]
           x   == Packed(ims, rows)
<1>1. ss \in Seq(Seq(T)) /\ Len(ss) = n /\ \A i \in 1..n : ss[i] = rows[ims[i]]
  OBVIOUS
<1>2. \A i \in 1..n : w[i] \in Nat
  OBVIOUS
<1>3. /\ Sums(w, 0) = 0 /\ \A k \in 0..n : Sums(w, k) \in Nat
      /\ \A k \in 1..n : Sums(w, k) = Sums(w, k - 1) + w[k]
  BY <1>2, SumsSteps
<1>4. x = SE!FlattenSeq(ss)
  BY DEF Packed
<1> HIDE DEF x, ss
<1>5. \A i \in 1..n + 1 : i - 1 \in 0..n /\ off[i] = Sums(w, i - 1)
  OBVIOUS
<1>6. \A i \in 1..n : i \in 1..n + 1 /\ i + 1 \in 1..n + 1 /\ (i + 1) - 1 = i
  OBVIOUS
<1>7. off \in [1..n + 1 -> Nat]
  BY <1>3
<1>10. 1 \in 1..n + 1 /\ n + 1 \in 1..n + 1 /\ (n + 1) - 1 = n /\ 1 - 1 = 0
  OBVIOUS
<1> HIDE DEF off
<1>8. Offsets(off, ss)
  <2>1. off[1] = 0
    BY <1>3, <1>5, <1>10
  <2>2. ASSUME NEW i \in 1..n PROVE off[i + 1] = off[i] + Len(ss[i])
    <3>1. off[i] = Sums(w, i - 1) /\ off[i + 1] = Sums(w, (i + 1) - 1) /\ (i + 1) - 1 = i
      BY <1>5, <1>6
    <3>2. Len(ss[i]) = w[i] /\ Sums(w, i) = Sums(w, i - 1) + w[i]
      BY <1>1, <1>3
    <3> QED BY <3>1, <3>2
  <2> QED BY <1>1, <1>7, <2>1, <2>2 DEF Offsets
<1>9. JoinOf(x, ss, off, T)
  BY <1>1, <1>4, <1>8, FlattenFacts
<1>11. x \in Seq(T) /\ Len(x) = Sums(w, n) /\ Sums(w, n) \in Nat
  <2>1. off[n + 1] = Sums(w, n) /\ Sums(w, n) \in Nat
    BY <1>3, <1>5, <1>10
  <2> QED BY <1>1, <1>9, <2>1 DEF JoinOf
<1>12. ASSUME NEW i \in 1..n, NEW k \in 1..w[i]
       PROVE  /\ Sums(w, i - 1) + k \in 1..Sums(w, n)
              /\ x[Sums(w, i - 1) + k] = rows[ims[i]][k]
  <2>1. i \in 1..Len(ss) /\ k \in 1..Len(ss[i]) /\ off[i] = Sums(w, i - 1)
    BY <1>1, <1>5, <1>6
  <2>2. off[i] + k \in 1..Len(x) /\ x[off[i] + k] = ss[i][k]
    BY <1>9, <2>1 DEF JoinOf
  <2> QED BY <1>1, <1>11, <2>1, <2>2
<1>13. DOMAIN x = 1..Len(x)
  BY <1>11
<1> QED BY <1>11, <1>12, <1>13 DEF PackOf, x

(* The sizes of the images of a pack: in frames, tokens and patches.       *)
Frames(ims)  == [ i \in DOMAIN ims |-> Grid[ims[i]].t ]
Tokens(ims)  == [ i \in DOMAIN ims |-> TokenCount(Grid[ims[i]]) ]
Patches(ims) == [ i \in DOMAIN ims |-> PatchCount(Grid[ims[i]]) ]

LEMMA PackSizes ==
    ASSUME NEW n \in Nat, NEW ims \in [1..n -> Key]
    PROVE  /\ \A i \in 1..n : Frames(ims)[i] \in Nat /\ Tokens(ims)[i] \in Nat /\ Patches(ims)[i] \in Nat
           /\ \A i \in 1..n : Patches(ims)[i] = Tokens(ims)[i] * (MergeSize * MergeSize)
           /\ \A k \in 0..n : Sums(Patches(ims), k) = Sums(Tokens(ims), k) * (MergeSize * MergeSize)
<1> DEFINE u == MergeSize * MergeSize
           fr == Frames(ims)
           to == Tokens(ims)
           pa == Patches(ims)
<1>0. u \in Nat
  BY MetadataAssumption
<1>1. DOMAIN ims = 1..n /\ \A i \in 1..n : ims[i] \in Key
  OBVIOUS
<1>2. ASSUME NEW i \in 1..n
      PROVE  /\ fr[i] \in Nat /\ to[i] \in Nat /\ pa[i] \in Nat /\ pa[i] = to[i] * u
  BY <1>1, GridOf DEF Frames, Tokens, Patches
<1> HIDE DEF u, fr, to, pa
<1>3. /\ Sums(pa, 0) = 0 /\ \A k \in 0..n : Sums(pa, k) \in Nat
      /\ \A k \in 1..n : Sums(pa, k) = Sums(pa, k - 1) + pa[k]
  BY <1>2, SumsSteps
<1>4. /\ Sums(to, 0) = 0 /\ \A k \in 0..n : Sums(to, k) \in Nat
      /\ \A k \in 1..n : Sums(to, k) = Sums(to, k - 1) + to[k]
  BY <1>2, SumsSteps
<1> DEFINE Good == { k \in 1..n : Sums(pa, k) = Sums(to, k) * u }
<1>5. ASSUME NEW k \in 1..n, Sums(pa, k - 1) = Sums(to, k - 1) * u
      PROVE  Sums(pa, k) = Sums(to, k) * u
  <2> DEFINE p == Sums(pa, k - 1)
             q == Sums(to, k - 1)
             a == pa[k]
             b == to[k]
  <2>1. k - 1 \in 0..n
    OBVIOUS
  <2>2. p \in Nat /\ q \in Nat /\ p = q * u /\ a = b * u /\ b \in Nat /\ a \in Nat
        /\ Sums(pa, k) = p + a /\ Sums(to, k) = q + b
    BY <1>2, <1>3, <1>4, <1>5, <2>1
  <2> HIDE DEF p, q, a, b
  <2>3. (q + b) * u = q * u + b * u
    BY <1>0, <2>2
  <2> QED BY <2>2, <2>3
<1>6. CASE n = 0
  <2>1. 0 * u = 0 /\ 0..n = {0}
    BY <1>0, <1>6
  <2> QED BY <1>2, <1>3, <1>4, <2>1 DEF u, fr, to, pa
<1>7. CASE n # 0
  <2>0. 0 * u = 0 /\ 1 \in 1..n /\ 1 - 1 = 0
    BY <1>0, <1>7
  <2>1. 1 \in Good
    BY <1>3, <1>4, <1>5, <2>0
  <2>2. \A k \in 1..n - 1 : k \in Good => k + 1 \in Good
    <3> TAKE k \in 1..n - 1
    <3>1. k + 1 \in 1..n /\ (k + 1) - 1 = k
      OBVIOUS
    <3> QED BY <1>5, <3>1
  <2>3. 1..n \subseteq Good
    <3> HIDE DEF Good
    <3> QED BY <2>1, <2>2, UpToInduction
  <2>4. \A k \in 0..n : k = 0 \/ k \in 1..n
    OBVIOUS
  <2>5. \A k \in 0..n : Sums(pa, k) = Sums(to, k) * u
    BY <1>3, <1>4, <2>0, <2>3, <2>4
  <2> QED BY <1>2, <2>5 DEF u, fr, to, pa
<1> QED BY <1>6, <1>7

(***************************************************************************)
(* The segments of a pack are its frames.                                  *)
(***************************************************************************)

(* Where the f-th frame of the i-th image ends.                            *)
FrameEnd(ims, i, f) == Sums(Patches(ims), i - 1) + f * FrameSize(Grid[ims[i]])

FrameLengths(ims) ==
    Packed(ims, [ im \in SE!ToSet(ims) |-> [ f \in 1..Grid[im].t |-> FrameSize(Grid[im]) ] ])

LEMMA FrameLengthsAre ==
    ASSUME NEW n \in Nat, NEW ims \in [1..n -> Key]
    PROVE  LET l == FrameLengths(ims)
               c == Frames(ims)
           IN  /\ l \in Seq(Nat) /\ Len(l) \in Nat /\ DOMAIN l = 1..Len(l)
               /\ \A k \in 0..n : Sums(c, k) \in 0..Len(l)
               /\ \A i \in 1..n : /\ Sums(c, i) = Sums(c, i - 1) + c[i]
                                 /\ \A f \in 1..c[i] :
                                      /\ Sums(c, i - 1) + f \in 1..Len(l)
                                      /\ l[Sums(c, i - 1) + f] = FrameSize(Grid[ims[i]])
<1> DEFINE rows == [ im \in SE!ToSet(ims) |-> [ f \in 1..Grid[im].t |-> FrameSize(Grid[im]) ] ]
           c == Frames(ims)
           l == FrameLengths(ims)
<1>1. DOMAIN ims = 1..n /\ \A i \in 1..n : ims[i] \in Key /\ ims[i] \in SE!ToSet(ims)
  BY DEF SE!ToSet
<1>2. ASSUME NEW i \in 1..n
      PROVE  /\ Grid[ims[i]].t \in Nat /\ FrameSize(Grid[ims[i]]) \in Nat /\ c[i] = Grid[ims[i]].t
             /\ rows[ims[i]] = [ f \in 1..Grid[ims[i]].t |-> FrameSize(Grid[ims[i]]) ]
  <2>1. Grid[ims[i]].t \in Nat /\ Grid[ims[i]].h \in Nat /\ Grid[ims[i]].w \in Nat
    BY <1>1, GridOf
  <2> QED BY <1>1, <2>1 DEF FrameSize, Frames
<1>3. ASSUME NEW i \in 1..n
      PROVE  rows[ims[i]] \in Seq(Nat) /\ c[i] = Len(rows[ims[i]])
             /\ \A f \in 1..c[i] : rows[ims[i]][f] = FrameSize(Grid[ims[i]])
  <2> DEFINE t == Grid[ims[i]].t
             z == FrameSize(Grid[ims[i]])
             row == rows[ims[i]]
  <2>1. t \in Nat /\ z \in Nat /\ c[i] = t /\ row = [ f \in 1..t |-> z ]
    BY <1>2
  <2> HIDE DEF t, z, row, c
  <2>2. row \in Seq(Nat) /\ c[i] = Len(row) /\ \A f \in 1..c[i] : row[f] = z
    BY <2>1
  <2> QED BY <2>2 DEF row, z
<1>4. l = Packed(ims, rows)
  BY DEF FrameLengths
<1> HIDE DEF rows, c, l
<1>5. PackOf(l, Nat, ims, rows, c, n)
  BY <1>1, <1>3, <1>4, PackedFacts
<1>6. /\ \A i \in 1..n : c[i] \in Nat
      /\ \A k \in 0..n : Sums(c, k) \in Nat
      /\ \A k \in 1..n : Sums(c, k) = Sums(c, k - 1) + c[k]
      /\ \A k \in 0..n : \A j \in 0..k : Sums(c, j) <= Sums(c, k)
  <2>1. \A i \in 1..n : c[i] \in Nat
    BY <1>2
  <2> QED BY <2>1, SumsSteps
<1>7. \A k \in 0..n : Sums(c, k) \in 0..Len(l)
  <2> TAKE k \in 0..n
  <2>1. n \in 0..n /\ k \in 0..n
    OBVIOUS
  <2>2. Sums(c, k) <= Sums(c, n) /\ Sums(c, k) \in Nat /\ Sums(c, n) \in Nat
    BY <1>6, <2>1
  <2> QED BY <1>5, <2>2 DEF PackOf
<1>8. ASSUME NEW i \in 1..n, NEW f \in 1..c[i]
      PROVE  Sums(c, i - 1) + f \in 1..Len(l) /\ l[Sums(c, i - 1) + f] = FrameSize(Grid[ims[i]])
  BY <1>3, <1>5 DEF PackOf
<1> QED BY <1>5, <1>6, <1>7, <1>8 DEF PackOf, l, c

LEMMA FrameEnds ==
    ASSUME NEW n \in Nat, NEW ims \in [1..n -> Key], NEW i \in 1..n
    PROVE  \A f \in 0..Frames(ims)[i] :
              Sums(FrameLengths(ims), Sums(Frames(ims), i - 1) + f) = FrameEnd(ims, i, f)
<1> DEFINE l == FrameLengths(ims)
           c == Frames(ims)
           p == Patches(ims)
           F(j) == FrameSize(Grid[ims[j]])
<1>1. /\ l \in Seq(Nat) /\ Len(l) \in Nat /\ DOMAIN l = 1..Len(l)
      /\ \A k \in 0..n : Sums(c, k) \in 0..Len(l)
      /\ \A j \in 1..n : /\ Sums(c, j) = Sums(c, j - 1) + c[j]
                        /\ \A f \in 1..c[j] : /\ Sums(c, j - 1) + f \in 1..Len(l)
                                              /\ l[Sums(c, j - 1) + f] = F(j)
  BY FrameLengthsAre
<1>2. ASSUME NEW j \in 1..n
      PROVE  c[j] \in Nat /\ p[j] \in Nat /\ p[j] = c[j] * F(j) /\ F(j) \in Nat
  <2>1. ims[j] \in Key /\ DOMAIN ims = 1..n
    OBVIOUS
  <2>2. Grid[ims[j]].t \in Nat /\ Grid[ims[j]].h \in Nat /\ Grid[ims[j]].w \in Nat
        /\ PatchCount(Grid[ims[j]]) = Grid[ims[j]].t * FrameSize(Grid[ims[j]])
        /\ PatchCount(Grid[ims[j]]) \in Nat
    BY <2>1, GridOf
  <2>3. FrameSize(Grid[ims[j]]) \in Nat
    BY <2>2 DEF FrameSize
  <2> QED BY <2>1, <2>2, <2>3 DEF Frames, Patches
<1> HIDE DEF l, c, p, F
<1>3. /\ Sums(l, 0) = 0 /\ \A k \in 0..Len(l) : Sums(l, k) \in Nat
      /\ \A k \in 1..Len(l) : Sums(l, k) = Sums(l, k - 1) + l[k]
  <2>1. \A k \in 1..Len(l) : l[k] \in Nat
    BY <1>1
  <2> QED BY <1>1, <2>1, SumsSteps
<1>4. /\ Sums(p, 0) = 0 /\ \A k \in 0..n : Sums(p, k) \in Nat
      /\ \A k \in 1..n : Sums(p, k) = Sums(p, k - 1) + p[k]
  BY <1>2, SumsSteps
<1>c. Sums(c, 0) = 0
  BY <1>2, SumsSteps
<1> DEFINE Reached(j, f) == Sums(l, Sums(c, j - 1) + f) = Sums(p, j - 1) + f * F(j)
<1>5. ASSUME NEW j \in 1..n, Reached(j, 0) PROVE \A f \in 0..c[j] : Reached(j, f)
  <2> DEFINE o == Sums(c, j - 1)
             b == Sums(p, j - 1)
             S == { f \in 1..c[j] : Reached(j, f) }
  <2>0. j - 1 \in 0..n /\ o \in Nat /\ b \in Nat /\ F(j) \in Nat /\ c[j] \in Nat
    <3>1. j - 1 \in 0..n
      OBVIOUS
    <3> QED BY <1>1, <1>2, <1>4, <3>1
  <2>1. ASSUME NEW f \in 1..c[j], Reached(j, f - 1) PROVE Reached(j, f)
    <3>1. o + f \in 1..Len(l) /\ l[o + f] = F(j)
      BY <1>1
    <3>2. Sums(l, o + f) = Sums(l, (o + f) - 1) + l[o + f]
      BY <1>3, <3>1
    <3>3. f \in Nat /\ f - 1 \in Nat /\ (o + f) - 1 = o + (f - 1)
      BY <2>0
    <3>4. Sums(l, o + (f - 1)) = b + (f - 1) * F(j)
      BY <2>1
    <3> DEFINE q == (f - 1) * F(j)
               z == F(j)
    <3>5. q \in Nat /\ f * F(j) = q + z /\ z \in Nat
      BY <2>0, <3>3
    <3>6. Sums(l, o + f) = (b + q) + z
      BY <3>1, <3>2, <3>3, <3>4
    <3> HIDE DEF q, z, o, b
    <3>7. Sums(l, o + f) = b + f * F(j)
      BY <2>0, <3>5, <3>6
    <3> QED BY <3>7 DEF o, b
  <2>2. CASE c[j] = 0
    <3>1. 0..c[j] = {0}
      BY <2>2
    <3> HIDE DEF Reached
    <3> QED BY <1>5, <3>1
  <2>3. CASE c[j] # 0
    <3> HIDE DEF Reached
    <3>1. 1 \in S
      <4>1. 1 \in 1..c[j] /\ 1 - 1 = 0
        BY <2>0, <2>3
      <4> QED BY <1>5, <2>1, <4>1
    <3>2. \A f \in 1..c[j] - 1 : f \in S => f + 1 \in S
      <4> TAKE f \in 1..c[j] - 1
      <4>1. f + 1 \in 1..c[j] /\ (f + 1) - 1 = f
        BY <2>0
      <4> QED BY <2>1, <4>1
    <3>3. 1..c[j] \subseteq S
      <4> HIDE DEF S
      <4> QED BY <2>0, <3>1, <3>2, UpToInduction
    <3>4. \A f \in 0..c[j] : f = 0 \/ f \in 1..c[j]
      BY <2>0
    <3> QED BY <1>5, <3>3, <3>4
  <2> QED BY <2>2, <2>3
<1>6. Reached(1, 0)
  <2>1. 1 - 1 = 0 /\ 0 + 0 = 0 /\ 1 \in 1..n
    OBVIOUS
  <2>2. 0 * F(1) = 0
    BY <1>2, <2>1
  <2> QED BY <1>3, <1>4, <1>c, <2>1, <2>2
<1>7. ASSUME NEW j \in 1..n - 1, Reached(j, 0) PROVE Reached(j + 1, 0)
  <2>1. j \in 1..n /\ j + 1 \in 1..n /\ (j + 1) - 1 = j /\ j \in 0..n /\ j - 1 \in 0..n
    OBVIOUS
  <2>2. c[j] \in 0..c[j] /\ p[j] = c[j] * F(j) /\ 0 * F(j + 1) = 0
    BY <1>2, <2>1
  <2>3. Sums(l, Sums(c, j - 1) + c[j]) = Sums(p, j - 1) + c[j] * F(j)
    BY <1>5, <1>7, <2>1, <2>2
  <2>4. Sums(c, j - 1) + c[j] = Sums(c, j) /\ Sums(p, j - 1) + p[j] = Sums(p, j)
    BY <1>1, <1>4, <2>1
  <2>5. Sums(l, Sums(c, j)) = Sums(p, j)
    BY <2>2, <2>3, <2>4
  <2>6. Sums(c, j) \in Nat /\ Sums(p, j) \in Nat
    BY <1>1, <1>4, <2>1
  <2>7. Sums(c, j) + 0 = Sums(c, j) /\ Sums(p, j) + 0 = Sums(p, j)
    BY <2>6
  <2> QED BY <2>1, <2>2, <2>5, <2>7
<1>8. Reached(i, 0)
  <2> DEFINE S == { j \in 1..n : Reached(j, 0) }
  <2> HIDE DEF Reached
  <2>1. 1 \in S
    BY <1>6
  <2>2. \A j \in 1..n - 1 : j \in S => j + 1 \in S
    BY <1>7
  <2>3. 1..n \subseteq S
    <3> HIDE DEF S
    <3> QED BY <2>1, <2>2, UpToInduction
  <2> QED BY <2>3
<1>9. \A f \in 0..c[i] : Reached(i, f)
  BY <1>5, <1>8
<1> QED BY <1>9 DEF FrameEnd, l, c, p, F

LEMMA SegmentsAre ==
    ASSUME NEW n \in Nat, NEW ims \in [1..n -> Key]
    PROVE  Segments(ims) = { <<Sums(FrameLengths(ims), k - 1), Sums(FrameLengths(ims), k)>> :
                               k \in 1..Len(FrameLengths(ims)) }
<1> DEFINE l == FrameLengths(ims)
           Bound(k) == SumOf(SubSeq(l, 1, k))
<1>1. l \in Seq(Nat) /\ Len(l) \in Nat /\ DOMAIN l = 1..Len(l)
  BY FrameLengthsAre
<1>2. Segments(ims) = { <<Bound(k - 1), Bound(k)>> : k \in DOMAIN l }
  BY DEF Segments, FrameLengths
<1> HIDE DEF l
<1>3. ASSUME NEW k \in 0..Len(l) PROVE Bound(k) = Sums(l, k)
  <2>1. k \in Nat /\ k \in Int /\ 1 \in Int /\ \A i \in 1..k : l[i] \in Nat
    BY <1>1
  <2> DEFINE a == SubSeq(l, 1, k)
  <2>2. a \in Seq(Nat) /\ Len(a) = (IF 1 <= k THEN k - 1 + 1 ELSE 0)
        /\ \A i \in 1..k - 1 + 1 : a[i] = l[1 + i - 1]
    BY <2>1, SubSeqProperties
  <2> HIDE DEF a
  <2>3. DOMAIN a = 1..k /\ \A i \in 1..k : a[i] = l[i] /\ a[i] \in Nat
    BY <1>1, <2>1, <2>2
  <2>4. SumOf(a) = Sums(a, k)
    BY <2>1, <2>3, SumOfIs
  <2>5. Sums(a, k) = Sums(l, k)
    BY <2>3, SumsOfSame
  <2> QED BY <2>4, <2>5 DEF a
<1>4. \A k \in 1..Len(l) : k \in 0..Len(l) /\ k - 1 \in 0..Len(l)
  BY <1>1
<1> HIDE DEF Bound
<1>5. \A k \in 1..Len(l) : Bound(k) = Sums(l, k) /\ Bound(k - 1) = Sums(l, k - 1)
  BY <1>3, <1>4
<1>6. Segments(ims) = { <<Sums(l, k - 1), Sums(l, k)>> : k \in 1..Len(l) }
  BY <1>1, <1>2, <1>5
<1> QED BY <1>6 DEF l

(* A row attends to the rows of its frame.                                 *)
LEMMA AttendsFrame ==
    ASSUME NEW n \in Nat, NEW ims \in [1..n -> Key], NEW i \in 1..n,
           NEW f \in 0..Grid[ims[i]].t - 1, NEW y \in 1..FrameSize(Grid[ims[i]])
    PROVE  LET e == FrameEnd(ims, i, f)
           IN  Attends(Segments(ims), e + y) = (e + 1)..(e + FrameSize(Grid[ims[i]]))
<1> DEFINE l == FrameLengths(ims)
           c == Frames(ims)
           F == FrameSize(Grid[ims[i]])
           t == Grid[ims[i]].t
           e == FrameEnd(ims, i, f)
           N == Sums(c, i - 1) + f + 1
           r == e + y
           B(k) == Sums(l, k)
           segments == Segments(ims)
<1>1. ims[i] \in Key /\ DOMAIN ims = 1..n /\ c[i] = t
  BY DEF Frames
<1>2. t \in Nat /\ F \in Nat
  <2>1. Grid[ims[i]].t \in Nat /\ Grid[ims[i]].h \in Nat /\ Grid[ims[i]].w \in Nat
    BY <1>1, GridOf
  <2> QED BY <2>1 DEF FrameSize
<1>3. /\ l \in Seq(Nat) /\ Len(l) \in Nat /\ DOMAIN l = 1..Len(l)
      /\ \A k \in 0..n : Sums(c, k) \in 0..Len(l)
      /\ \A g \in 1..c[i] : Sums(c, i - 1) + g \in 1..Len(l)
  BY FrameLengthsAre
<1>4. /\ \A k \in 0..Len(l) : B(k) \in Nat
      /\ \A k \in 0..Len(l) : \A j \in 0..k : B(j) <= B(k)
  <2>1. \A k \in 1..Len(l) : l[k] \in Nat
    BY <1>3
  <2> QED BY <1>3, <2>1, SumsSteps
<1>5. i - 1 \in 0..n /\ f \in 0..c[i] /\ f + 1 \in 0..c[i] /\ f + 1 \in 1..c[i] /\ f \in Nat
  BY <1>1, <1>2
<1>6. N \in 1..Len(l) /\ N - 1 = Sums(c, i - 1) + f /\ N = Sums(c, i - 1) + (f + 1)
  <2>1. Sums(c, i - 1) \in Nat
    BY <1>3, <1>5
  <2>2. N = Sums(c, i - 1) + (f + 1) /\ N - 1 = Sums(c, i - 1) + f
    BY <1>5, <2>1
  <2> QED BY <1>3, <1>5, <2>2
<1>7. B(N - 1) = e /\ B(N) = FrameEnd(ims, i, f + 1)
  BY <1>5, <1>6, FrameEnds
<1>8. N - 1 \in 0..Len(l) /\ N \in 0..Len(l) /\ N \in Nat
  BY <1>3, <1>6
<1>9. e \in Nat /\ FrameEnd(ims, i, f + 1) = e + F
  <2> DEFINE p == Sums(Patches(ims), i - 1)
             x == f * F
  <2>1. p \in Nat
    <3>1. \A k \in 1..n : Patches(ims)[k] \in Nat
      BY PackSizes
    <3> QED BY <1>5, <3>1, SumsSteps
  <2>2. x \in Nat /\ (f + 1) * F = x + F
    BY <1>2, <1>5
  <2>3. e = p + x /\ FrameEnd(ims, i, f + 1) = p + (f + 1) * F
    BY DEF FrameEnd
  <2> HIDE DEF p, x, e, F
  <2> QED BY <1>2, <2>1, <2>2, <2>3
<1>10. segments = { <<B(k - 1), B(k)>> : k \in 1..Len(l) }
  BY SegmentsAre
<1> DEFINE own == <<e, e + F>>
<1>11. own \in segments /\ own[1] < r /\ r <= own[2]
  <2>1. own \in segments
    BY <1>6, <1>7, <1>9, <1>10
  <2>2. y \in 1..F
    OBVIOUS
  <2> HIDE DEF e, F, segments
  <2>3. e < r /\ r <= e + F
    BY <1>2, <1>9, <2>2
  <2> QED BY <2>1, <2>3
<1>12. ASSUME NEW s \in segments, s[1] < r, r <= s[2] PROVE s = own
  <2>1. PICK k \in 1..Len(l) : s = <<B(k - 1), B(k)>>
    BY <1>10
  <2>2. k \in Nat /\ k \in 0..Len(l) /\ k - 1 \in 0..Len(l)
    BY <1>3
  <2>3. r \in Nat /\ e < r /\ r <= e + F
    BY <1>2, <1>9, <1>11
  <2>4. B(k - 1) \in Nat /\ B(k) \in Nat /\ B(k - 1) < r /\ r <= B(k)
    BY <1>4, <1>12, <2>1, <2>2
  <2> HIDE DEF e, F, r, B, N, l
  <2>5. CASE k < N
    <3>1. k \in 0..N - 1
      BY <1>8, <2>2, <2>5
    <3>2. B(k) <= B(N - 1)
      BY <1>4, <1>8, <3>1
    <3> QED BY <1>7, <1>9, <2>3, <2>4, <3>2
  <2>6. CASE N < k
    <3>1. N \in 0..k - 1
      BY <1>8, <2>2, <2>6
    <3>2. B(N) <= B(k - 1)
      BY <1>4, <2>2, <3>1
    <3> QED BY <1>2, <1>7, <1>9, <2>3, <2>4, <3>2
  <2>7. CASE k = N
    BY <1>7, <1>9, <2>1, <2>7
  <2> QED BY <1>8, <2>2, <2>5, <2>6, <2>7
<1>13. (CHOOSE s \in segments : s[1] < r /\ r <= s[2]) = own
  <2> HIDE DEF segments, own, r
  <2> QED BY <1>11, <1>12
<1>14. Attends(segments, r) = (own[1] + 1)..own[2]
  <2> HIDE DEF segments, own, r
  <2> QED BY <1>13, Zenon DEF Attends
<1> QED BY <1>14

(***************************************************************************)
(* Every patch of an image has digits.                                     *)
(***************************************************************************)

LEMMA Unfold ==
    ASSUME NEW im \in Key, NEW f \in 0..Grid[im].t - 1, NEW z \in 0..FrameSize(Grid[im]) - 1
    PROVE  \E R \in 0..Height(Grid[im]) - 1, C \in 0..Width(Grid[im]) - 1,
              a \in 0..MergeSize - 1, b \in 0..MergeSize - 1 :
                 f * FrameSize(Grid[im]) + z = PatchNo(Grid[im], f, R, C, a, b)
<1> DEFINE g == Grid[im]
           M == MergeSize
           H == Height(g)
           W == Width(g)
           u == M * M
           A == H * W
           F == FrameSize(g)
           n == z \div u
           e == z % u
           R == n \div W
           C == n % W
           a == e \div M
           b == e % M
<1>1. M \in Nat \ {0} /\ H \in Nat \ {0} /\ W \in Nat \ {0} /\ g.t \in Nat \ {0} /\ F = A * u
  BY GridOf
<1>2. u \in Nat \ {0} /\ A \in Nat \ {0} /\ f \in Nat
  BY <1>1
<1>3. n \in 0..A - 1 /\ e \in 0..u - 1 /\ z = n * u + e
  <2>1. z \in 0..A * u - 1
    BY <1>1
  <2> HIDE DEF A, u
  <2> QED BY <1>2, <2>1, DigitsOf
<1>4. R \in 0..H - 1 /\ C \in 0..W - 1 /\ n = R * W + C
  <2>1. n \in 0..H * W - 1
    BY <1>3
  <2> HIDE DEF n
  <2> QED BY <1>1, <2>1, DigitsOf
<1>5. a \in 0..M - 1 /\ b \in 0..M - 1 /\ e = a * M + b
  <2>1. e \in 0..M * M - 1
    BY <1>3
  <2> HIDE DEF e
  <2> QED BY <1>1, <2>1, DigitsOf
<1>6. f * F + z = (f * A + (R * W + C)) * u + (a * M + b)
  <2>1. n \in Nat /\ e \in Nat
    BY <1>3, <1>2
  <2> HIDE DEF u, A, F, n, e, R, C, a, b
  <2> DEFINE p == f * A
             x == p * u
             y == n * u
  <2>2. p \in Nat /\ x \in Nat /\ y \in Nat /\ f * (A * u) = x
    BY <1>2, <2>1
  <2>3. (p + n) * u = x + y
    BY <1>2, <2>1, <2>2
  <2>4. f * F + z = x + (y + e)
    BY <1>1, <1>3, <2>2
  <2> HIDE DEF x, y
  <2>5. x + (y + e) = (x + y) + e
    BY <2>1, <2>2
  <2>6. f * F + z = (p + n) * u + e
    BY <2>3, <2>4, <2>5
  <2> QED BY <1>4, <1>5, <2>6
<1>7. f * F + z = PatchNo(g, f, R, C, a, b)
  BY <1>6 DEF PatchNo
<1> HIDE DEF R, C, a, b
<1> QED BY <1>4, <1>5, <1>7

(* The patches of a token, and where they are.                             *)
LEMMA TokenPatch ==
    ASSUME NEW im \in Key, NEW J \in 0..TokenCount(Grid[im]) - 1,
           NEW q \in 0..MergeSize * MergeSize - 1
    PROVE  LET g == Grid[im]
               A == Height(g) * Width(g)
           IN  /\ J \div A \in 0..g.t - 1
               /\ (J % A) \div Width(g) \in 0..Height(g) - 1 /\ (J % A) % Width(g) \in 0..Width(g) - 1
               /\ q \div MergeSize \in 0..MergeSize - 1 /\ q % MergeSize \in 0..MergeSize - 1
               /\ J * (MergeSize * MergeSize) + q =
                    PatchNo(g, J \div A, (J % A) \div Width(g), (J % A) % Width(g),
                            q \div MergeSize, q % MergeSize)
<1> DEFINE g == Grid[im]
           M == MergeSize
           H == Height(g)
           W == Width(g)
           u == M * M
           A == H * W
           f == J \div A
           n == J % A
           R == n \div W
           C == n % W
           a == q \div M
           b == q % M
<1>1. M \in Nat \ {0} /\ H \in Nat \ {0} /\ W \in Nat \ {0} /\ g.t \in Nat \ {0}
      /\ TokenCount(g) = g.t * A
  BY GridOf
<1>2. u \in Nat \ {0} /\ A \in Nat \ {0}
  BY <1>1
<1>3. f \in 0..g.t - 1 /\ n \in 0..A - 1 /\ J = f * A + n
  <2> DEFINE t == g.t
  <2>1. J \in 0..t * A - 1 /\ t \in Nat \ {0}
    BY <1>1
  <2> HIDE DEF A, t
  <2>2. J \div A \in 0..t - 1 /\ J % A \in 0..A - 1 /\ J = (J \div A) * A + (J % A)
    BY <1>2, <2>1, DigitsOf
  <2> QED BY <2>2 DEF t
<1>4. R \in 0..H - 1 /\ C \in 0..W - 1 /\ n = R * W + C
  <2>1. n \in 0..H * W - 1
    BY <1>3
  <2> HIDE DEF n
  <2> QED BY <1>1, <2>1, DigitsOf
<1>5. a \in 0..M - 1 /\ b \in 0..M - 1 /\ q = a * M + b
  <2>1. q \in 0..M * M - 1
    OBVIOUS
  <2> QED BY <1>1, <2>1, DigitsOf
<1>6. J * u + q = (f * A + (R * W + C)) * u + (a * M + b)
  <2> HIDE DEF f, n, R, C, a, b, u, A
  <2> QED BY <1>3, <1>4, <1>5
<1>7. J * u + q = PatchNo(g, f, R, C, a, b)
  BY <1>6 DEF PatchNo
<1> HIDE DEF f, R, C, a, b
<1>8. /\ f \in 0..g.t - 1 /\ R \in 0..H - 1 /\ C \in 0..W - 1 /\ a \in 0..M - 1 /\ b \in 0..M - 1
      /\ J * u + q = PatchNo(g, f, R, C, a, b)
  BY <1>3, <1>4, <1>5, <1>7
<1> QED BY <1>8 DEF f, R, C, a, b

(* The pixel rows of a frame are those of its places.                      *)
FramePatches(im, f) ==
    { [image |-> im, frame |-> f, at |-> p] :
        p \in (0..Grid[im].h - 1) \X (0..Grid[im].w - 1) }

LEMMA FrameSeen ==
    ASSUME NEW im \in Key, NEW f \in 0..Grid[im].t - 1
    PROVE  { PixelRows(im)[f * FrameSize(Grid[im]) + y] : y \in 1..FrameSize(Grid[im]) }
             = FramePatches(im, f)
<1> DEFINE g == Grid[im]
           M == MergeSize
           F == FrameSize(g)
           o == f * F
           seen == { PixelRows(im)[o + y] : y \in 1..F }
<1>1. /\ M \in Nat \ {0} /\ Height(g) \in Nat \ {0} /\ Width(g) \in Nat \ {0}
      /\ g.h = Height(g) * M /\ g.w = Width(g) * M /\ g.t \in Nat \ {0}
      /\ g.h \in Nat \ {0} /\ g.w \in Nat \ {0} /\ F = g.h * g.w
  BY GridOf DEF FrameSize
<1>2. F \in Nat /\ o \in Nat /\ f \in Nat
  BY <1>1
<1>3. ASSUME NEW y \in 1..F PROVE PixelRows(im)[o + y] \in FramePatches(im, f)
  <2> DEFINE z == y - 1
  <2>1. z \in 0..F - 1
    BY <1>2
  <2>2. PICK R \in 0..Height(g) - 1, C \in 0..Width(g) - 1, a \in 0..M - 1, b \in 0..M - 1 :
          o + z = PatchNo(g, f, R, C, a, b)
    <3> HIDE DEF z
    <3> QED BY <2>1, Unfold
  <2> DEFINE place == <<R * M + a, C * M + b>>
             K == PatchNo(g, f, R, C, a, b)
  <2>3. place[1] \in 0..g.h - 1 /\ place[2] \in 0..g.w - 1
        /\ PixelRows(im)[K + 1] = [image |-> im, frame |-> f, at |-> place]
    <3>1. PatchIs(im, f, R, C, a, b)
      BY PatchAt
    <3> QED BY <3>1, Zenon DEF PatchIs
  <2>4. K + 1 = o + y
    <3> HIDE DEF o, K
    <3>1. o + (y - 1) = K
      BY <2>2 DEF K
    <3> QED BY <1>2, <3>1
  <2>5. place = <<place[1], place[2]>>
    OBVIOUS
  <2> HIDE DEF place, K
  <2>6. place \in (0..g.h - 1) \X (0..g.w - 1)
    BY <2>3, <2>5
  <2>7. PixelRows(im)[o + y] = [image |-> im, frame |-> f, at |-> place]
    BY <2>3, <2>4
  <2> QED BY <2>6, <2>7 DEF FramePatches
<1>4. ASSUME NEW p \in (0..g.h - 1) \X (0..g.w - 1)
      PROVE  [image |-> im, frame |-> f, at |-> p] \in seen
  <2> DEFINE R == p[1] \div M
             a == p[1] % M
             C == p[2] \div M
             b == p[2] % M
             K == PatchNo(g, f, R, C, a, b)
             place == <<R * M + a, C * M + b>>
  <2>1. p[1] \in 0..g.h - 1 /\ p[2] \in 0..g.w - 1 /\ p = <<p[1], p[2]>>
    OBVIOUS
  <2>2. R \in 0..Height(g) - 1 /\ a \in 0..M - 1 /\ p[1] = R * M + a
    <3> DEFINE x == p[1]
               h == Height(g)
    <3>1. x \in 0..h * M - 1 /\ h \in Nat \ {0}
      BY <1>1, <2>1
    <3> HIDE DEF x, h
    <3>2. x \div M \in 0..h - 1 /\ x % M \in 0..M - 1 /\ x = (x \div M) * M + (x % M)
      BY <1>1, <3>1, DigitsOf
    <3> QED BY <3>2 DEF x, h
  <2>3. C \in 0..Width(g) - 1 /\ b \in 0..M - 1 /\ p[2] = C * M + b
    <3> DEFINE x == p[2]
               h == Width(g)
    <3>1. x \in 0..h * M - 1 /\ h \in Nat \ {0}
      BY <1>1, <2>1
    <3> HIDE DEF x, h
    <3>2. x \div M \in 0..h - 1 /\ x % M \in 0..M - 1 /\ x = (x \div M) * M + (x % M)
      BY <1>1, <3>1, DigitsOf
    <3> QED BY <3>2 DEF x, h
  <2>4. place = p
    BY <2>1, <2>2, <2>3
  <2> HIDE DEF R, C, a, b
  <2>5. /\ K % F \in 0..F - 1 /\ K = o + (K % F)
        /\ PixelRows(im)[K + 1] = [image |-> im, frame |-> f, at |-> place]
    <3>1. PatchIs(im, f, R, C, a, b)
      BY <2>2, <2>3, PatchAt
    <3> QED BY <3>1, Zenon DEF PatchIs
  <2> DEFINE y == (K % F) + 1
  <2>6. y \in 1..F /\ o + y = K + 1
    <3> DEFINE k == K % F
    <3> HIDE DEF K, o
    <3>1. k \in 0..F - 1 /\ K = o + k
      BY <2>5
    <3> HIDE DEF k, F
    <3>2. k + 1 \in 1..F /\ o + (k + 1) = K + 1
      BY <1>2, <3>1
    <3> QED BY <3>2 DEF k
  <2> HIDE DEF K, y, o, F, place
  <2> QED BY <2>4, <2>5, <2>6
<1>5. seen \subseteq FramePatches(im, f)
  <2> HIDE DEF o, F
  <2> QED BY <1>3
<1>6. FramePatches(im, f) \subseteq seen
  <2> HIDE DEF seen
  <2> QED BY <1>4 DEF FramePatches
<1> QED BY <1>5, <1>6

(***************************************************************************)
(* The position of a patch in the table.                                   *)
(***************************************************************************)

(* Below and above a point lie entries of the table, and the fraction is   *)
(* that of linear interpolation between them.                              *)
LEMMA Between ==
    ASSUME NEW n \in Nat \ {0}, NEW i \in 0..n - 1
    PROVE  /\ Below(i, n) \in 0..Side - 1 /\ Above(i, n) \in 0..Side - 1
           /\ Steps(n) \in Nat \ {0} /\ Fraction(i, n) \in 0..Steps(n) - 1
           /\ (Steps(n) - Fraction(i, n)) * Below(i, n) + Fraction(i, n) * Above(i, n)
                = i * (Side - 1)
<1> DEFINE s == Steps(n)
           m == Side - 1
           x == i * m
           b == Below(i, n)
           f == Fraction(i, n)
           a == Above(i, n)
<1>1. m \in Nat /\ m + 1 = Side /\ i \in Nat /\ i <= n - 1
  BY TowerAssumption
<1>2. s \in Nat \ {0} /\ i <= s
  BY DEF Steps
<1> HIDE DEF s, m
<1>3. x \in Nat /\ x <= s * m /\ s * m = m * s /\ m * s \in Nat
  <2>1. \E k \in Nat : s = i + k
    <3>1. s - i \in Nat /\ s = i + (s - i)
      BY <1>1, <1>2
    <3> QED BY <3>1
  <2>2. PICK k \in Nat : s = i + k
    BY <2>1
  <2>3. (i + k) * m = i * m + k * m /\ i * m \in Nat /\ k * m \in Nat
    BY <1>1
  <2>4. i * m <= i * m + k * m
    <3> DEFINE p == i * m
               q == k * m
    <3>1. p \in Nat /\ q \in Nat
      BY <2>3
    <3> HIDE DEF p, q
    <3>2. p <= p + q
      BY <3>1
    <3> QED BY <3>2 DEF p, q
  <2>5. s * m = m * s /\ m * s \in Nat
    BY <1>1, <1>2
  <2>6. i * m <= s * m
    BY <2>2, <2>3, <2>4
  <2> QED BY <2>3, <2>5, <2>6
<1>4. b = x \div s /\ f = x % s
  BY DEF Below, Fraction, s, m
<1>5. a = IF b + 1 < Side THEN b + 1 ELSE Side - 1
  BY DEF Above
<1> HIDE DEF x, b, f, a
<1>6. b \in Nat /\ f \in 0..s - 1 /\ x = s * b + f /\ \A k \in Nat : x < k * s => b < k
  BY <1>2, <1>3, <1>4, Quotient
<1>7. b < m + 1
  <2>1. (m + 1) * s = m * s + s
    BY <1>1, <1>2
  <2> DEFINE p == m * s
             q == (m + 1) * s
  <2>2. x <= p /\ p \in Nat /\ q = p + s
    BY <1>3, <2>1
  <2> HIDE DEF p, q
  <2>3. x < q
    BY <1>2, <1>3, <2>2
  <2>4. m + 1 \in Nat /\ x < (m + 1) * s
    BY <1>1, <2>3 DEF q
  <2> QED BY <1>6, <2>4
<1>8. b \in 0..Side - 1 /\ a \in 0..Side - 1
  BY <1>1, <1>5, <1>6, <1>7
<1>9. (s - f) * b + f * a = x
  <2>0. f \in Nat /\ s - f \in Nat /\ s \in Nat
    BY <1>2, <1>6
  <2>1. CASE b + 1 < Side
    <3>1. a = b + 1
      BY <1>5, <2>1
    <3>2. f * (b + 1) = f * b + f
      BY <1>6, <2>0
    <3>3. (s - f) * b + f * b = s * b
      BY <1>6, <2>0
    <3>4. (s - f) * b \in Nat /\ f * b \in Nat /\ s * b \in Nat
      BY <1>6, <2>0
    <3> DEFINE p == (s - f) * b
               q == f * b
               r == s * b
    <3>5. p \in Nat /\ q \in Nat /\ r \in Nat /\ p + q = r /\ f * a = q + f /\ x = r + f
      BY <1>6, <3>1, <3>2, <3>3, <3>4
    <3> HIDE DEF p, q, r
    <3>6. p + f * a = x
      BY <2>0, <3>5
    <3> QED BY <3>6 DEF p
  <2>2. CASE ~(b + 1 < Side)
    <3>1. b = m /\ a = m
      BY <1>1, <1>5, <1>6, <1>7, <2>2
    <3>2. f = 0
      <4> DEFINE p == s * m
      <4>1. p \in Nat /\ x <= p /\ x = p + f
        BY <1>3, <1>6, <3>1
      <4> HIDE DEF p
      <4> QED BY <1>3, <2>0, <4>1
    <3>3. 0 * a = 0 /\ s - 0 = s
      BY <1>1, <2>0, <3>1
    <3>4. x = s * b + 0 /\ s * b \in Nat
      BY <1>1, <1>2, <1>6, <3>1, <3>2
    <3> QED BY <3>2, <3>3, <3>4
  <2> QED BY <2>1, <2>2
<1> QED BY <1>2, <1>6, <1>8, <1>9 DEF s, m, x, b, f, a

(* Products of sums.                                                       *)
LEMMA FourProducts ==
    ASSUME NEW r \in Nat, NEW f \in Nat, NEW p \in Nat, NEW q \in Nat, NEW c \in Nat, NEW d \in Nat
    PROVE  /\ (r * p) * c + (r * q) * c + (f * p) * d + (f * q) * d = (r * c + f * d) * (p + q)
           /\ (r * p) * c + (r * q) * d + (f * p) * c + (f * q) * d = (p * c + q * d) * (r + f)
<1>1. /\ (r * p) * c = (r * c) * p /\ (r * q) * c = (r * c) * q
      /\ (f * p) * d = (f * d) * p /\ (f * q) * d = (f * d) * q
  OBVIOUS
<1>2. /\ (r * p) * c = (p * c) * r /\ (r * q) * d = (q * d) * r
      /\ (f * p) * c = (p * c) * f /\ (f * q) * d = (q * d) * f
  OBVIOUS
<1>3. ASSUME NEW a \in Nat, NEW b \in Nat, NEW x \in Nat, NEW y \in Nat
      PROVE  /\ a * x + a * y + b * x + b * y = (a + b) * (x + y)
             /\ a * x + b * x + a * y + b * y = (a + b) * (x + y)
  OBVIOUS
<1>4. r * c \in Nat /\ f * d \in Nat /\ p * c \in Nat /\ q * d \in Nat
  OBVIOUS
<1> DEFINE a == r * c
           b == f * d
           g == p * c
           h == q * d
<1>5. a * p + a * q + b * p + b * q = (a + b) * (p + q)
  <2>1. a \in Nat /\ b \in Nat
    BY <1>4
  <2> HIDE DEF a, b
  <2> QED BY <1>3, <2>1
<1>6. g * r + h * r + g * f + h * f = (g + h) * (r + f)
  <2>1. g \in Nat /\ h \in Nat
    BY <1>4
  <2> HIDE DEF g, h
  <2> QED BY <1>3, <2>1
<1>7. (r * p) * c + (r * q) * c + (f * p) * d + (f * q) * d = (r * c + f * d) * (p + q)
  BY <1>1, <1>5
<1>8. (r * p) * c + (r * q) * d + (f * p) * c + (f * q) * d = (p * c + q * d) * (r + f)
  BY <1>2, <1>6
<1> QED BY <1>7, <1>8

LEMMA CornersInterpolate ==
    ASSUME NEW im \in Key, NEW place, place[1] \in 0..Grid[im].h - 1, place[2] \in 0..Grid[im].w - 1
    PROVE  Interpolates(Corners(Grid[im], place[1], place[2]), Grid[im], place)
<1> DEFINE g  == Grid[im]
           y  == place[1]
           x  == place[2]
           sh == Steps(g.h)
           sw == Steps(g.w)
           fy == Fraction(y, g.h)
           fx == Fraction(x, g.w)
           ry == sh - fy
           rx == sw - fx
           by == Below(y, g.h)
           ay == Above(y, g.h)
           bx == Below(x, g.w)
           ax == Above(x, g.w)
           C  == Corners(g, y, x)
           S  == Side
           v  == y * (S - 1)
           z  == x * (S - 1)
<1>0. g.h \in Nat \ {0} /\ g.w \in Nat \ {0} /\ S \in Nat \ {0} /\ y \in 0..g.h - 1 /\ x \in 0..g.w - 1
  BY GridOf, TowerAssumption
<1>1. /\ by \in 0..S - 1 /\ ay \in 0..S - 1 /\ sh \in Nat \ {0} /\ fy \in 0..sh - 1
      /\ ry * by + fy * ay = v
  <2> DEFINE h == g.h
  <2>1. h \in Nat \ {0} /\ y \in 0..h - 1
    BY <1>0
  <2> HIDE DEF h, y
  <2>2. /\ Below(y, h) \in 0..Side - 1 /\ Above(y, h) \in 0..Side - 1
        /\ Steps(h) \in Nat \ {0} /\ Fraction(y, h) \in 0..Steps(h) - 1
        /\ (Steps(h) - Fraction(y, h)) * Below(y, h) + Fraction(y, h) * Above(y, h) = y * (Side - 1)
    BY <2>1, Between
  <2> QED BY <2>2 DEF h
<1>2. /\ bx \in 0..S - 1 /\ ax \in 0..S - 1 /\ sw \in Nat \ {0} /\ fx \in 0..sw - 1
      /\ rx * bx + fx * ax = z
  <2> DEFINE h == g.w
  <2>1. h \in Nat \ {0} /\ x \in 0..h - 1
    BY <1>0
  <2> HIDE DEF h, x
  <2>2. /\ Below(x, h) \in 0..Side - 1 /\ Above(x, h) \in 0..Side - 1
        /\ Steps(h) \in Nat \ {0} /\ Fraction(x, h) \in 0..Steps(h) - 1
        /\ (Steps(h) - Fraction(x, h)) * Below(x, h) + Fraction(x, h) * Above(x, h) = x * (Side - 1)
    BY <2>1, Between
  <2> QED BY <2>2 DEF h
<1>3. C = << <<by * S + bx, ry * rx>>, <<by * S + ax, ry * fx>>,
             <<ay * S + bx, fy * rx>>, <<ay * S + ax, fy * fx>> >>
  BY DEF Corners
<1>4. Interpolates(C, g, place) <=>
        /\ DOMAIN C = 1..4
        /\ \A i \in 1..4 : C[i][1] \in 0..S * S - 1 /\ C[i][2] >= 0
        /\ Mean(C, [ i \in 1..4 |-> 1 ])              = sh * sw
        /\ Mean(C, [ i \in 1..4 |-> C[i][1] \div S ]) = v * sw
        /\ Mean(C, [ i \in 1..4 |-> C[i][1] % S ])    = z * sh
  BY DEF Interpolates
<1> HIDE DEF C, by, ay, bx, ax, fy, fx, sh, sw, v, z, S, g, y, x
<1>5. ry \in Nat /\ rx \in Nat /\ fy \in Nat /\ fx \in Nat /\ ry + fy = sh /\ rx + fx = sw
      /\ by \in Nat /\ ay \in Nat /\ bx \in Nat /\ ax \in Nat
  BY <1>1, <1>2
<1> HIDE DEF ry, rx
<1>6. /\ C[1] = <<by * S + bx, ry * rx>> /\ C[2] = <<by * S + ax, ry * fx>>
      /\ C[3] = <<ay * S + bx, fy * rx>> /\ C[4] = <<ay * S + ax, fy * fx>> /\ DOMAIN C = 1..4
  BY <1>3
<1>7. /\ C[1][1] = by * S + bx /\ C[2][1] = by * S + ax
      /\ C[3][1] = ay * S + bx /\ C[4][1] = ay * S + ax
      /\ C[1][2] = ry * rx /\ C[2][2] = ry * fx /\ C[3][2] = fy * rx /\ C[4][2] = fy * fx
  BY <1>6
<1>8. ASSUME NEW p \in 0..S - 1, NEW q \in 0..S - 1
      PROVE  p * S + q \in 0..S * S - 1 /\ (p * S + q) \div S = p /\ (p * S + q) % S = q
  <2>1. p \in Nat
    BY <1>0
  <2> QED BY <1>0, <2>1, DigitsBelow, Digits
<1>9. ry * rx \in Nat /\ ry * fx \in Nat /\ fy * rx \in Nat /\ fy * fx \in Nat
  BY <1>5
<1>10. \A i \in 1..4 : C[i][1] \in 0..S * S - 1 /\ C[i][2] >= 0
  <2>1. \A i \in 1..4 : i = 1 \/ i = 2 \/ i = 3 \/ i = 4
    OBVIOUS
  <2>2. \A k \in Nat : k >= 0
    OBVIOUS
  <2>3. /\ C[1][1] \in 0..S * S - 1 /\ C[2][1] \in 0..S * S - 1
        /\ C[3][1] \in 0..S * S - 1 /\ C[4][1] \in 0..S * S - 1
    BY <1>1, <1>2, <1>7, <1>8
  <2>4. C[1][2] >= 0 /\ C[2][2] >= 0 /\ C[3][2] >= 0 /\ C[4][2] >= 0
    BY <1>7, <1>9, <2>2
  <2> QED BY <2>1, <2>3, <2>4
<1>11. ASSUME NEW m PROVE Mean(C, m) = (ry * rx) * m[1] + (ry * fx) * m[2] + (fy * rx) * m[3] + (fy * fx) * m[4]
  BY <1>7 DEF Mean
<1> DEFINE ones == [ i \in 1..4 |-> 1 ]
           divs == [ i \in 1..4 |-> C[i][1] \div S ]
           mods == [ i \in 1..4 |-> C[i][1] % S ]
<1>12. Mean(C, ones) = sh * sw
  <2>1. ones[1] = 1 /\ ones[2] = 1 /\ ones[3] = 1 /\ ones[4] = 1
    OBVIOUS
  <2>2. Mean(C, ones) = (ry * rx) * 1 + (ry * fx) * 1 + (fy * rx) * 1 + (fy * fx) * 1
    <3> HIDE DEF ones
    <3> QED BY <1>11, <2>1
  <2>3. (ry * rx) * 1 + (ry * fx) * 1 + (fy * rx) * 1 + (fy * fx) * 1 = (ry * 1 + fy * 1) * (rx + fx)
    BY <1>5, FourProducts
  <2>4. ry * 1 + fy * 1 = sh
    BY <1>5
  <2> QED BY <1>5, <2>2, <2>3, <2>4
<1>13. Mean(C, divs) = v * sw
  <2>1. divs[1] = by /\ divs[2] = by /\ divs[3] = ay /\ divs[4] = ay
    BY <1>1, <1>2, <1>7, <1>8
  <2>2. Mean(C, divs) = (ry * rx) * by + (ry * fx) * by + (fy * rx) * ay + (fy * fx) * ay
    <3> HIDE DEF divs
    <3> QED BY <1>11, <2>1
  <2>3. (ry * rx) * by + (ry * fx) * by + (fy * rx) * ay + (fy * fx) * ay = (ry * by + fy * ay) * (rx + fx)
    BY <1>5, FourProducts
  <2> QED BY <1>1, <1>5, <2>2, <2>3
<1>14. Mean(C, mods) = z * sh
  <2>1. mods[1] = bx /\ mods[2] = ax /\ mods[3] = bx /\ mods[4] = ax
    BY <1>1, <1>2, <1>7, <1>8
  <2>2. Mean(C, mods) = (ry * rx) * bx + (ry * fx) * ax + (fy * rx) * bx + (fy * fx) * ax
    <3> HIDE DEF mods
    <3> QED BY <1>11, <2>1
  <2>3. (ry * rx) * bx + (ry * fx) * ax + (fy * rx) * bx + (fy * fx) * ax = (rx * bx + fx * ax) * (ry + fy)
    BY <1>5, FourProducts
  <2> QED BY <1>2, <1>5, <2>2, <2>3
<1>15. Interpolates(C, g, place)
  <2> HIDE DEF ones, divs, mods
  <2> QED BY <1>4, <1>6, <1>10, <1>12, <1>13, <1>14 DEF ones, divs, mods
<1> QED BY <1>15 DEF C, g, y, x

(***************************************************************************)
(* The rows of a pack.                                                     *)
(***************************************************************************)

(* One row for each patch of each image.                                   *)
PatchRows(row, im) == row = [ k \in 1..PatchCount(Grid[im]) |-> row[k] ]
PatchPack(x, ims, rows, n) ==
    /\ DOMAIN x = 1..Sums(Patches(ims), n)
    /\ \A i \in 1..n : \A k \in 1..PatchCount(Grid[ims[i]]) :
          /\ Sums(Patches(ims), i - 1) + k \in 1..Sums(Patches(ims), n)
          /\ x[Sums(Patches(ims), i - 1) + k] = rows[ims[i]][k]

LEMMA RowsPacked ==
    ASSUME NEW n \in Nat, NEW ims \in [1..n -> Key], NEW rows,
           \A i \in 1..n : PatchRows(rows[ims[i]], ims[i])
    PROVE  PatchPack(Packed(ims, rows), ims, rows, n)
<1> DEFINE T == { rows[ims[i]][k] : i \in 1..n, k \in Nat }
           w == Patches(ims)
<1>1. DOMAIN ims = 1..n /\ \A i \in 1..n : ims[i] \in Key
  OBVIOUS
<1>2. ASSUME NEW i \in 1..n PROVE w[i] = PatchCount(Grid[ims[i]]) /\ w[i] \in Nat
  BY <1>1, PackSizes DEF Patches
<1>3. ASSUME NEW i \in 1..n PROVE rows[ims[i]] \in Seq(T) /\ w[i] = Len(rows[ims[i]])
  <2> DEFINE row == rows[ims[i]]
             c == PatchCount(Grid[ims[i]])
  <2>1. c \in Nat /\ w[i] = c /\ row = [ k \in 1..c |-> row[k] ]
    BY <1>2 DEF PatchRows
  <2>2. \A k \in Nat : row[k] \in T
    OBVIOUS
  <2>3. \A k \in 1..c : k \in Nat
    BY <2>1
  <2> HIDE DEF row, c, T, w
  <2>4. row \in [1..c -> T]
    BY <2>1, <2>2, <2>3
  <2>5. row \in Seq(T) /\ Len(row) = c
    BY <2>1, <2>4
  <2> QED BY <2>1, <2>5 DEF row
<1> HIDE DEF T, w
<1>4. PackOf(Packed(ims, rows), T, ims, rows, w, n)
  BY <1>1, <1>3, PackedFacts
<1> QED BY <1>2, <1>4 DEF PackOf, PatchPack, w

LEMMA FramesHavePatches ==
    ASSUME NEW im \in Key
    PROVE  FrameSize(Grid[im]) \in Nat \ {0}
<1> DEFINE h == Grid[im].h
           w == Grid[im].w
<1>1. h \in Nat \ {0} /\ w \in Nat \ {0}
  BY GridOf
<1>2. FrameSize(Grid[im]) = h * w
  BY DEF FrameSize
<1> HIDE DEF h, w
<1>3. h * w \in Nat \ {0}
  BY <1>1
<1> QED BY <1>2, <1>3

LEMMA HiddenAt ==
    ASSUME NEW n \in Nat, NEW ims \in [1..n -> Key], NEW blocks, NEW i \in 1..n,
           NEW im, im = ims[i],
           NEW f \in 0..Grid[im].t - 1, NEW R \in 0..Height(Grid[im]) - 1,
           NEW C \in 0..Width(Grid[im]) - 1, NEW a \in 0..MergeSize - 1,
           NEW b \in 0..MergeSize - 1
    PROVE  LET K == PatchNo(Grid[im], f, R, C, a, b)
               r == Sums(Patches(ims), i - 1) + (K + 1)
           IN  /\ r \in DOMAIN Hidden(ims, blocks)
               /\ OwnRow(Hidden(ims, blocks)[r], im, f,
                         <<R * MergeSize + a, C * MergeSize + b>>, blocks)
<1> DEFINE g  == Grid[im]
           K  == PatchNo(g, f, R, C, a, b)
           F  == FrameSize(g)
           p  == Sums(Patches(ims), i - 1)
           r  == p + (K + 1)
           place == <<R * MergeSize + a, C * MergeSize + b>>
           pixelRows  == [ m \in SE!ToSet(ims) |-> PixelRows(m) ]
           posRows    == [ m \in SE!ToSet(ims) |-> PosRows(m) ]
           rotaryRows == [ m \in SE!ToSet(ims) |-> RotaryRows(m) ]
           pixels     == Packed(ims, pixelRows)
           pos        == Packed(ims, posRows)
           rotary     == Packed(ims, rotaryRows)
           segments   == Segments(ims)
           S == Sums(Patches(ims), n)
           row == Hidden(ims, blocks)[r]
<1>1. im \in Key /\ DOMAIN ims = 1..n /\ \A j \in 1..n : ims[j] \in Key /\ ims[j] \in SE!ToSet(ims)
  BY DEF SE!ToSet
<1>2. /\ K \in 0..PatchCount(g) - 1 /\ K % F \in 0..F - 1 /\ K = f * F + (K % F)
      /\ place[1] \in 0..g.h - 1 /\ place[2] \in 0..g.w - 1
      /\ PixelRows(im)[K + 1] = [image |-> im, frame |-> f, at |-> place]
      /\ RotaryRows(im)[K + 1] = place
      /\ PosRows(im)[K + 1] = Corners(g, place[1], place[2])
  <2>1. PatchIs(im, f, R, C, a, b)
    BY <1>1, PatchAt
  <2> QED BY <2>1, Zenon DEF PatchIs
<1>3. /\ g.t \in Nat \ {0} /\ PatchCount(g) = g.t * F /\ PatchCount(g) \in Nat \ {0} /\ F \in Nat \ {0}
  BY <1>1, GridOf, FramesHavePatches
<1>p. p \in Nat
  <2>1. \A k \in 1..n : Patches(ims)[k] \in Nat
    BY PackSizes
  <2>2. i - 1 \in 0..n
    OBVIOUS
  <2> QED BY <2>1, <2>2, SumsSteps
<1>4. K + 1 \in 1..PatchCount(g)
  <2> DEFINE N == PatchCount(g)
  <2>1. K \in 0..N - 1 /\ N \in Nat \ {0}
    BY <1>2, <1>3
  <2> HIDE DEF K, N
  <2>2. K + 1 \in 1..N
    BY <2>1
  <2> QED BY <2>2 DEF N
<1>5. \A m : /\ PatchRows(PixelRows(m), m) /\ PatchRows(PosRows(m), m)
             /\ PatchRows(RotaryRows(m), m)
  <2> TAKE m
  <2>1. PatchRows(PixelRows(m), m)
    BY DEF PixelRows, PatchRows
  <2>2. PatchRows(PosRows(m), m)
    BY DEF PosRows, PatchRows
  <2>3. PatchRows(RotaryRows(m), m)
    BY DEF RotaryRows, PatchRows
  <2> QED BY <2>1, <2>2, <2>3
<1>6. /\ DOMAIN pixels = 1..S
      /\ \A k \in 1..PatchCount(g) : p + k \in 1..S /\ pixels[p + k] = PixelRows(im)[k]
  <2>1. \A j \in 1..n : pixelRows[ims[j]] = PixelRows(ims[j])
    BY <1>1
  <2> HIDE DEF pixelRows
  <2>2. PatchPack(pixels, ims, pixelRows, n)
    BY <1>5, <2>1, RowsPacked
  <2> HIDE DEF pixels
  <2> QED BY <2>1, <2>2 DEF PatchPack
<1>7. \A k \in 1..PatchCount(g) : pos[p + k] = PosRows(im)[k]
  <2>1. \A j \in 1..n : posRows[ims[j]] = PosRows(ims[j])
    BY <1>1
  <2> HIDE DEF posRows
  <2>2. PatchPack(pos, ims, posRows, n)
    BY <1>5, <2>1, RowsPacked
  <2> HIDE DEF pos
  <2> QED BY <2>1, <2>2 DEF PatchPack
<1>8. \A k \in 1..PatchCount(g) : rotary[p + k] = RotaryRows(im)[k]
  <2>1. \A j \in 1..n : rotaryRows[ims[j]] = RotaryRows(ims[j])
    BY <1>1
  <2> HIDE DEF rotaryRows
  <2>2. PatchPack(rotary, ims, rotaryRows, n)
    BY <1>5, <2>1, RowsPacked
  <2> HIDE DEF rotary
  <2> QED BY <2>1, <2>2 DEF PatchPack
<1>9. Hidden(ims, blocks) =
        [ j \in DOMAIN pixels |->
            [patch |-> pixels[j], pos |-> pos[j], rotary |-> rotary[j],
             knows |-> { pixels[k] : k \in Attends(segments, j) }, blocks |-> blocks] ]
  BY DEF Hidden
<1>10. r \in 1..S /\ r \in DOMAIN Hidden(ims, blocks)
  <2> HIDE DEF pixels, K
  <2> QED BY <1>4, <1>6, <1>9
<1>11. row = [patch |-> pixels[r], pos |-> pos[r], rotary |-> rotary[r],
              knows |-> { pixels[k] : k \in Attends(segments, r) }, blocks |-> blocks]
  <2> HIDE DEF pixels, pos, rotary, segments, r
  <2> QED BY <1>6, <1>9, <1>10
<1>12. { pixels[k] : k \in Attends(segments, r) } = FramePatches(im, f)
  <2> DEFINE e == FrameEnd(ims, i, f)
             y == (K % F) + 1
             o == f * F
  <2>1. e = p + o /\ o \in Nat
    BY <1>3 DEF FrameEnd
  <2>2. y \in 1..F /\ r = e + y
    <3> DEFINE z == K % F
    <3> HIDE DEF K, F, p, e
    <3>1. z \in 0..F - 1 /\ K = o + z
      BY <1>2
    <3> HIDE DEF z, o
    <3>2. z + 1 \in 1..F /\ p + (K + 1) = (p + o) + (z + 1)
      <4>1. F \in Nat /\ o \in Nat
        BY <1>3, <2>1
      <4>2. z \in Nat /\ z + 1 \in 1..F /\ K + 1 = o + (z + 1)
        BY <3>1, <4>1
      <4> QED BY <1>p, <4>1, <4>2
    <3> QED BY <2>1, <3>2 DEF z
  <2> HIDE DEF y, r, K
  <2>3. Attends(segments, r) = (e + 1)..(e + F)
    BY <2>2, AttendsFrame
  <2>4. ASSUME NEW z \in 1..F PROVE pixels[e + z] = PixelRows(im)[o + z]
    <3>1. o + z \in 1..PatchCount(g)
      <4> DEFINE t == g.t
      <4>1. t \in Nat \ {0} /\ f \in 0..t - 1 /\ PatchCount(g) = t * F /\ t * F \in Nat
        BY <1>3
      <4> HIDE DEF t, F
      <4>2. z - 1 \in 0..F - 1
        BY <1>3
      <4>3. f * F + (z - 1) \in 0..t * F - 1
        BY <1>3, <4>1, <4>2, DigitsBelow
      <4> DEFINE s == t * F
      <4>4. o + (z - 1) \in 0..s - 1 /\ s \in Nat
        BY <4>1, <4>3
      <4> HIDE DEF s, o
      <4>5. o + z \in 1..s
        BY <1>3, <2>1, <4>4
      <4> QED BY <4>1, <4>5 DEF s
    <3>2. e + z = p + (o + z)
      <4> HIDE DEF e, p, o
      <4> QED BY <1>3, <1>p, <2>1
    <3> HIDE DEF pixels, p, o, e, F
    <3> QED BY <1>6, <3>1, <3>2
  <2>5. \A k : k \in (e + 1)..(e + F) <=> \E z \in 1..F : k = e + z
    <3>1. e \in Nat
      BY <1>p, <2>1
    <3> HIDE DEF e, F
    <3> TAKE k
    <3>2. ASSUME k \in (e + 1)..(e + F) PROVE \E z \in 1..F : k = e + z
      <4>1. k - e \in 1..F /\ k = e + (k - e)
        BY <1>3, <3>1, <3>2
      <4> QED BY <4>1
    <3>3. ASSUME NEW z \in 1..F PROVE e + z \in (e + 1)..(e + F)
      BY <1>3, <3>1
    <3> QED BY <3>2, <3>3
  <2>6. { pixels[k] : k \in (e + 1)..(e + F) } = { PixelRows(im)[o + z] : z \in 1..F }
    <3> HIDE DEF pixels, e, o, F
    <3>1. ASSUME NEW k \in (e + 1)..(e + F) PROVE \E z \in 1..F : pixels[k] = PixelRows(im)[o + z]
      BY <2>4, <2>5
    <3>2. ASSUME NEW z \in 1..F PROVE \E k \in (e + 1)..(e + F) : PixelRows(im)[o + z] = pixels[k]
      BY <2>4, <2>5
    <3> QED BY <3>1, <3>2
  <2>7. { PixelRows(im)[o + z] : z \in 1..F } = FramePatches(im, f)
    BY <1>1, FrameSeen
  <2> QED BY <2>3, <2>6, <2>7
<1>13. pixels[r] = [image |-> im, frame |-> f, at |-> place] /\ rotary[r] = place
       /\ pos[r] = Corners(g, place[1], place[2])
  <2> HIDE DEF pixels, pos, rotary, K, place
  <2> QED BY <1>2, <1>4, <1>6, <1>7, <1>8
<1>14. Interpolates(Corners(g, place[1], place[2]), g, place)
  <2> HIDE DEF place
  <2> QED BY <1>1, <1>2, CornersInterpolate
<1>15. OwnRow(row, im, f, place, blocks)
  <2> HIDE DEF row, place, pixels, pos, rotary, r, segments
  <2>1. row.patch = pixels[r] /\ row.pos = pos[r] /\ row.rotary = rotary[r]
        /\ row.knows = { pixels[k] : k \in Attends(segments, r) } /\ row.blocks = blocks
    BY <1>11
  <2> QED BY <1>12, <1>13, <1>14, <2>1 DEF OwnRow, FramePatches
<1> QED BY <1>10, <1>15

LEMMA HiddenSize ==
    ASSUME NEW n \in Nat, NEW ims \in [1..n -> Key], NEW blocks
    PROVE  /\ DOMAIN Hidden(ims, blocks) = 1..Sums(Patches(ims), n)
           /\ Len(Hidden(ims, blocks)) = Sums(Patches(ims), n)
           /\ Sums(Patches(ims), n) = Sums(Tokens(ims), n) * (MergeSize * MergeSize)
           /\ Sums(Patches(ims), n) \in Nat /\ Sums(Tokens(ims), n) \in Nat
           /\ \A i \in 1..n : /\ Sums(Tokens(ims), i - 1) \in Nat
                             /\ Sums(Patches(ims), i - 1) = Sums(Tokens(ims), i - 1) * (MergeSize * MergeSize)
                             /\ Sums(Tokens(ims), i - 1) + TokenCount(Grid[ims[i]]) \in 1..Sums(Tokens(ims), n)
<1> DEFINE rows == [ m \in SE!ToSet(ims) |-> PixelRows(m) ]
           x == Packed(ims, rows)
           N == Sums(Patches(ims), n)
           h == Hidden(ims, blocks)
           to == Tokens(ims)
<1>1. DOMAIN ims = 1..n /\ \A j \in 1..n : ims[j] \in Key /\ ims[j] \in SE!ToSet(ims)
  BY DEF SE!ToSet
<1>2. \A j \in 1..n : PatchRows(rows[ims[j]], ims[j])
  <2>1. \A m : PatchRows(PixelRows(m), m)
    BY DEF PixelRows, PatchRows
  <2> QED BY <1>1, <2>1
<1>3. DOMAIN x = 1..N
  <2> HIDE DEF rows
  <2> QED BY <1>2, RowsPacked DEF PatchPack
<1>4. DOMAIN h = DOMAIN x
  BY DEF Hidden
<1>5. /\ \A k \in 1..n : to[k] = TokenCount(Grid[ims[k]]) /\ to[k] \in Nat /\ to[k] # 0
      /\ \A k \in 1..n : Patches(ims)[k] \in Nat
      /\ \A k \in 0..n : Sums(Patches(ims), k) = Sums(to, k) * (MergeSize * MergeSize)
  <2>1. ASSUME NEW k \in 1..n PROVE to[k] = TokenCount(Grid[ims[k]]) /\ to[k] \in Nat /\ to[k] # 0
    BY <1>1, GridOf DEF Tokens
  <2> QED BY <2>1, PackSizes
<1> HIDE DEF to
<1>6. /\ \A k \in 0..n : Sums(to, k) \in Nat
      /\ \A k \in 1..n : Sums(to, k) = Sums(to, k - 1) + to[k]
      /\ \A k \in 0..n : \A j \in 0..k : Sums(to, j) <= Sums(to, k)
  BY <1>5, SumsSteps
<1>7. \A k \in 0..n : Sums(Patches(ims), k) \in Nat
  BY <1>5, SumsSteps
<1>8. N \in Nat /\ Sums(to, n) \in Nat /\ N = Sums(to, n) * (MergeSize * MergeSize)
  <2>1. n \in 0..n
    OBVIOUS
  <2> QED BY <1>5, <1>6, <1>7, <2>1
<1>9. ASSUME NEW i \in 1..n
      PROVE  /\ Sums(to, i - 1) \in Nat
             /\ Sums(Patches(ims), i - 1) = Sums(to, i - 1) * (MergeSize * MergeSize)
             /\ Sums(to, i - 1) + TokenCount(Grid[ims[i]]) \in 1..Sums(to, n)
  <2>1. i - 1 \in 0..n /\ i \in 0..n /\ n \in 0..n
    OBVIOUS
  <2>2. Sums(to, i - 1) \in Nat /\ Sums(to, i) <= Sums(to, n) /\ Sums(to, i) \in Nat
        /\ Sums(to, i) = Sums(to, i - 1) + to[i]
    BY <1>6, <2>1
  <2>3. to[i] = TokenCount(Grid[ims[i]]) /\ to[i] \in Nat \ {0}
    BY <1>5
  <2>4. Sums(to, i - 1) + to[i] \in 1..Sums(to, n)
    BY <1>8, <2>2, <2>3
  <2> QED BY <1>5, <2>1, <2>2, <2>3, <2>4
<1>10. Len(h) = N
  <2> HIDE DEF N, h
  <2> QED BY <1>3, <1>4, <1>8
<1> QED BY <1>3, <1>4, <1>8, <1>9, <1>10 DEF to

(* A feature is merged from the rows of its square.                        *)
LEMMA MergedAt ==
    ASSUME NEW rows, NEW m \in Nat, Len(rows) = m * (MergeSize * MergeSize)
    PROVE  /\ DOMAIN MergedRows(rows) = 1..m
           /\ \A j \in 1..m : \A q \in 1..MergeSize * MergeSize :
                 MergedRows(rows)[j][q] = rows[(j - 1) * (MergeSize * MergeSize) + q]
<1> DEFINE u == MergeSize * MergeSize
<1>1. u \in Nat \ {0}
  BY MetadataAssumption
<1>2. Len(rows) \div u = m
  <2>1. 0 \in 0..u - 1 /\ m * u + 0 = m * u /\ m * u \in Nat
    BY <1>1
  <2>2. (m * u + 0) \div u = m
    BY <1>1, <2>1, Digits
  <2> QED BY <2>1, <2>2
<1>3. MergedRows(rows) = [ j \in 1..m |-> SubSeq(rows, (j - 1) * u + 1, j * u) ]
  BY <1>2 DEF MergedRows
<1> HIDE DEF u
<1>4. ASSUME NEW j \in 1..m, NEW q \in 1..u
      PROVE  MergedRows(rows)[j][q] = rows[(j - 1) * u + q]
  <2> DEFINE x == (j - 1) * u
             y == j * u
             T == { rows[k] : k \in Int }
  <2>1. x \in Nat /\ y \in Nat /\ y = x + u
    BY <1>1
  <2>2. MergedRows(rows)[j] = SubSeq(rows, x + 1, y)
    BY <1>3
  <2>3. \A k \in Int : rows[k] \in T
    OBVIOUS
  <2> HIDE DEF x, y, T
  <2>4. x + 1 \in Int /\ y \in Int /\ \A k \in (x + 1)..y : rows[k] \in T
    BY <2>1, <2>3
  <2>5. \A k \in 1..y - (x + 1) + 1 : SubSeq(rows, x + 1, y)[k] = rows[(x + 1) + k - 1]
    BY <2>4, SubSeqProperties
  <2>6. q \in 1..y - (x + 1) + 1 /\ (x + 1) + q - 1 = x + q
    BY <1>1, <2>1
  <2> QED BY <2>2, <2>5, <2>6 DEF x
<1>5. DOMAIN MergedRows(rows) = 1..m
  BY <1>3
<1> QED BY <1>4, <1>5 DEF u

(* The part of a pack's features that belongs to an image is its own.      *)
PartOf(rows, before, im) == SubSeq(rows, before + 1, before + TokenCount(Grid[im]))

LEMMA FeaturesAreOwn ==
    ASSUME Family = "qwen3_vl", NEW n \in Nat, NEW ims \in [1..n -> Key], NEW blocks,
           NEW i \in 1..n, NEW im, im = ims[i]
    PROVE  OwnFeatures(PartOf(MergedRows(Hidden(ims, blocks)), Sums(Tokens(ims), i - 1), im), im, blocks)
<1> DEFINE g    == Grid[im]
           M    == MergeSize
           u    == M * M
           A    == Height(g) * Width(g)
           h    == Hidden(ims, blocks)
           rows == MergedRows(h)
           B    == Sums(Tokens(ims), i - 1)
           t    == TokenCount(g)
           N    == Sums(Tokens(ims), n)
           part == PartOf(rows, B, im)
<1>1. im \in Key /\ u \in Nat \ {0} /\ t \in Nat \ {0} /\ A \in Nat \ {0}
      /\ Height(g) \in Nat \ {0} /\ Width(g) \in Nat \ {0}
  <2>1. im \in Key
    OBVIOUS
  <2>2. M \in Nat \ {0} /\ t \in Nat \ {0} /\ Height(g) \in Nat \ {0} /\ Width(g) \in Nat \ {0}
    BY <2>1, GridOf
  <2> DEFINE H == Height(g)
             W == Width(g)
  <2> HIDE DEF H, W, M
  <2>3. H \in Nat \ {0} /\ W \in Nat \ {0}
    BY <2>2 DEF H, W
  <2>4. u \in Nat \ {0} /\ H * W \in Nat \ {0}
    BY <2>2, <2>3
  <2> QED BY <2>1, <2>2, <2>4 DEF H, W
<1>2. /\ Len(h) = N * u /\ N \in Nat /\ B \in Nat /\ B + t \in 1..N
      /\ Sums(Patches(ims), i - 1) = B * u
  BY HiddenSize
<1>3. /\ DOMAIN rows = 1..N
      /\ \A j \in 1..N : \A q \in 1..u : rows[j][q] = h[(j - 1) * u + q]
  <2> HIDE DEF h
  <2> QED BY <1>2, MergedAt
<1>4. /\ Len(part) = t /\ DOMAIN part = 1..t
      /\ \A j \in 1..t : B + j \in 1..N /\ part[j] = rows[B + j]
  <2> DEFINE T == { rows[k] : k \in Int }
             b == B + t
  <2>0. \A k \in Int : rows[k] \in T
    OBVIOUS
  <2> HIDE DEF rows, B, t, T
  <2>1. B + 1 \in Int /\ b \in Int /\ b \in Nat /\ B + 1 <= b /\ b - (B + 1) + 1 = t
    BY <1>1, <1>2
  <2>2. \A k \in (B + 1)..b : rows[k] \in T
    BY <2>0, <2>1
  <2>3. /\ SubSeq(rows, B + 1, b) \in Seq(T)
        /\ Len(SubSeq(rows, B + 1, b)) = IF B + 1 <= b THEN b - (B + 1) + 1 ELSE 0
        /\ \A k \in 1..b - (B + 1) + 1 : SubSeq(rows, B + 1, b)[k] = rows[(B + 1) + k - 1]
    BY <2>1, <2>2, SubSeqProperties
  <2>4. part = SubSeq(rows, B + 1, b)
    BY DEF PartOf, t
  <2> HIDE DEF part, b
  <2>5. part \in Seq(T) /\ Len(part) = t /\ \A k \in 1..t : part[k] = rows[(B + 1) + k - 1]
    BY <2>1, <2>3, <2>4
  <2>6. DOMAIN part = 1..t
    BY <2>5
  <2>7. \A k \in 1..t : (B + 1) + k - 1 = B + k /\ B + k \in 1..N
    <3> TAKE k \in 1..t
    <3>1. k \in Nat /\ 1 <= k /\ k <= t /\ B + t <= N
      BY <1>1, <1>2
    <3> QED BY <1>1, <1>2, <3>1
  <2> QED BY <2>5, <2>6, <2>7
<1>5. ASSUME NEW j \in 1..t, NEW q \in 1..u
      PROVE  LET place == GridPositions(0, g)[j]
             IN  OwnRow(part[j][q], im, place[1],
                        <<place[2] * M + ((q - 1) \div M), place[3] * M + ((q - 1) % M)>>, blocks)
  <2> DEFINE J == j - 1
             e == q - 1
             f == J \div A
             R == (J % A) \div Width(g)
             C == (J % A) % Width(g)
             a == e \div M
             b == e % M
             K == PatchNo(g, f, R, C, a, b)
             r == Sums(Patches(ims), i - 1) + (K + 1)
             place == GridPositions(0, g)[j]
  <2>1. J \in 0..t - 1 /\ e \in 0..u - 1
    <3> HIDE DEF t, u
    <3> QED BY <1>1
  <2>2. /\ f \in 0..g.t - 1 /\ R \in 0..Height(g) - 1 /\ C \in 0..Width(g) - 1
        /\ a \in 0..M - 1 /\ b \in 0..M - 1 /\ J * u + e = K
    <3> HIDE DEF J, e
    <3> QED BY <1>1, <2>1, TokenPatch
  <2>3. OwnRow(h[r], im, f, <<R * M + a, C * M + b>>, blocks)
    <3> HIDE DEF f, R, C, a, b
    <3> QED BY <2>2, HiddenAt
  <2>4. part[j][q] = h[r]
    <3>1. part[j][q] = h[((B + j) - 1) * u + q]
      <4> HIDE DEF part, h, rows, B, u, t
      <4>1. B + j \in 1..N /\ part[j] = rows[B + j]
        BY <1>4
      <4> QED BY <1>3, <4>1
    <3>2. ((B + j) - 1) * u + q = r
      <4> HIDE DEF K
      <4>1. J \in Nat /\ e \in Nat /\ q = e + 1 /\ (B + j) - 1 = B + J
        BY <1>1, <1>2
      <4> HIDE DEF u, B, J, e
      <4>2. (B + J) * u = B * u + J * u /\ B * u \in Nat /\ J * u \in Nat
        BY <1>1, <1>2, <4>1
      <4> DEFINE x == B * u
                 y == J * u
      <4>3. (B + J) * u = x + y /\ x \in Nat /\ y \in Nat /\ y + e = K /\ r = x + (K + 1)
        BY <1>2, <2>2, <4>2
      <4> HIDE DEF x, y, r
      <4>4. (x + y) + q = r
        BY <4>1, <4>3
      <4> QED BY <4>1, <4>3, <4>4
    <3> QED BY <3>1, <3>2
  <2>5. place = <<f, R, C>>
    <3>1. place = <<0 + FrameTime(J \div A), 0 + ((J % A) \div Width(g)), 0 + ((J % A) % Width(g))>>
      BY DEF GridPositions
    <3>2. FrameTime(J \div A) = J \div A
      BY DEF FrameTime
    <3>3. f \in Nat /\ R \in Nat /\ C \in Nat
      <4> HIDE DEF f, R, C
      <4> QED BY <2>2
    <3>4. 0 + f = f /\ 0 + R = R /\ 0 + C = C
      <4> HIDE DEF f, R, C
      <4> QED BY <3>3
    <3> QED BY <3>1, <3>2, <3>4
  <2> HIDE DEF place, f, R, C
  <2>6. place[1] = f /\ place[2] = R /\ place[3] = C
    BY <2>5
  <2> HIDE DEF part, h, r
  <2>7. OwnRow(part[j][q], im, place[1], <<place[2] * M + a, place[3] * M + b>>, blocks)
    BY <2>3, <2>4, <2>6
  <2> QED BY <2>7 DEF place
<1>6. /\ Len(part) = TokenCount(Grid[im])
      /\ \A j \in DOMAIN part : LET place == GridPositions(0, Grid[im])[j] IN
            \A q \in 1..MergeSize * MergeSize :
               OwnRow(part[j][q], im, place[1],
                      <<place[2] * MergeSize + ((q - 1) \div MergeSize),
                        place[3] * MergeSize + ((q - 1) % MergeSize)>>, blocks)
  <2> HIDE DEF part
  <2> QED BY <1>4, <1>5
<1> HIDE DEF part
<1>7. OwnFeatures(part, im, blocks)
  BY <1>6, Zenon DEF OwnFeatures
<1> QED BY <1>7 DEF part

(* What the encoder makes of a pack, image by image.                       *)
LEMMA EncodedIsOwn ==
    ASSUME Family = "qwen3_vl", NEW ims \in Seq(Key), NEW im \in Range(ims)
    PROVE  OwnBundle(Encoded(ims)[im], im)
<1> DEFINE n == Len(ims)
           L == Len(DeepStackAt)
           output == Tower(ims)
           Start(i) == SumOf([ j \in 1..i - 1 |-> TokenCount(Grid[ims[j]]) ])
           Bundle(i) == [ k \in DOMAIN output |-> PartOf(output[k], Start(i), ims[i]) ]
           I == CHOOSE i \in DOMAIN ims : ims[i] = im
           B == Sums(Tokens(ims), I - 1)
           own == Encoded(ims)[im]
<1>1. n \in Nat /\ ims \in [1..n -> Key] /\ DOMAIN ims = 1..n
  OBVIOUS
<1>2. I \in 1..n /\ ims[I] = im
  <2>1. \E i \in DOMAIN ims : ims[i] = im
    BY DEF Range
  <2> QED BY <1>1, <2>1
<1>3. im \in SE!ToSet(ims)
  BY DEF Range, SE!ToSet
<1>4. own = Bundle(I)
  <2>1. Encoded(ims) = [ m \in SE!ToSet(ims) |-> Bundle(CHOOSE i \in DOMAIN ims : ims[i] = m) ]
    BY DEF Encoded, PartOf
  <2> HIDE DEF Bundle
  <2> QED BY <1>3, <2>1
<1>5. L \in Nat /\ DOMAIN DeepStackAt = 1..L
  BY TowerAssumption
<1>6. /\ DOMAIN output = 1..1 + L
      /\ output[1] = MergedRows(Hidden(ims, Depth))
      /\ \A j \in 1..L : output[j + 1] = MergedRows(Hidden(ims, DeepStackAt[j] + 1))
  <2> DEFINE first == MergedRows(Hidden(ims, Depth))
             later == [ j \in 1..L |-> MergedRows(Hidden(ims, DeepStackAt[j] + 1)) ]
  <2>1. output = <<first>> \o later
    BY <1>5 DEF Tower
  <2>2. DOMAIN later = 1..L /\ \A j \in 1..L : later[j] = MergedRows(Hidden(ims, DeepStackAt[j] + 1))
    OBVIOUS
  <2> DEFINE T == {first} \cup { later[j] : j \in 1..L }
  <2>3. later = [ j \in 1..L |-> later[j] ] /\ first \in T /\ \A j \in 1..L : later[j] \in T
    OBVIOUS
  <2> HIDE DEF first, later, T, output, L
  <2>4. later \in [1..L -> T]
    BY <2>3
  <2>5. later \in Seq(T) /\ Len(later) = L /\ <<first>> \in Seq(T) /\ Len(<<first>>) = 1
    BY <1>5, <2>3, <2>4
  <2>6. /\ Len(output) = 1 + L /\ DOMAIN output = 1..1 + L
        /\ \A k \in 1..1 + L : output[k] = IF k <= 1 THEN <<first>>[k] ELSE later[k - 1]
    BY <1>5, <2>1, <2>5
  <2>7. output[1] = first
    BY <1>5, <2>6
  <2>8. \A j \in 1..L : output[j + 1] = later[j]
    <3> TAKE j \in 1..L
    <3>1. j + 1 \in 1..1 + L /\ ~(j + 1 <= 1) /\ (j + 1) - 1 = j
      BY <1>5
    <3> QED BY <2>6, <3>1
  <2> QED BY <2>2, <2>6, <2>7, <2>8 DEF first
<1>7. Start(I) = B
  <2> DEFINE ns == [ j \in 1..I - 1 |-> TokenCount(Grid[ims[j]]) ]
             m == I - 1
  <2>1. m \in Nat /\ \A j \in 1..m : j \in 1..n
    <3> HIDE DEF I
    <3> QED BY <1>1, <1>2
  <2> HIDE DEF I
  <2>2. ASSUME NEW j \in 1..m
        PROVE  ns[j] = Tokens(ims)[j] /\ ns[j] \in Nat
    <3>1. j \in 1..n /\ ims[j] \in Key
      BY <1>1, <2>1
    <3>2. ns[j] = TokenCount(Grid[ims[j]]) /\ Tokens(ims)[j] = TokenCount(Grid[ims[j]])
      BY <1>1, <3>1 DEF Tokens
    <3>3. TokenCount(Grid[ims[j]]) \in Nat
      BY <3>1, GridOf
    <3> QED BY <3>2, <3>3
  <2>3. DOMAIN ns = 1..m
    OBVIOUS
  <2> HIDE DEF ns
  <2>4. SumOf(ns) = Sums(ns, m)
    BY <2>1, <2>2, <2>3, SumOfIs
  <2>5. Sums(ns, m) = Sums(Tokens(ims), m)
    BY <2>2, SumsOfSame
  <2> QED BY <2>4, <2>5 DEF ns
<1> HIDE DEF output, Start, I, B
<1>8. DOMAIN own = 1..1 + L /\ \A k \in 1..1 + L : own[k] = PartOf(output[k], B, im)
  BY <1>2, <1>4, <1>6, <1>7
<1> HIDE DEF own, n, L
<1>9. \A blocks : OwnFeatures(PartOf(MergedRows(Hidden(ims, blocks)), B, im), im, blocks)
  BY <1>1, <1>2, FeaturesAreOwn DEF B
<1>10. OwnFeatures(own[1], im, Depth)
  <2>1. 1 \in 1..1 + L
    BY <1>5
  <2> QED BY <1>6, <1>8, <1>9, <2>1
<1>11. \A j \in 1..L : OwnFeatures(own[j + 1], im, DeepStackAt[j] + 1)
  <2> TAKE j \in 1..L
  <2>1. j + 1 \in 1..1 + L
    BY <1>5
  <2> QED BY <1>6, <1>8, <1>9, <2>1
<1>12. Len(own) = 1 + L
  <2> DEFINE T == { own[k] : k \in 1..1 + L }
             W == Bundle(I)
  <2>1. W = [ k \in DOMAIN W |-> W[k] ]
    OBVIOUS
  <2> HIDE DEF Bundle
  <2>2. own = [ k \in 1..1 + L |-> own[k] ] /\ \A k \in 1..1 + L : own[k] \in T
    BY <1>4, <1>8, <2>1
  <2> HIDE DEF T
  <2>3. own \in [1..1 + L -> T] /\ 1 + L \in Nat
    BY <1>5, <2>2
  <2> DEFINE m == 1 + L
  <2> HIDE DEF m
  <2>4. own \in [1..m -> T] /\ m \in Nat
    BY <2>3 DEF m
  <2>5. Len(own) = m
    BY <2>4
  <2> QED BY <2>5 DEF m
<1>13. OwnBundle(own, im)
  BY <1>5, <1>10, <1>11, <1>12 DEF OwnBundle, L
<1> QED BY <1>13 DEF own

(***************************************************************************)
(* What is stored under a key, and what is about to be.                    *)
(***************************************************************************)

OwnInv ==
    /\ FeaturesOwn
    /\ phase = "put" => \A k \in Range(Missing) : OwnBundle(encoded[k], k)

LEMMA ValuesChangeInPut ==
    ASSUME [Next]_vars
    PROVE  values' = values \/ (phase = "put" /\ PutMany(Missing, encoded))
<1>1. CASE Lookup \/ PinCached \/ PinNeed
  BY <1>1 DEF Lookup, PinCached, PinNeed, Get, Pin, storeVars
<1>2. CASE Put
  BY <1>2 DEF Put, storeVars
<1>3. CASE Encode \/ UnpinCached \/ Use \/ UnpinNeed \/ Failed
  BY <1>3 DEF Encode, UnpinCached, Use, UnpinNeed, Failed, Unpin, storeVars
<1>4. ASSUME NEW r \in Request, AddSequence(r) \/ End(r)
      PROVE  values' = values
  BY <1>4 DEF AddSequence, End, storeVars
<1>5. ASSUME NEW ks \in Demands, Prefill(ks)
      PROVE  values' = values
  BY <1>5 DEF Prefill, storeVars
<1>6. CASE UNCHANGED vars
  BY <1>6 DEF vars, storeVars
<1> QED
  BY <1>1, <1>2, <1>3, <1>4, <1>5, <1>6 DEF Next, ResolvePinned

LEMMA PutComesFromEncode ==
    ASSUME [Next]_vars, phase' = "put"
    PROVE  \/ encoded' = Encoded(Missing) /\ Missing' = Missing
           \/ phase = "put" /\ encoded' = encoded /\ Missing' = Missing
<1>1. CASE Lookup \/ PinCached \/ PinNeed
  BY <1>1 DEF Lookup, PinCached, PinNeed, Moves, Raises
<1>2. CASE Put
  BY <1>2 DEF Put, Moves, Raises
<1>3. CASE Encode
  BY <1>3 DEF Encode, Raises, Missing
<1>4. CASE UnpinCached \/ Use \/ UnpinNeed \/ Failed
  BY <1>4 DEF UnpinCached, Use, UnpinNeed, Failed, Moves, Raises
<1>5. ASSUME NEW r \in Request, AddSequence(r) \/ End(r)
      PROVE  FALSE
  BY <1>5 DEF AddSequence, End, resolveVars
<1>6. ASSUME NEW ks \in Demands, Prefill(ks)
      PROVE  FALSE
  BY <1>6 DEF Prefill
<1>7. CASE UNCHANGED vars
  BY <1>7 DEF vars, resolveVars, Missing
<1> QED
  BY <1>1, <1>2, <1>3, <1>4, <1>5, <1>6, <1>7 DEF Next, ResolvePinned

LEMMA NextKeepsOwnInv ==
    ASSUME Family = "qwen3_vl", IInv, IInv', OwnInv, [Next]_vars
    PROVE  OwnInv'
<1>1. DOMAIN values = Stored /\ DOMAIN values' = Stored'
  BY DEF IInv, StoreInv
<1>2. Missing \in Seq(Key)
  <2>1. need \in Seq(Key)
    BY DEF IInv, NeedInv
  <2> QED BY <2>1, KeepProperties DEF Missing
<1>3. FeaturesOwn'
  <2>1. CASE values' = values
    BY <1>1, <2>1 DEF OwnInv, FeaturesOwn
  <2>2. CASE phase = "put" /\ PutMany(Missing, encoded)
    <3>1. values' = [ k \in (Stored \cup Range(Missing)) \ Victims(Missing) |->
                       IF k \in Range(Missing) THEN encoded[k] ELSE values[k] ]
      BY <2>2 DEF PutMany
    <3>2. ASSUME NEW k \in Stored' PROVE OwnBundle(values'[k], k)
      <4>1. k \in Stored \cup Range(Missing)
            /\ values'[k] = IF k \in Range(Missing) THEN encoded[k] ELSE values[k]
        BY <1>1, <3>1
      <4>2. CASE k \in Range(Missing)
        BY <2>2, <4>1, <4>2 DEF OwnInv
      <4>3. CASE k \notin Range(Missing)
        BY <4>1, <4>3 DEF OwnInv, FeaturesOwn
      <4> QED BY <4>2, <4>3
    <3> QED BY <3>2 DEF FeaturesOwn
  <2> QED BY <2>1, <2>2, ValuesChangeInPut
<1>4. ASSUME phase' = "put", NEW k \in Range(Missing')
      PROVE  OwnBundle(encoded'[k], k)
  <2>1. CASE encoded' = Encoded(Missing) /\ Missing' = Missing
    BY <1>2, <1>4, <2>1, EncodedIsOwn
  <2>2. CASE phase = "put" /\ encoded' = encoded /\ Missing' = Missing
    BY <1>4, <2>2 DEF OwnInv
  <2> QED BY <1>4, <2>1, <2>2, PutComesFromEncode
<1> QED
  BY <1>3, <1>4 DEF OwnInv

(* In the engine of Qwen3-VL, whose vision tower this is, the features     *)
(* that the cache holds for an image are at any time made of its own       *)
(* patches, each at its place and seen with its frame alone, whatever      *)
(* images it was packed with and however often it was encoded again.       *)
THEOREM FeaturesAlwaysOwn ==
    ASSUME Family = "qwen3_vl"
    PROVE  Spec => []FeaturesOwn
<1>1. Init => OwnInv
  <2> SUFFICES ASSUME Init PROVE OwnInv
    OBVIOUS
  <2>1. entries = << >> /\ phase = "idle"
    BY DEF Init, InitStore
  <2>2. Stored = {}
    BY <2>1 DEF Stored, Range
  <2> QED BY <2>1, <2>2 DEF OwnInv, FeaturesOwn
<1>2. IInv /\ IInv' /\ OwnInv /\ [Next]_vars => OwnInv'
  BY NextKeepsOwnInv
<1>3. OwnInv => FeaturesOwn
  BY DEF OwnInv
<1> QED
  BY <1>1, <1>2, <1>3, FeatureInvariant, PTL DEF Spec
===============================================================================
