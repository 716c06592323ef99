---------------------------- MODULE FeatureStore ----------------------------
(***************************************************************************)
(* The cache of image features on the GPU (multimodal/feature_store.py):   *)
(* least recently used first, bounded by bytes, with entries that are      *)
(* pinned while somebody reads them.                                       *)
(***************************************************************************)
EXTENDS Deques

CONSTANTS
    Key,      (* feature keys                                               *)
    Bytes,    (* the size of each one's features                            *)
    Budget    (* byte_budget                                                *)

ASSUME StoreAssumption ==
    /\ IsFiniteSet(Key)
    /\ Bytes \in [Key -> Nat \ {0}]
    /\ Budget \in Nat \ {0}

VARIABLES
    entries,  (* _entries, an ordered dictionary: its keys in order,        *)
    values,   (* and the features they lead to                              *)
    pins,     (* pin_count                                                  *)
    resident  (* resident_bytes                                             *)

storeVars == <<entries, values, pins, resident>>

Size(K) == MapThenSumSet(LAMBDA k : Bytes[k], K)
Stored  == Range(entries)

InitStore ==
    /\ entries = << >> /\ values = [ k \in {} |-> << >> ]
    /\ pins = [ k \in Key |-> 0 ] /\ resident = 0

(* move_to_end, for one key after the other.                               *)
Touch(ks) == Keep(entries, Stored \ Range(ks)) \o ks

(* get, for each key of ks; those that are missing leave no trace.         *)
Get(ks) ==
    /\ entries' = Touch(Keep(ks, Stored))
    /\ UNCHANGED <<values, pins, resident>>

Pin(ks) ==
    /\ Range(ks) \subseteq Stored
    /\ pins' = [ k \in Key |-> pins[k] + IF k \in Range(ks) THEN 1 ELSE 0 ]
    /\ entries' = Touch(ks)
    /\ UNCHANGED <<values, resident>>

Unpin(K) ==
    /\ pins' = [ k \in Key |-> pins[k] - IF k \in K THEN 1 ELSE 0 ]
    /\ UNCHANGED <<entries, values, resident>>

(***************************************************************************)
(* put_many.  Victims are taken in the order of use among the entries that *)
(* are not pinned, until the new working set fits; if it never does, the   *)
(* store is left as it was.                                                *)
(***************************************************************************)

Retained(ks) == Keep(entries, Stored \ Range(ks))

BugNewest(ks)    == Reversed(Keep(Retained(ks), { k \in Stored : pins[k] = 0 }))
Evictable(ks)    == Keep(Retained(ks), { k \in Stored : pins[k] = 0 })

(* What the store would hold after n evictions.                            *)
After(ks, n) == (Stored \cup Range(ks)) \ Range(SubSeq(Evictable(ks), 1, n))

Fits(ks) ==
    /\ Size(Range(ks)) <= Budget
    /\ Size(After(ks, Len(Evictable(ks)))) <= Budget

Victims(ks) ==
    Range(SubSeq(Evictable(ks), 1,
                 Min({ n \in 0..Len(Evictable(ks)) : Size(After(ks, n)) <= Budget })))

ResidentAfter(ks)    == Size((Stored \cup Range(ks)) \ Victims(ks))

CanPut(ks) == Fits(ks) /\ \A k \in Range(ks) : pins[k] = 0

(* In the order of ks, with their features.                                *)
PutMany(ks, features) ==
    /\ CanPut(ks)
    /\ values'  = [ k \in (Stored \cup Range(ks)) \ Victims(ks) |->
                     IF k \in Range(ks) THEN features[k] ELSE values[k] ]
    /\ entries' = Keep(Retained(ks), Stored \ Victims(ks)) \o ks
    /\ resident' = ResidentAfter(ks)
    /\ UNCHANGED pins
=============================================================================
