--------------------------- MODULE VisionFeatures ---------------------------
(***************************************************************************)
(* The images of requests (multimodal/vision_provider.py over the feature  *)
(* store) and what the engine does with them: a request registers its      *)
(* images when it is added and releases them when it ends, and a prefill   *)
(* resolves the features of the images that its chunk reaches, encoding    *)
(* those that are not cached.  Requests are prefilled in any order, in     *)
(* chunks and again after a preemption, so that features may be wanted     *)
(* after they have been evicted.                                           *)
(***************************************************************************)
EXTENDS FeatureStore, VisionTower

CONSTANTS
    Request,
    Images        (* the images of each one's prompt, in order              *)

(* The images are those the processor and the prompt builder accept.       *)
ASSUME VisionAssumption ==
    /\ Images \in [Request -> Seq(Key)]
    /\ Grid \in [Key -> [t : Nat, h : Nat, w : Nat]]
    /\ \A k \in Key : TowerAccepts(<<k>>, PatchCount(Grid[k]))

VARIABLES
    live,         (* the requests added and not ended                       *)
    refs,         (* _input_refcounts, whose domain is _registered_inputs's *)
    phase,        (* where the prefill is                                   *)
    need,         (* unique_keys of resolve, and                            *)
    cached,       (* those found in the store                               *)
    encoded,      (* what the encoder made of the others                    *)
    error         (* the exception raised, or "none"                        *)

inputVars   == <<live, refs>>
resolveVars == <<phase, need, cached, encoded, error>>
vars        == <<storeVars, inputVars, resolveVars>>

ImagesOf(r) == Range(Images[r])
Users(k)    == { r \in live : k \in ImagesOf(r) }
Registered  == DOMAIN refs
NoFeatures  == [ k \in {} |-> << >> ]
Missing     == Keep(need, Range(need) \ cached)

Init ==
    /\ InitStore
    /\ live = {} /\ refs = [ k \in {} |-> 0 ]
    /\ phase = "idle" /\ need = << >> /\ cached = {} /\ encoded = NoFeatures /\ error = "none"

(***************************************************************************)
(* Requests come and go between steps.                                     *)
(***************************************************************************)

(* An image that occurs several times in a prompt is registered once.      *)
BugCount(r, k) == Cardinality(Positions(Images[r], {k}))
Count(r, k)    == IF k \in ImagesOf(r) THEN 1 ELSE 0

RegisterInputs(r) ==
    refs' = [ k \in Registered \cup ImagesOf(r) |->
                Count(r, k) + IF k \in Registered THEN refs[k] ELSE 0 ]

(* release_inputs, for each request of R.                                  *)
Holders(R, k) == Cardinality({ r \in R : k \in ImagesOf(r) })
BugReleased(R) == UNION { ImagesOf(r) : r \in R }
Released(R) == { k \in Registered : refs[k] <= Holders(R, k) }
ReleaseInputs(R) ==
    refs' = [ k \in Registered \ Released(R) |-> refs[k] - Holders(R, k) ]

AddSequence(r) ==
    /\ phase = "idle" /\ r \notin live
    /\ live' = live \cup {r}
    /\ RegisterInputs(r)
    /\ UNCHANGED <<storeVars, resolveVars>>

(* It has finished or is aborted.                                          *)
End(r) ==
    /\ phase = "idle" /\ r \in live
    /\ live' = live \ {r}
    /\ ReleaseInputs({r})
    /\ UNCHANGED <<storeVars, resolveVars>>

(***************************************************************************)
(* prepare_prefill and resolve_pinned.                                     *)
(***************************************************************************)

Moves(p) == phase' = p /\ UNCHANGED <<need, cached, encoded, error>>
Raises(p, e) == phase' = p /\ error' = e /\ UNCHANGED <<need, cached, encoded>>

(* A batch whose chunks reach the images ks.                               *)
Prefill(ks) ==
    /\ phase = "idle" /\ ks # << >>
    /\ Range(ks) \subseteq UNION { ImagesOf(r) : r \in live }
    /\ phase' = "lookup" /\ need' = ks
    /\ UNCHANGED <<storeVars, inputVars, cached, encoded, error>>

Lookup ==
    /\ phase = "lookup"
    /\ Get(need)
    /\ cached' = Range(need) \cap Stored
    /\ IF Range(need) \ cached' \subseteq Registered
       THEN phase' = (IF cached' = Range(need) THEN "peek" ELSE "pin") /\ UNCHANGED error
       ELSE phase' = "raised" /\ error' = "unregistered"
    /\ UNCHANGED <<inputVars, need, encoded>>

PinCached ==
    /\ phase = "pin"
    /\ Pin(Keep(need, cached)) /\ Moves("encode")
    /\ UNCHANGED inputVars

(* The vision tower encodes the missing images, or runs out of memory.     *)
Encode ==
    /\ phase = "encode"
    /\ \/ /\ EncodeAccepts(Missing)
          /\ phase' = "put" /\ encoded' = Encoded(Missing)
          /\ UNCHANGED <<need, cached, error>>
       \/ Raises("unpin", "encoder")
    /\ UNCHANGED <<storeVars, inputVars>>

Put ==
    /\ phase = "put"
    /\ \/ PutMany(Missing, encoded) /\ Moves("unpin")
       \/ ~CanPut(Missing) /\ Raises("unpin", "budget") /\ UNCHANGED storeVars
    /\ UNCHANGED inputVars

(* The finally clause of pin.                                              *)
BugUnpinCached ==
    /\ phase = "unpin"
    /\ IF error = "none" THEN Unpin(cached) /\ Moves("peek")
                         ELSE UNCHANGED storeVars /\ Moves("raised")
    /\ UNCHANGED inputVars
UnpinCached ==
    /\ phase = "unpin"
    /\ Unpin(cached) /\ Moves(IF error = "none" THEN "peek" ELSE "raised")
    /\ UNCHANGED inputVars

(* resolve returns what is there, and the caller pins it.                  *)
PinNeed ==
    /\ phase = "peek"
    /\ IF Range(need) \subseteq Stored
       THEN Pin(need) /\ Moves("use")
       ELSE UNCHANGED storeVars /\ Raises("raised", "lost")
    /\ UNCHANGED inputVars

(* The rows of the batch are replaced, or the features do not fit them.    *)
Use ==
    /\ phase = "use"
    /\ Moves("release") \/ Raises("release", "rows")
    /\ UNCHANGED <<storeVars, inputVars>>

UnpinNeed ==
    /\ phase = "release"
    /\ Unpin(Range(need))
    /\ phase' = IF error = "none" THEN "idle" ELSE "raised"
    /\ need' = << >> /\ cached' = {} /\ encoded' = NoFeatures
    /\ UNCHANGED <<inputVars, error>>

(* The exception leaves step(): a session aborts its requests, a caller of *)
(* generate_multimodal only passes it on.                                  *)
Failed ==
    /\ phase = "raised"
    /\ phase' = "idle" /\ need' = << >> /\ cached' = {} /\ encoded' = NoFeatures /\ error' = "none"
    /\ \/ ReleaseInputs(live) /\ live' = {}
       \/ UNCHANGED inputVars
    /\ UNCHANGED storeVars

ResolvePinned ==
    \/ Lookup \/ PinCached \/ Encode \/ Put \/ UnpinCached
    \/ PinNeed \/ Use \/ UnpinNeed

(* The orders in which images can be asked for.                            *)
Demands == UNION { { ks \in [1..n -> Key] : Injective(ks) } : n \in 1..Cardinality(Key) }

Next ==
    \/ \E r \in Request : AddSequence(r) \/ End(r)
    \/ \E ks \in Demands : Prefill(ks)
    \/ ResolvePinned
    \/ Failed

Spec == Init /\ [][Next]_vars

(***************************************************************************)
(* Properties.                                                             *)
(***************************************************************************)

(* The variables have the types of the program, and the store accounts for *)
(* every byte within its budget.                                           *)
TypeOK ==
    /\ Stored \subseteq Key /\ Injective(entries)
    /\ pins \in [Key -> Nat]
    /\ resident = Size(Stored) /\ resident <= Budget
    /\ DOMAIN values = Stored /\ DOMAIN encoded \subseteq Range(need)
    /\ live \subseteq Request
    /\ Registered \subseteq Key /\ refs \in [Registered -> Nat \ {0}]
    /\ Range(need) \subseteq Key /\ cached \subseteq Range(need)
    /\ phase \in {"idle", "lookup", "pin", "encode", "put", "unpin", "peek",
                  "use", "release", "raised"}
    /\ error \in {"none", "unregistered", "encoder", "budget", "lost", "rows"}

(* An image is registered as often as there are requests that may still    *)
(* prefill it, and not at all when there is none: it can be encoded again  *)
(* as long as it may be wanted, and no longer.                             *)
InputsWhileLive ==
    /\ Registered = { k \in Key : Users(k) # {} }
    /\ \A k \in Registered : refs[k] = Cardinality(Users(k))

(* Exactly the features in use are pinned, by whatever way a prefill ends. *)
PinsExact ==
    \A k \in Key :
        pins[k] = CASE phase \in {"encode", "put", "unpin"} /\ k \in cached -> 1
                    [] phase \in {"use", "release"} /\ k \in Range(need)    -> 1
                    [] OTHER                                               -> 0

(* Whether the images of a batch fit does not depend on what the cache has *)
(* seen before: a prefill is refused only if its own images are too large, *)
(* and what it needs is neither unregistered nor lost on the way.          *)
RefusedOnlyTooLarge ==
    /\ error \notin {"unregistered", "lost"}
    /\ error = "budget" => Size(Range(need)) > Budget

(* The features of an image do not depend on the batch it was encoded      *)
(* with, nor on how often it was evicted and encoded again: those cached   *)
(* under its key are made of its own patches, each with its own place, at  *)
(* the places where the language model's positions have its tokens.        *)
FeaturesOwn == \A k \in Stored : OwnBundle(values[k], k)

(* Evictions are no more than needed and hit the least recently used of    *)
(* those not in use.                                                       *)
EvictsAsNeeded ==
    [][ LET gone == Stored \ Stored'
        IN  \A i \in DOMAIN entries :
              entries[i] \in gone =>
                /\ pins[entries[i]] = 0
                /\ \A j \in 1..i : entries[j] \in gone \/ pins[entries[j]] > 0
                /\ \/ \E j \in DOMAIN entries : j > i /\ entries[j] \in gone
                   \/ resident' + Bytes[entries[i]] > Budget
      ]_vars
=============================================================================
