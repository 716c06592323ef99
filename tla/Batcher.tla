------------------------------ MODULE Batcher ------------------------------
(***************************************************************************)
(* How waiting multimodal requests are grouped into a batch                *)
(* (multimodal/batching.py): the first one waiting is always taken, and    *)
(* later ones as long as they are compatible with it and fit the limits;   *)
(* those passed over keep their place.                                     *)
(***************************************************************************)
EXTENDS Deques

CONSTANTS
    Key,           (* generation key and image bucket of each request: only *)
                   (* requests with equal keys share a batch                *)
    TextTokens,    (* estimated text tokens of each request                 *)
    ImageTokens,   (* estimated image tokens of each request                *)
    Images,        (* its number of images                                  *)
    MaxBatch, MaxTextTokens, MaxImageTokens, MaxImages    (* the policy     *)

(* add() refuses a request that exceeds the limits by itself.              *)
ASSUME BatcherAssumption ==
    /\ MaxBatch \in Nat \ {0}
    /\ \A c \in DOMAIN Key : /\ TextTokens[c]  \in 0..MaxTextTokens
                             /\ ImageTokens[c] \in 0..MaxImageTokens
                             /\ Images[c]      \in 0..MaxImages

BugFits(q, I) ==
    /\ Total(TextTokens,  q, I) <= MaxTextTokens
    /\ Total(ImageTokens, q, I) <= MaxImageTokens
Fits(q, I) ==
    /\ Total(TextTokens,  q, I) <= MaxTextTokens
    /\ Total(ImageTokens, q, I) <= MaxImageTokens
    /\ Total(Images,      q, I) <= MaxImages

Compatible(first, candidate) == Key[first] = Key[candidate]

(* One candidate, at position i: taken or deferred.                        *)
Take(q, I, i) ==
    IF Cardinality(I) < MaxBatch /\ Compatible(q[1], q[i]) /\ Fits(q, I \cup {i})
    THEN I \cup {i} ELSE I

Selected(q) ==
    LET upTo[n \in 1..Len(q)] == IF n = 1 THEN {1} ELSE Take(q, upTo[n - 1], n)
    IN  upTo[Len(q)]

(* pop_batch: the batch, and what keeps waiting.                           *)
Batch(q) == At(q, Selected(q))

BugRest(q) == SubSeq(q, Cardinality(Selected(q)) + 1, Len(q))
BugRequeued(q) ==
    LET seen == IF Cardinality(Selected(q)) = MaxBatch THEN Max(Selected(q)) ELSE Len(q)
    IN  SubSeq(q, seen + 1, Len(q)) \o At(q, (1..seen) \ Selected(q))
Rest(q) == At(q, (1..Len(q)) \ Selected(q))
=============================================================================
