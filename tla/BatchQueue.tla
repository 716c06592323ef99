----------------------------- MODULE BatchQueue -----------------------------
(***************************************************************************)
(* A batcher by itself: requests arrive in any order and batches are       *)
(* popped at any time, as MultimodalEngineCore does under its condition.   *)
(***************************************************************************)
EXTENDS Batcher

VARIABLES
    queue,      (* MultimodalBatcher._waiting                               *)
    popped      (* the batches popped so far                                *)

vars == <<queue, popped>>

Init == queue = << >> /\ popped = << >>

Add(r) ==
    /\ r \notin Range(queue) \cup UNION { Range(popped[i]) : i \in DOMAIN popped }
    /\ queue' = Append(queue, r)
    /\ UNCHANGED popped

PopBatch ==
    /\ queue # << >>
    /\ queue' = Rest(queue)
    /\ popped' = Append(popped, Batch(queue))

(* Every batch can be run at once: it respects each of the four limits of  *)
(* the policy, and all its requests have the generation parameters of the  *)
(* first, which are the only ones the backend is given.                    *)
BatchesWithinPolicy ==
    \A n \in DOMAIN popped :
        LET b == popped[n]
        IN  /\ Len(b) \in 1..MaxBatch
            /\ Total(TextTokens,  b, DOMAIN b) <= MaxTextTokens
            /\ Total(ImageTokens, b, DOMAIN b) <= MaxImageTokens
            /\ Total(Images,      b, DOMAIN b) <= MaxImages
            /\ \A i, j \in DOMAIN b : Key[b[i]] = Key[b[j]]

(* A pop splits the queue: no request is lost or doubled, and neither the  *)
(* batch nor those deferred overtake within their part.  None starves      *)
(* behind requests that fit better: the first one waiting is served, so    *)
(* that every pop brings those it defers nearer to the head.               *)
PopSplitsQueue ==
    [][ popped' # popped =>
          LET taken == Range(Last(popped'))
          IN  /\ Last(popped') = Keep(queue, taken)
              /\ queue'        = Keep(queue, Range(queue) \ taken)
              /\ Head(queue) \in taken
      ]_vars
=============================================================================
