------------------------------- MODULE Deques -------------------------------
(***************************************************************************)
(* The operations of collections.deque and list that the engine uses on    *)
(* its queues: popleft, pop, append, appendleft, extendleft and remove.    *)
(* The sequence operators of the standard module cover all but removal     *)
(* by value, filtering and sums, which are written in closed form, over     *)
(* sets of positions, so that facts about them can be proved.              *)
(***************************************************************************)
EXTENDS Integers, Sequences, FiniteSetsExt

SE == INSTANCE SequencesExt

(* The positions of q that hold an element of S, and the j-th of them. *)
Positions(q, S) == { i \in 1..Len(q) : q[i] \in S }
PlaceIn(K, i)   == Cardinality({ k \in K : k <= i })
Nth(K, j)       == CHOOSE i \in K : PlaceIn(K, i) = j

(* The elements of q at the positions K, and those that belong to S, in    *)
(* the order they have in q.                                               *)
At(q, K)   == [ j \in 1..Cardinality(K) |-> q[Nth(K, j)] ]
Keep(q, S) == At(q, Positions(q, S))

(* The weight of the elements of q at the positions K.                     *)
Total(weight, q, K) == MapThenSumSet(LAMBDA i : weight[q[i]], K)

(* deque.remove(e) for a queue that holds e once. *)
Without(q, e) == Keep(q, Range(q) \ {e})

Last(q)     == q[Len(q)]
Front(q)    == SubSeq(q, 1, Len(q) - 1)
Reversed(q) == [ i \in 1..Len(q) |-> q[Len(q) + 1 - i] ]

(* No element occurs twice. *)
Injective(q) == \A i, j \in 1..Len(q) : q[i] = q[j] => i = j
=============================================================================
