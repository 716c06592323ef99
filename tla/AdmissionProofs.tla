-------------------------- MODULE AdmissionProofs --------------------------
(***************************************************************************)
(* Proofs about Admission.tla, for any requests, images, limits and sizes  *)
(* of the asset cache: batches respect the policy and pops split the       *)
(* queue; images read from files are current; and the keys by which        *)
(* features are shared name the patches they are made of.                  *)
(***************************************************************************)
EXTENDS Admission, DequeTheorems

Request  == DOMAIN Key
Content  == 1..MaxContent
ImageSet == Source \X Content

(* The key an image source has while its content has number n.             *)
KeyOf(s, n) == IF SourceType[s] = "path" THEN <<"path", s, n>> ELSE <<SourceType[s], s>>

(* The queue, and batches that can be run.                                 *)
QueueInv ==
    /\ queue \in Seq(Request) /\ Injective(queue)
    /\ popped \in Seq(Seq(Request))
    /\ BatchesWithinPolicy

(* Contents only advance; a cached image is no older than its key says.    *)
Asset(s, n, m) == [key |-> KeyOf(s, n), image |-> <<s, m>>]
AssetSet       == { Asset(s, n, m) : s \in Source, n \in Content, m \in Content }
AssetInv ==
    /\ content \in [Source -> Content] /\ since \in [Source -> Content]
    /\ \A s \in Source : since[s] <= content[s]
    /\ assets \in Seq(AssetSet)
    /\ \A a \in Range(assets) :
         \E s \in Source : \E m \in 1..content[s] : \E n \in 1..m : a = Asset(s, n, m)

(* Preparation: complete requests, then the one at hand.                   *)
PrepareInv ==
    /\ batch \in Seq(Request) /\ images \in Seq(Seq(ImageSet))
    /\ IF batch = << >> THEN images = << >> ELSE Len(images) \in 1..Len(batch)
    /\ \A n \in 1..Len(images) :
         /\ Len(images[n]) <= Images[batch[n]]
         /\ n < Len(images) => Len(images[n]) = Images[batch[n]]
    /\ FilesCurrent
    /\ missing # << >> =>
         /\ More
         /\ \E n \in since[NextImage]..content[NextImage] : missing = KeyOf(NextImage, n)

(* What is admitted shows the images of the request, whole.                *)
Shows(r, i, input, image) ==
    /\ image[1] = ImageParts(r)[i].source
    /\ input = [key |-> input.key, grid |-> Grid[image], patches |-> Patches(image)]
    /\ LET print == <<image, ImageParts(r)[i].detail>>
       IN  IF Family = "qwen3_vl" THEN \E g : input.key = <<g, print, Grid[image], i>>
                                  ELSE input.key = <<print, Grid[image]>>
ShownWhole(r, inputs) ==
    /\ inputs \in Seq(Range(inputs))
    /\ \A i \in DOMAIN inputs : \E image \in ImageSet : Shows(r, i, inputs[i], image)

AdmittedInv == \A r \in Request : ShownWhole(r, admitted[r])

AdmitInv == QueueInv /\ AssetInv /\ PrepareInv /\ AdmittedInv

-----------------------------------------------------------------------------
(* The batcher.                                                            *)

(* What is taken out of the queue weighs what it weighed there.            *)
LEMMA TotalOfPart ==
    ASSUME NEW T, NEW q \in Seq(T), NEW I \in SUBSET (1..Len(q)),
           NEW weight, \A c \in T : weight[c] \in Nat
    PROVE  Total(weight, At(q, I), 1..Len(At(q, I))) = Total(weight, q, I)
<1> DEFINE b == At(q, I)
           c == Cardinality(I)
           h == [ k \in 1..c |-> Nth(I, k) ]
           v == [ k \in 1..c |-> weight[b[k]] ]
           w == [ i \in I |-> weight[q[i]] ]
<1>1. /\ IsFiniteSet(I) /\ c \in Nat
      /\ \A k \in 1..c : Nth(I, k) \in I /\ PlaceIn(I, Nth(I, k)) = k
      /\ \A i \in I : PlaceIn(I, i) \in 1..c /\ Nth(I, PlaceIn(I, i)) = i
  <2>1. Len(q) \in Nat
    OBVIOUS
  <2> QED BY <2>1, NthProperties
<1>2. b \in Seq(T) /\ Len(b) = c /\ \A k \in 1..c : b[k] = q[Nth(I, k)]
  BY AtProperties DEF At
<1>3. /\ \A i \in I : weight[q[i]] \in Nat
      /\ \A k \in 1..c : weight[b[k]] = weight[q[Nth(I, k)]] /\ weight[b[k]] \in Nat
  BY <1>1, <1>2
<1>4. IsFiniteSet(1..c)
  BY <1>1, FS_Interval
<1>5. h \in Bijection(1..c, I)
  <2>1. h \in [1..c -> I]
    BY <1>1
  <2>2. \A j, k \in 1..c : h[j] = h[k] => j = k
    BY <1>1
  <2>3. \A i \in I : \E k \in 1..c : h[k] = i
    BY <1>1
  <2> HIDE DEF h, c
  <2> QED BY <2>1, <2>2, <2>3 DEF Bijection, Injection, Surjection, IsInjective
<1>6. /\ \A i \in I : w[i] \in Nat
      /\ \A k \in 1..c : v[k] = w[h[k]]
  BY <1>1, <1>3
<1> DEFINE J == 1..c
<1>7. Total(weight, q, I) = Cardinality(Units(w, I))
  BY <1>1, <1>3, TotalIsUnits
<1>8. Total(weight, b, J) = Cardinality(Units(v, J))
  <2>1. IsFiniteSet(J) /\ v = [ k \in J |-> weight[b[k]] ] /\ \A k \in J : weight[b[k]] \in Nat
    BY <1>3, <1>4
  <2> HIDE DEF b, J, v
  <2> QED BY <2>1, TotalIsUnits
<1>9. Cardinality(Units(v, J)) = Cardinality(Units(w, I))
  <2>1. h \in Bijection(J, I) /\ \A k \in J : v[k] = w[h[k]]
    BY <1>5, <1>6
  <2> DEFINE Renames(x, A, y, B) == /\ IsFiniteSet(A) /\ \A a \in A : x[a] \in Nat
                                    /\ \E g \in Bijection(B, A) : \A j \in B : y[j] = x[g[j]]
  <2>2. \A x, A, y, B : Renames(x, A, y, B) => Cardinality(Units(y, B)) = Cardinality(Units(x, A))
    BY UnitsRenamed
  <2> HIDE DEF J, h, v, w
  <2>3. Renames(w, I, v, J)
    BY <1>1, <1>6, <2>1
  <2> HIDE DEF Renames
  <2> QED BY <2>2, <2>3
<1>10. 1..Len(At(q, I)) = J
  BY <1>2
<1> HIDE DEF J, v, w
<1> QED BY <1>7, <1>8, <1>9, <1>10

(* The loop of pop_batch over the candidates is well-defined: upTo holds   *)
(* what is selected after each of them.                                    *)
LEMMA SelectedIsLoop ==
    ASSUME NEW q \in Seq(Request), q # << >>
    PROVE  \E upTo : /\ \A n \in 1..Len(q) :
                          upTo[n] = IF n = 1 THEN {1} ELSE Take(q, upTo[n - 1], n)
                     /\ Selected(q) = upTo[Len(q)]
<1> DEFINE L == Len(q)
           X == SUBSET (1..L)
           one  == {1}
           turn == [ n \in 1..L |-> [ I \in X |-> Take(q, I, n) ] ]
           Loop(f) == f = [ n \in 1..L |-> IF n = 1 THEN {1} ELSE Take(q, f[n - 1], n) ]
           upTo == CHOOSE f : Loop(f)
<1>1. L \in Nat \ {0} /\ one \in X
  OBVIOUS
<1>2. turn \in [1..L -> [X -> X]]
  <2>1. \A I \in X, n \in 1..L : Take(q, I, n) \in X
    BY DEF Take
  <2> QED BY <2>1
<1>3. PICK g \in [1..L -> X] : g[1] = one /\ \A n \in 2..L : g[n] = turn[n][g[n - 1]]
  <2> HIDE DEF turn, X, L, one
  <2> DEFINE Loops(k, Y) ==
        \A x \in Y, f \in [1..k -> [Y -> Y]] :
          \E g \in [1..k -> Y] : g[1] = x /\ \A n \in 2..k : g[n] = f[n][g[n - 1]]
  <2>1. \A k \in Nat \ {0} : \A Y : Loops(k, Y)
    BY LoopDefined
  <2>2. Loops(L, X)
    <3> HIDE DEF Loops
    <3> QED BY <1>1, <2>1
  <2> QED BY <1>1, <1>2, <2>2
<1>4. Loop(g)
  <2>1. ASSUME NEW n \in 1..L PROVE g[n] = IF n = 1 THEN {1} ELSE Take(q, g[n - 1], n)
    <3>1. CASE n = 1
      BY <1>3, <3>1
    <3>2. CASE n # 1
      <4>1. n \in 2..L /\ n - 1 \in 1..L
        BY <3>2
      <4>2. g[n - 1] \in X /\ g[n] = turn[n][g[n - 1]]
        BY <1>3, <4>1
      <4> QED BY <3>2, <4>2
    <3> QED BY <3>1, <3>2
  <2>2. g = [ n \in 1..L |-> g[n] ]
    OBVIOUS
  <2> QED BY <2>1, <2>2
<1>5. Loop(upTo)
  <2> HIDE DEF Loop
  <2> QED BY <1>4
<1>6. Selected(q) = upTo[L]
  BY DEF Selected
<1> HIDE DEF upTo
<1> QED BY <1>5, <1>6

(* The loop keeps what is selected within the policy, for it starts with   *)
(* a request that add() accepted and takes what still fits.                *)
LEMMA SelectedWithin ==
    ASSUME NEW q \in Seq(Request), q # << >>
    PROVE  LET I == Selected(q)
           IN  /\ I \in SUBSET (1..Len(q)) /\ 1 \in I
               /\ Cardinality(I) <= MaxBatch
               /\ Fits(q, I)
               /\ \A i \in I : Key[q[i]] = Key[q[1]]
<1> DEFINE L == Len(q)
           Good(n, I) == /\ I \in SUBSET (1..n) /\ 1 \in I
                         /\ Cardinality(I) <= MaxBatch
                         /\ Fits(q, I)
                         /\ \A i \in I : Key[q[i]] = Key[q[1]]
<1>1. L \in Nat /\ L >= 1 /\ \A i \in 1..L : q[i] \in Request
  OBVIOUS
<1>2. PICK upTo : /\ \A n \in 1..L : upTo[n] = IF n = 1 THEN {1} ELSE Take(q, upTo[n - 1], n)
                  /\ Selected(q) = upTo[L]
  BY SelectedIsLoop
<1> DEFINE S == { n \in 1..L : Good(n, upTo[n]) }
<1>3. Good(1, {1})
  <2> DEFINE c == q[1]
  <2>1. /\ TextTokens[c] \in 0..MaxTextTokens /\ ImageTokens[c] \in 0..MaxImageTokens
        /\ Images[c] \in 0..MaxImages /\ MaxBatch \in Nat \ {0}
    BY <1>1, BatcherAssumption DEF Request
  <2>2. ASSUME NEW weight, weight[c] \in Nat PROVE Total(weight, q, {1}) = weight[c]
    <3> DEFINE w == [ i \in {1} |-> weight[q[i]] ]
    <3>1. IsFiniteSet({1}) /\ \A i \in {1} : weight[q[i]] \in Nat
      BY <2>2, FS_Singleton
    <3>2. Total(weight, q, {1}) = Cardinality(Units(w, {1}))
      BY <3>1, TotalIsUnits
    <3>3. w[1] = weight[c] /\ w[1] \in Nat
      BY <2>2
    <3> HIDE DEF w
    <3> QED BY <3>2, <3>3, UnitsOfOne
  <2>3. /\ Total(TextTokens, q, {1}) = TextTokens[c]
        /\ Total(ImageTokens, q, {1}) = ImageTokens[c]
        /\ Total(Images, q, {1}) = Images[c]
    BY <2>1, <2>2
  <2>4. Fits(q, {1})
    BY <2>1, <2>3 DEF Fits
  <2>5. Cardinality({1}) = 1
    BY FS_Singleton
  <2> HIDE DEF c
  <2> QED BY <2>1, <2>4, <2>5
<1>4. ASSUME NEW n \in 1..L - 1, Good(n, upTo[n]) PROVE Good(n + 1, upTo[n + 1])
  <2> DEFINE I == upTo[n]
             i == n + 1
  <2>1. i \in 1..L /\ i # 1 /\ i - 1 = n /\ 1..n \subseteq 1..i /\ i \in 1..i /\ i \notin 1..n
    BY <1>1
  <2>2. upTo[i] = Take(q, I, i)
    BY <1>2, <2>1
  <2>3. CASE Cardinality(I) < MaxBatch /\ Compatible(q[1], q[i]) /\ Fits(q, I \cup {i})
    <3>1. upTo[i] = I \cup {i}
      BY <2>2, <2>3 DEF Take
    <3>2. IsFiniteSet(I) /\ Cardinality(I) \in Nat
      <4>1. IsFiniteSet(1..n)
        BY FS_Interval
      <4> QED BY <1>4, <4>1, FS_Subset, FS_CardinalityType
    <3>3. Cardinality(I \cup {i}) = Cardinality(I) + 1
      BY <1>4, <2>1, <3>2, FS_AddElement
    <3>4. Cardinality(I \cup {i}) <= MaxBatch
      BY <2>3, <3>2, <3>3, BatcherAssumption
    <3>5. \A k \in I \cup {i} : Key[q[k]] = Key[q[1]]
      BY <1>4, <2>3 DEF Compatible
    <3>6. I \cup {i} \in SUBSET (1..i) /\ 1 \in I \cup {i}
      BY <1>4, <2>1
    <3> HIDE DEF I, i
    <3>7. Good(i, I \cup {i})
      BY <2>3, <3>4, <3>5, <3>6
    <3> HIDE DEF Good
    <3> QED BY <3>1, <3>7 DEF i
  <2>4. CASE ~ (Cardinality(I) < MaxBatch /\ Compatible(q[1], q[i]) /\ Fits(q, I \cup {i}))
    <3>1. upTo[i] = I
      BY <2>2, <2>4 DEF Take
    <3>2. Good(i, I)
      BY <1>4, <2>1
    <3> HIDE DEF Good
    <3> QED BY <3>1, <3>2
  <2> QED BY <2>3, <2>4
<1>5. 1 \in S
  <2>1. upTo[1] = {1}
    BY <1>1, <1>2
  <2> HIDE DEF Good
  <2>2. Good(1, upTo[1])
    BY <1>3, <2>1, Zenon
  <2> QED BY <1>1, <2>2
<1>6. ASSUME NEW n \in 1..L - 1, n \in S PROVE n + 1 \in S
  <2>1. n + 1 \in 1..L
    BY <1>1
  <2> HIDE DEF Good
  <2> QED BY <1>4, <1>6, <2>1
<1>7. L \in S
  <2>1. 1..L \subseteq S
    <3> HIDE DEF S
    <3> QED BY <1>1, <1>5, <1>6, UpToInduction
  <2> HIDE DEF S
  <2> QED BY <1>1, <2>1
<1>8. Good(L, Selected(q))
  <2> HIDE DEF Good
  <2> QED BY <1>2, <1>7
<1> QED BY <1>8

(* What BatchesWithinPolicy says of one batch.                             *)
Within(b) ==
    /\ Len(b) \in 1..MaxBatch
    /\ Total(TextTokens,  b, DOMAIN b) <= MaxTextTokens
    /\ Total(ImageTokens, b, DOMAIN b) <= MaxImageTokens
    /\ Total(Images,      b, DOMAIN b) <= MaxImages
    /\ \A i, j \in DOMAIN b : Key[b[i]] = Key[b[j]]

LEMMA BatchWithin ==
    ASSUME NEW q \in Seq(Request), q # << >>
    PROVE  Batch(q) \in Seq(Request) /\ Within(Batch(q))
<1> DEFINE I == Selected(q)
           b == Batch(q)
<1>1. /\ I \in SUBSET (1..Len(q)) /\ 1 \in I
      /\ Cardinality(I) <= MaxBatch /\ Fits(q, I)
      /\ \A i \in I : Key[q[i]] = Key[q[1]]
  BY SelectedWithin
<1> HIDE DEF I
<1>2. /\ IsFiniteSet(I) /\ Cardinality(I) \in Nat
      /\ \A k \in 1..Cardinality(I) : Nth(I, k) \in I
  <2>1. Len(q) \in Nat
    OBVIOUS
  <2> QED BY <1>1, <2>1, NthProperties
<1>3. b = At(q, I) /\ b \in Seq(Request) /\ Len(b) = Cardinality(I) /\ DOMAIN b = 1..Len(b)
  BY <1>1, AtProperties DEF Batch, I
<1>4. \A k \in DOMAIN b : Key[b[k]] = Key[q[1]]
  BY <1>1, <1>2, <1>3 DEF At
<1>5. Len(b) \in 1..MaxBatch
  <2>1. Cardinality(I) # 0
    BY <1>1, <1>2, FS_EmptySet
  <2> QED BY <1>1, <1>2, <1>3, <2>1, BatcherAssumption
<1>6. \A c \in Request : /\ TextTokens[c] \in Nat /\ ImageTokens[c] \in Nat /\ Images[c] \in Nat
  BY BatcherAssumption DEF Request
<1> HIDE DEF b
<1>7. /\ Total(TextTokens, b, DOMAIN b)  = Total(TextTokens, q, I)
      /\ Total(ImageTokens, b, DOMAIN b) = Total(ImageTokens, q, I)
      /\ Total(Images, b, DOMAIN b)      = Total(Images, q, I)
  BY <1>1, <1>3, <1>6, TotalOfPart
<1> QED BY <1>1, <1>3, <1>4, <1>5, <1>7 DEF Within, Fits, b

(* A pop takes a part of the queue, the first one waiting with it, and     *)
(* leaves the other part, both in order.                                   *)
LEMMA PopSplits ==
    ASSUME NEW q \in Seq(Request), q # << >>, Injective(q)
    PROVE  /\ Batch(q) = Keep(q, Range(Batch(q)))
           /\ Rest(q) = Keep(q, Range(q) \ Range(Batch(q)))
           /\ Head(q) \in Range(Batch(q))
           /\ Rest(q) \in Seq(Request) /\ Injective(Rest(q))
<1> DEFINE L == Len(q)
           I == Selected(q)
           J == (1..L) \ I
<1>1. I \in SUBSET (1..L) /\ 1 \in I
  BY SelectedWithin
<1>2. Batch(q) = At(q, I) /\ Rest(q) = At(q, J)
  BY DEF Batch, Rest
<1> HIDE DEF I
<1>3. J \in SUBSET (1..L)
  OBVIOUS
<1>4. /\ Range(Batch(q)) = { q[i] : i \in I }
      /\ Rest(q) \in Seq(Request) /\ Injective(Rest(q))
  BY <1>1, <1>2, <1>3, AtProperties
<1>5. Range(q) = { q[i] : i \in 1..L }
  BY DEF Range
<1>6. \A i, j \in 1..L : q[i] = q[j] => i = j
  BY DEF Injective
<1>7. Positions(q, Range(Batch(q))) = I
  BY <1>1, <1>4, <1>6 DEF Positions
<1>8. Positions(q, Range(q) \ Range(Batch(q))) = J
  BY <1>1, <1>4, <1>5, <1>6 DEF Positions
<1>9. Head(q) \in Range(Batch(q))
  BY <1>1, <1>4
<1> QED BY <1>2, <1>4, <1>7, <1>8, <1>9 DEF Keep

(* The queue holds no request twice, and every batch is within the policy. *)
LEMMA QueueKept ==
    ASSUME QueueInv, AdmitNext
    PROVE  QueueInv'
<1>1. BatchesWithinPolicy <=> \A n \in DOMAIN popped : Within(popped[n])
  BY DEF BatchesWithinPolicy, Within
<1>2. BatchesWithinPolicy' <=> \A n \in DOMAIN popped' : Within(popped'[n])
  BY DEF BatchesWithinPolicy, Within
<1>3. CASE UNCHANGED vars
  BY <1>3, <1>1, <1>2 DEF QueueInv, vars
<1>4. ASSUME NEW r \in Request, Add(r) PROVE QueueInv'
  <2>1. queue' = Append(queue, r) /\ popped' = popped /\ r \notin Range(queue)
    BY <1>4 DEF Add
  <2>2. queue' \in Seq(Request)
    BY <2>1 DEF QueueInv
  <2>3. Injective(queue')
    <3> SUFFICES ASSUME NEW i \in 1..Len(queue'), NEW j \in 1..Len(queue'), queue'[i] = queue'[j]
                 PROVE  i = j
      BY DEF Injective
    <3>1. /\ Len(queue) \in Nat /\ Len(queue') = Len(queue) + 1 /\ queue'[Len(queue')] = r
          /\ \A k \in 1..Len(queue) : queue'[k] = queue[k] /\ queue[k] \in Range(queue)
      BY <2>1 DEF QueueInv, Range
    <3>2. \A k \in 1..Len(queue') : k \in 1..Len(queue) \/ k = Len(queue')
      BY <3>1
    <3> QED BY <2>1, <3>1, <3>2 DEF QueueInv, Injective
  <2> QED BY <1>1, <1>2, <2>1, <2>2, <2>3 DEF QueueInv
<1>5. CASE PopBatch
  <2>1. queue # << >> /\ queue' = Rest(queue) /\ popped' = Append(popped, Batch(queue))
    BY <1>5 DEF PopBatch
  <2>2. Rest(queue) \in Seq(Request) /\ Injective(Rest(queue))
    BY <2>1, PopSplits DEF QueueInv
  <2>3. Batch(queue) \in Seq(Request) /\ Within(Batch(queue))
    BY <2>1, BatchWithin DEF QueueInv
  <2>4. popped' \in Seq(Seq(Request))
    BY <2>1, <2>3 DEF QueueInv
  <2>5. \A n \in DOMAIN popped' : popped'[n] = Batch(queue) \/ (n \in DOMAIN popped /\ popped'[n] = popped[n])
    BY <2>1 DEF QueueInv
  <2>6. \A n \in DOMAIN popped' : Within(popped'[n])
    BY <1>1, <2>3, <2>5 DEF QueueInv
  <2> QED BY <1>2, <2>1, <2>2, <2>4, <2>6 DEF QueueInv
<1> QED
  BY <1>3, <1>4, <1>5
  DEF AdmitNext, Submit, Begin, LookUp, Load, LoadFails, NextRequest, Admit, Environment, Request

-----------------------------------------------------------------------------
(* The asset cache.                                                        *)
LEMMA KeysApart ==
    ASSUME NEW s \in Source, NEW t \in Source, NEW n, NEW k, KeyOf(s, n) = KeyOf(t, k)
    PROVE  s = t /\ (SourceType[s] = "path" => n = k)
  BY DEF KeyOf

LEMMA KeyNow ==
    ASSUME NEW s \in Source
    PROVE  CacheKey(s) = KeyOf(s, content[s])
  BY DEF CacheKey, KeyOf

(* The images of a request's messages.                                     *)
LEMMA PartFacts ==
    ASSUME NEW r \in Request
    PROVE  /\ Images[r] \in Nat
           /\ \A i \in 1..Images[r] : ImageParts(r)[i].source \in Source
<1>1. Parts[r] \in Seq(Range(Parts[r])) /\ Images[r] = Len(ImageParts(r))
  BY AdmissionAssumption DEF Request
<1> DEFINE p == Parts[r]
           T == Range(p)
           S == { x \in T : IsImage(x) }
<1>2. ImageParts(r) = Keep(p, S)
  BY DEF ImageParts
<1> HIDE DEF T
<1>3. p \in Seq(T)
  BY <1>1 DEF T
<1> HIDE DEF p, S
<1>4. Keep(p, S) \in Seq(T) /\ Range(Keep(p, S)) = Range(p) \cap S
  BY <1>3, KeepProperties
<1>5. \A i \in 1..Len(Keep(p, S)) : Keep(p, S)[i] \in S
  BY <1>4 DEF Range
<1> QED BY <1>1, <1>2, <1>4, <1>5 DEF S, IsImage

(* Whatever is kept of the cache, and a new entry that is no older than    *)
(* its key says, are a cache.                                              *)
LEMMA Recached ==
    ASSUME AssetInv, NEW q, q \in Seq(AssetSet), UNCHANGED <<content, since>>, assets' = q,
           \A a \in Range(q) : \/ a \in Range(assets)
                               \/ \E s \in Source : \E m \in 1..content[s] : \E n \in 1..m :
                                    a = Asset(s, n, m)
    PROVE  AssetInv'
  BY DEF AssetInv

LEMMA Kept ==
    ASSUME AssetInv, NEW key, NEW a \in AssetSet
    PROVE  LET q == Append(Others(key), a)
           IN  /\ q \in Seq(AssetSet)
               /\ Range(q) \subseteq Range(assets) \cup {a}
               /\ Tail(q) \in Seq(AssetSet) /\ Range(Tail(q)) \subseteq Range(q)
<1> DEFINE S == { x \in Range(assets) : x.key # key }
           others == Others(key)
           q == Append(others, a)
<1>1. assets \in Seq(AssetSet) /\ others = Keep(assets, S)
  BY DEF AssetInv, Others
<1> HIDE DEF S, others
<1>2. others \in Seq(AssetSet) /\ Range(others) \subseteq Range(assets)
  BY <1>1, KeepProperties
<1>3. q \in Seq(AssetSet) /\ q # << >>
  BY <1>2
<1>4. Range(q) \subseteq Range(others) \cup {a}
  BY <1>2 DEF Range
<1> HIDE DEF q
<1>5. Tail(q) \in Seq(AssetSet) /\ Range(Tail(q)) \subseteq Range(q)
  BY <1>3 DEF Range
<1> QED BY <1>2, <1>3, <1>4, <1>5 DEF q, others

(* What an image is when it is given: one of its source, and no older than *)
(* its batch if it comes from a file.                                      *)
AsOf(s, image) ==
    /\ image \in ImageSet /\ image[1] = s
    /\ SourceType[s] = "path" => image[2] \in since[s]..content[s]

(* The cache has an image of the source it is asked for; if that is a file *)
(* the image is as the file is now.                                        *)
LEMMA HitIsCurrent ==
    ASSUME AssetInv, NEW s \in Source, Cached(CacheKey(s))
    PROVE  LET a == [key |-> CacheKey(s), image |-> ImageAt(CacheKey(s))]
           IN  a \in Range(assets) /\ a \in AssetSet /\ AsOf(s, a.image)
<1> DEFINE key == CacheKey(s)
           a == CHOOSE a \in Range(assets) : a.key = key
<1>1. a \in Range(assets) /\ a.key = key /\ a.image = ImageAt(key)
  BY DEF Cached, ImageAt, Range
<1> HIDE DEF a
<1>2. PICK t \in Source : \E m \in 1..content[t] : \E n \in 1..m : a = Asset(t, n, m)
  BY <1>1 DEF AssetInv
<1>m. PICK m \in 1..content[t] : \E n \in 1..m : a = Asset(t, n, m)
  BY <1>2
<1>n. PICK n \in 1..m : a = Asset(t, n, m)
  BY <1>m
<1>3. KeyOf(t, n) = KeyOf(s, content[s])
  BY <1>1, <1>n, KeyNow DEF Asset
<1>4. t = s /\ (SourceType[s] = "path" => n = content[s])
  BY <1>3, KeysApart
<1>5. content[s] \in Content /\ since[s] \in Content /\ since[s] <= content[s] /\ MaxContent \in Nat
  BY AssetAssumption DEF AssetInv
<1>6. m \in Content /\ n \in Content /\ m <= content[s] /\ n <= m
  BY <1>4, <1>5 DEF Content
<1>7. a \in AssetSet
  BY <1>n, <1>6 DEF AssetSet
<1>8. a = [key |-> key, image |-> ImageAt(key)]
  BY <1>1, <1>n DEF Asset
<1>9. ImageAt(key) = <<s, m>>
  BY <1>1, <1>4, <1>n DEF Asset
<1>10. <<s, m>> \in ImageSet
  BY <1>6 DEF ImageSet
<1>11. SourceType[s] = "path" => m \in since[s]..content[s]
  BY <1>4, <1>5, <1>6 DEF Content
<1> HIDE DEF key
<1> QED BY <1>1, <1>7, <1>8, <1>9, <1>10, <1>11 DEF AsOf, key

(* The cache after a hit, and after an image has been loaded for a key     *)
(* that was made earlier.                                                  *)
LEMMA UsedIsCache ==
    ASSUME AssetInv, NEW s \in Source, Cached(CacheKey(s)),
           assets' = Used(CacheKey(s)), UNCHANGED <<content, since>>
    PROVE  AssetInv'
<1> DEFINE key == CacheKey(s)
           a == [key |-> key, image |-> ImageAt(key)]
           q == Append(Others(key), a)
<1>1. a \in Range(assets) /\ a \in AssetSet
  BY HitIsCurrent
<1>2. assets' = q
  BY DEF Used
<1> HIDE DEF a, key
<1>3. q \in Seq(AssetSet) /\ Range(q) \subseteq Range(assets) \cup {a}
  BY <1>1, Kept
<1>4. \A x \in Range(q) : x \in Range(assets)
  BY <1>1, <1>3
<1> HIDE DEF q
<1> QED BY <1>2, <1>3, <1>4, Recached

LEMMA PutIsCache ==
    ASSUME AssetInv, NEW s \in Source, NEW n \in 1..content[s],
           assets' = PutAt(KeyOf(s, n), Loaded(s)), UNCHANGED <<content, since>>
    PROVE  AssetInv'
<1> DEFINE key == KeyOf(s, n)
           a == [key |-> key, image |-> Loaded(s)]
           q == Append(Others(key), a)
<1>1. content[s] \in Content /\ MaxContent \in Nat
  BY AssetAssumption DEF AssetInv
<1>2. a = Asset(s, n, content[s]) /\ content[s] \in 1..content[s] /\ n \in Content
  BY <1>1 DEF Asset, Loaded, Content
<1>3. a \in AssetSet
  BY <1>1, <1>2 DEF AssetSet
<1>4. assets' = q \/ assets' = Tail(q)
  BY DEF PutAt
<1> HIDE DEF a, key
<1>5. /\ q \in Seq(AssetSet) /\ Range(q) \subseteq Range(assets) \cup {a}
      /\ Tail(q) \in Seq(AssetSet) /\ Range(Tail(q)) \subseteq Range(q)
  BY <1>3, Kept
<1> HIDE DEF q
<1>6. assets' \in Seq(AssetSet) /\ Range(assets') \subseteq Range(assets) \cup {a}
  BY <1>4, <1>5
<1>7. \A x \in Range(assets') : \/ x \in Range(assets)
                                \/ \E t \in Source : \E m \in 1..content[t] : \E k \in 1..m :
                                     x = Asset(t, k, m)
  BY <1>2, <1>6
<1> QED BY <1>6, <1>7, Recached

-----------------------------------------------------------------------------
(* The preparation of a batch.                                             *)
LEMMA AtHand ==
    ASSUME AssetInv, PrepareInv, More
    PROVE  LET L == Len(images) IN
           /\ L \in 1..Len(batch) /\ L \in Nat /\ batch # << >> /\ images # << >>
           /\ DOMAIN images = 1..L /\ DOMAIN batch = 1..Len(batch) /\ L \in 1..L
           /\ Last(images) = images[L] /\ Current = batch[L] /\ Current \in Request
           /\ images[L] \in Seq(ImageSet) /\ Len(images[L]) \in Nat
           /\ Len(images[L]) + 1 \in 1..Images[Current]
           /\ NextImage = ImageParts(Current)[Len(images[L]) + 1].source
           /\ NextImage \in Source
<1> DEFINE L == Len(images)
           n == Len(images[L])
<1>1. batch \in Seq(Request) /\ images \in Seq(Seq(ImageSet)) /\ batch # << >> /\ L \in 1..Len(batch)
  BY DEF PrepareInv, More
<1>2. L \in Nat /\ L \in 1..L /\ DOMAIN images = 1..L /\ DOMAIN batch = 1..Len(batch)
  BY <1>1
<1>3. Last(images) = images[L] /\ Current = batch[L] /\ batch[L] \in Request
  BY <1>1 DEF Last, Current
<1>4. images[L] \in Seq(ImageSet) /\ n \in Nat
  BY <1>1, <1>2
<1>5. n < Images[Current] /\ Images[Current] \in Nat
  BY <1>3, PartFacts DEF More
<1>6. n + 1 \in 1..Images[Current]
  BY <1>4, <1>5
<1>7. NextImage = ImageParts(Current)[n + 1].source
  BY <1>3 DEF NextImage
<1>8. NextImage \in Source
  BY <1>3, <1>6, <1>7, PartFacts
<1>9. images # << >>
  BY <1>1, <1>2
<1> QED BY <1>1, <1>2, <1>3, <1>4, <1>6, <1>7, <1>8, <1>9

LEMMA GiveKeeps ==
    ASSUME AssetInv, PrepareInv, More, NEW image, AsOf(NextImage, image), Give(image),
           missing' = << >>, UNCHANGED <<content, since, batch>>
    PROVE  PrepareInv'
<1> DEFINE L == Len(images)
           mine == images[L]
           n == Len(mine) + 1
<1>1. /\ L \in 1..Len(batch) /\ L \in Nat /\ batch # << >> /\ images # << >>
      /\ DOMAIN images = 1..L /\ DOMAIN batch = 1..Len(batch) /\ L \in 1..L
      /\ Last(images) = mine /\ Current = batch[L] /\ Current \in Request
      /\ mine \in Seq(ImageSet) /\ Len(mine) \in Nat /\ n \in 1..Images[Current]
      /\ NextImage = ImageParts(Current)[n].source
  BY AtHand
<1>2. images \in Seq(Seq(ImageSet)) /\ batch \in Seq(Request) /\ image \in ImageSet
  BY DEF PrepareInv, AsOf
<1>3. images' = Front(images) \o << Append(mine, image) >>
  BY <1>1 DEF Give
<1> DEFINE grown == Append(mine, image)
<1>4. /\ grown \in Seq(ImageSet) /\ Len(grown) = n /\ grown[n] = image
      /\ DOMAIN grown = 1..n /\ \A i \in 1..n - 1 : grown[i] = mine[i]
  BY <1>1, <1>2
<1>5. /\ images' \in Seq(Seq(ImageSet)) /\ Len(images') = L
      /\ images'[L] = grown
      /\ \A k \in 1..L - 1 : images'[k] = images[k]
  <2> HIDE DEF grown
  <2>1. /\ Front(images) \in Seq(Seq(ImageSet)) /\ Len(Front(images)) = L - 1
        /\ \A k \in 1..L - 1 : Front(images)[k] = images[k]
    BY <1>1, <1>2 DEF Front
  <2> DEFINE f == Front(images)
  <2> HIDE DEF f, L
  <2>2. /\ f \o <<grown>> \in Seq(Seq(ImageSet)) /\ Len(f \o <<grown>>) = L
        /\ (f \o <<grown>>)[L] = grown
        /\ \A k \in 1..L - 1 : (f \o <<grown>>)[k] = f[k]
    BY <1>1, <1>4, <2>1 DEF f
  <2> QED BY <1>3, <2>1, <2>2 DEF f, grown
<1>6. \A k \in 1..L : k = L \/ k \in 1..L - 1
  <2>1. L \in Nat
    BY <1>1
  <2> HIDE DEF L
  <2> QED BY <2>1
<1>7. \A k \in 1..Len(images') : /\ Len(images'[k]) <= Images[batch'[k]]
                                 /\ k < Len(images') => Len(images'[k]) = Images[batch'[k]]
  <2> TAKE k \in 1..Len(images')
  <2>1. CASE k = L
    BY <1>1, <1>4, <1>5, <2>1
  <2>2. CASE k # L
    <3>1. k \in 1..L - 1 /\ k \in 1..L /\ k < L /\ images'[k] = images[k] /\ batch' = batch
      BY <1>5, <1>6, <2>2
    <3> QED BY <1>5, <3>1 DEF PrepareInv
  <2> QED BY <2>1, <2>2
<1>8. FilesCurrent'
  <2> SUFFICES ASSUME NEW k \in DOMAIN images', NEW i \in DOMAIN images'[k]
               PROVE  LET s == ImageParts(batch[k])[i].source
                      IN  /\ images'[k][i][1] = s
                          /\ SourceType[s] = "path" => images'[k][i][2] \in since[s]..content[s]
    BY DEF FilesCurrent, ImageParts, IsImage
  <2>1. k \in 1..L
    BY <1>5
  <2>2. CASE k = L /\ i = n
    BY <1>1, <1>4, <1>5, <2>2 DEF AsOf
  <2>3. CASE ~ (k = L /\ i = n)
    <3>1. k \in DOMAIN images /\ i \in DOMAIN images[k] /\ images'[k][i] = images[k][i]
      <4>1. CASE k = L
        <5>1. i \in 1..n /\ i # n
          BY <1>4, <1>5, <2>3, <4>1
        <5>2. i \in 1..n - 1 /\ i \in DOMAIN mine
          BY <1>1, <5>1
        <5> QED BY <1>1, <1>4, <1>5, <4>1, <5>2
      <4>2. CASE k # L
        BY <1>1, <1>5, <1>6, <2>1, <4>2
      <4> QED BY <4>1, <4>2
    <3> QED BY <3>1 DEF PrepareInv, FilesCurrent
  <2> QED BY <2>2, <2>3
<1> QED BY <1>1, <1>2, <1>5, <1>7, <1>8 DEF PrepareInv

LEMMA LookUpKeeps ==
    ASSUME AssetInv, PrepareInv, LookUp
    PROVE  AssetInv' /\ PrepareInv'
<1> DEFINE s == NextImage
           key == CacheKey(s)
<1>1. /\ More /\ missing = << >>
      /\ IF Cached(key)
         THEN assets' = Used(key) /\ Give(ImageAt(key)) /\ UNCHANGED missing
         ELSE missing' = key /\ UNCHANGED <<assets, images>>
      /\ UNCHANGED <<content, batch, since>>
  BY DEF LookUp
<1>2. s \in Source
  BY <1>1, AtHand
<1> HIDE DEF s
<1>3. CASE Cached(key)
  <2>1. AsOf(s, ImageAt(key))
    BY <1>2, <1>3, HitIsCurrent
  <2>2. AssetInv'
    BY <1>1, <1>2, <1>3, UsedIsCache
  <2>3. PrepareInv'
    BY <1>1, <1>3, <2>1, GiveKeeps DEF s
  <2> QED BY <2>2, <2>3
<1>4. CASE ~ Cached(key)
  <2>1. missing' = key /\ UNCHANGED <<assets, images, content, batch, since>>
    BY <1>1, <1>4
  <2>2. AssetInv'
    BY <2>1 DEF AssetInv
  <2>3. key = KeyOf(s, content[s])
    BY <1>2, KeyNow
  <2>4. content[s] \in since[s]..content[s]
    BY <1>2 DEF AssetInv, Content
  <2>5. NextImage' = s /\ More'
    BY <1>1, <2>1 DEF s, NextImage, Current, More, ImageParts, IsImage
  <2>6. FilesCurrent'
    BY <2>1 DEF PrepareInv, FilesCurrent, ImageParts, IsImage
  <2> HIDE DEF key
  <2>7. \E n \in since'[NextImage']..content'[NextImage'] : missing' = KeyOf(NextImage', n)
    BY <2>1, <2>3, <2>4, <2>5
  <2>8. /\ batch' \in Seq(Request) /\ images' \in Seq(Seq(ImageSet))
        /\ IF batch' = << >> THEN images' = << >> ELSE Len(images') \in 1..Len(batch')
        /\ \A n \in 1..Len(images') :
             /\ Len(images'[n]) <= Images[batch'[n]]
             /\ n < Len(images') => Len(images'[n]) = Images[batch'[n]]
    BY <2>1 DEF PrepareInv
  <2> QED BY <2>2, <2>5, <2>6, <2>7, <2>8 DEF PrepareInv
<1> QED BY <1>3, <1>4

LEMMA LoadKeeps ==
    ASSUME AssetInv, PrepareInv, Load
    PROVE  AssetInv' /\ PrepareInv'
<1> DEFINE s == NextImage
<1>1. /\ missing # << >> /\ assets' = PutAt(missing, Loaded(s)) /\ Give(Loaded(s))
      /\ missing' = << >> /\ UNCHANGED <<content, batch, since>>
  BY DEF Load
<1>2. More /\ \E n \in since[s]..content[s] : missing = KeyOf(s, n)
  BY <1>1 DEF PrepareInv
<1>3. s \in Source
  BY <1>2, AtHand
<1> HIDE DEF s
<1>4. PICK n \in since[s]..content[s] : missing = KeyOf(s, n)
  BY <1>2
<1>5. since[s] \in Content /\ content[s] \in Content /\ since[s] <= content[s] /\ MaxContent \in Nat
  BY <1>3, AssetAssumption DEF AssetInv
<1>6. n \in 1..content[s] /\ content[s] \in since[s]..content[s]
  BY <1>5 DEF Content
<1>7. AsOf(s, Loaded(s))
  BY <1>3, <1>5, <1>6 DEF AsOf, Loaded, ImageSet
<1>8. AssetInv'
  BY <1>1, <1>3, <1>4, <1>6, PutIsCache
<1>9. PrepareInv'
  BY <1>1, <1>2, <1>7, GiveKeeps DEF s
<1> QED BY <1>8, <1>9

(* The batch has just been popped, or there is none any more.              *)
LEMMA BeginKeeps ==
    ASSUME QueueInv, AssetInv, PrepareInv, Begin
    PROVE  AssetInv' /\ PrepareInv'
<1>1. /\ batch = << >> /\ queue # << >> /\ batch' = Batch(queue)
      /\ since' = content /\ images' = << << >> >> /\ UNCHANGED <<content, assets, missing>>
  BY DEF Begin, PopBatch, assetVars
<1>2. Batch(queue) \in Seq(Request) /\ Len(Batch(queue)) \in 1..MaxBatch
  BY <1>1, BatchWithin DEF QueueInv, Within
<1>3. AssetInv'
  BY <1>1 DEF AssetInv, Content
<1>4. missing' = << >>
  BY <1>1 DEF PrepareInv, More
<1>5. /\ Len(images') = 1 /\ images'[1] = << >> /\ DOMAIN images' = {1}
      /\ images' \in Seq(Seq(ImageSet))
  BY <1>1
<1>6. /\ batch' \in Seq(Request) /\ batch' # << >> /\ 1 \in 1..Len(batch')
      /\ Images[batch'[1]] \in Nat
  <2>1. batch' \in Seq(Request) /\ 1 \in 1..Len(batch')
    BY <1>1, <1>2, BatcherAssumption
  <2> QED BY <2>1, PartFacts
<1>7. \A n \in 1..Len(images') : /\ Len(images'[n]) <= Images[batch'[n]]
                                 /\ n < Len(images') => Len(images'[n]) = Images[batch'[n]]
  BY <1>5, <1>6
<1>8. FilesCurrent'
  BY <1>5 DEF FilesCurrent
<1> QED BY <1>3, <1>4, <1>5, <1>6, <1>7, <1>8 DEF PrepareInv

LEMMA EmptyKeeps ==
    ASSUME AssetInv, PrepareInv, LoadFails \/ Admit
    PROVE  AssetInv' /\ PrepareInv'
<1>1. batch' = << >> /\ images' = << >> /\ UNCHANGED <<content, assets, since>>
  BY DEF LoadFails, Admit, assetVars
<1>2. missing' = << >>
  BY DEF LoadFails, Admit, PrepareInv
<1>3. AssetInv'
  BY <1>1 DEF AssetInv
<1>4. FilesCurrent'
  BY <1>1 DEF FilesCurrent
<1> QED BY <1>1, <1>2, <1>3, <1>4 DEF PrepareInv

LEMMA NextRequestKeeps ==
    ASSUME AssetInv, PrepareInv, NextRequest
    PROVE  AssetInv' /\ PrepareInv'
<1> DEFINE L == Len(images)
<1>1. /\ batch # << >> /\ ~ More /\ L < Len(batch) /\ images' = Append(images, << >>)
      /\ UNCHANGED <<content, assets, batch, since, missing>>
  BY DEF NextRequest, assetVars
<1>2. AssetInv'
  BY <1>1 DEF AssetInv
<1>3. missing' = << >>
  BY <1>1 DEF PrepareInv
<1>4. batch \in Seq(Request) /\ images \in Seq(Seq(ImageSet)) /\ L \in 1..Len(batch) /\ L \in Nat
  BY <1>1 DEF PrepareInv
<1>5. /\ images' \in Seq(Seq(ImageSet)) /\ Len(images') = L + 1 /\ images'[L + 1] = << >>
      /\ \A n \in 1..L : images'[n] = images[n]
      /\ L + 1 \in 1..Len(batch)
  BY <1>1, <1>4
<1>m. \A k \in 1..L + 1 : k = L + 1 \/ k = L \/ (k \in 1..L /\ k < L)
  <2>1. L \in Nat
    BY <1>4
  <2> HIDE DEF L
  <2> QED BY <2>1
<1>6. Len(images[L]) = Images[batch[L]]
  <2>1. Last(images) = images[L] /\ Current = batch[L] /\ batch[L] \in Request /\ L \in 1..L
    BY <1>4 DEF Last, Current
  <2>2. Len(images[L]) <= Images[batch[L]] /\ ~ (Len(images[L]) < Images[batch[L]])
    BY <1>1, <2>1 DEF More, PrepareInv
  <2>3. Len(images[L]) \in Nat /\ Images[batch[L]] \in Nat
    BY <1>4, <2>1, PartFacts
  <2> QED BY <2>2, <2>3
<1>7. Images[batch[L + 1]] \in Nat
  BY <1>4, <1>5, PartFacts
<1>8. \A n \in 1..Len(images') : /\ Len(images'[n]) <= Images[batch'[n]]
                                 /\ n < Len(images') => Len(images'[n]) = Images[batch'[n]]
  <2> TAKE n \in 1..Len(images')
  <2>1. CASE n = L + 1
    BY <1>1, <1>5, <1>7, <2>1
  <2>2. CASE n = L
    <3>1. Images[batch[L]] \in Nat
      BY <1>4, PartFacts
    <3>2. images'[n] = images[L] /\ batch' = batch
      BY <1>1, <1>4, <1>5, <2>2
    <3> QED BY <1>6, <2>2, <3>1, <3>2
  <2>3. CASE n # L /\ n # L + 1
    <3>1. n \in 1..L /\ n < L
      BY <1>5, <1>m, <2>3
    <3>2. images'[n] = images[n] /\ batch' = batch
      BY <1>1, <1>5, <3>1
    <3> QED BY <3>1, <3>2 DEF PrepareInv
  <2> QED BY <2>1, <2>2, <2>3
<1>9. FilesCurrent'
  <2> SUFFICES ASSUME NEW k \in DOMAIN images', NEW i \in DOMAIN images'[k]
               PROVE  LET s == ImageParts(batch[k])[i].source
                      IN  /\ images'[k][i][1] = s
                          /\ SourceType[s] = "path" => images'[k][i][2] \in since[s]..content[s]
    BY <1>1 DEF FilesCurrent, ImageParts, IsImage
  <2>1. k \in 1..L + 1 /\ k # L + 1
    BY <1>5
  <2>2. k \in 1..L
    BY <1>4, <1>m, <2>1
  <2>3. DOMAIN images = 1..L
    BY <1>4
  <2>4. k \in DOMAIN images /\ images'[k] = images[k]
    BY <1>5, <2>2, <2>3
  <2> QED BY <2>4 DEF PrepareInv, FilesCurrent
<1> QED BY <1>1, <1>2, <1>3, <1>4, <1>5, <1>8, <1>9 DEF PrepareInv

(* An image that is replaced is newer than before.                         *)
LEMMA EnvironmentKeeps ==
    ASSUME AssetInv, PrepareInv, Environment
    PROVE  AssetInv' /\ PrepareInv'
<1>1. PICK t \in Source : Replace(t) /\ UNCHANGED <<vars, prepareVars, admitted>>
  BY DEF Environment
<1>2. /\ content' = [content EXCEPT ![t] = @ + 1] /\ content[t] < MaxContent
      /\ UNCHANGED <<assets, batch, since, images, missing>>
  BY <1>1 DEF Replace, prepareVars
<1>3. MaxContent \in Nat \ {0} /\ content \in [Source -> Content] /\ since \in [Source -> Content]
  BY AssetAssumption DEF AssetInv
<1>4. \A s \in Source : /\ content'[s] \in Content /\ content[s] \in Content /\ since[s] \in Content
                        /\ content[s] <= content'[s] /\ since[s] <= content[s]
  BY <1>2, <1>3 DEF AssetInv, Content
<1>5. AssetInv'
  <2>1. content' \in [Source -> Content]
    BY <1>2, <1>3, <1>4
  <2>2. \A s \in Source : since'[s] <= content'[s]
    BY <1>2, <1>4 DEF Content
  <2>3. \A s \in Source : 1..content[s] \subseteq 1..content'[s]
    BY <1>4 DEF Content
  <2>4. \A a \in Range(assets') :
          \E s \in Source : \E m \in 1..content'[s] : \E n \in 1..m : a = Asset(s, n, m)
    BY <1>2, <2>3 DEF AssetInv
  <2>5. \A a \in Range(assets') :
          \E s \in Source : \E m \in 1..content'[s] : \E n \in 1..m : a = Asset(s, n, m)'
    BY <2>4 DEF Asset, KeyOf
  <2> QED BY <1>2, <1>3, <2>1, <2>2, <2>5 DEF AssetInv, AssetSet, Content
<1>6. \A s \in Source : since[s]..content[s] \subseteq since'[s]..content'[s]
  BY <1>2, <1>4 DEF Content
<1>7. FilesCurrent'
  <2> SUFFICES ASSUME NEW k \in DOMAIN images, NEW i \in DOMAIN images[k]
               PROVE  LET s == ImageParts(batch[k])[i].source
                      IN  /\ images[k][i][1] = s
                          /\ SourceType[s] = "path" => images[k][i][2] \in since'[s]..content'[s]
    BY <1>2 DEF FilesCurrent, ImageParts, IsImage
  <2> DEFINE s == ImageParts(batch[k])[i].source
  <2>1. images[k][i][1] = s /\ (SourceType[s] = "path" => images[k][i][2] \in since[s]..content[s])
    BY DEF PrepareInv, FilesCurrent
  <2>2. images[k][i] \in ImageSet
    BY DEF PrepareInv
  <2>3. s \in Source
    BY <2>1, <2>2 DEF ImageSet
  <2> HIDE DEF s
  <2>4. images[k][i][1] = s /\ (SourceType[s] = "path" => images[k][i][2] \in since'[s]..content'[s])
    BY <1>6, <2>1, <2>3
  <2> QED BY <2>4 DEF s
<1>8. missing' # << >> =>
        /\ More'
        /\ \E n \in since'[NextImage']..content'[NextImage'] : missing' = KeyOf(NextImage', n)
  <2> SUFFICES ASSUME missing # << >>
               PROVE  /\ More'
                      /\ \E n \in since'[NextImage']..content'[NextImage'] : missing' = KeyOf(NextImage', n)
    BY <1>2
  <2>1. More /\ \E n \in since[NextImage]..content[NextImage] : missing = KeyOf(NextImage, n)
    BY DEF PrepareInv
  <2>2. NextImage \in Source
    BY <2>1, AtHand
  <2>3. NextImage' = NextImage /\ More'
    BY <1>2, <2>1 DEF NextImage, Current, More, ImageParts, IsImage
  <2> QED BY <1>2, <1>6, <2>1, <2>2, <2>3
<1>9. PrepareInv'
  BY <1>2, <1>7, <1>8 DEF PrepareInv
<1> QED BY <1>5, <1>9

LEMMA SubmitKeeps ==
    ASSUME AssetInv, PrepareInv, UNCHANGED <<assetVars, prepareVars>>
    PROVE  AssetInv' /\ PrepareInv'
<1>1. UNCHANGED <<content, assets, batch, since, images, missing>>
  BY DEF assetVars, prepareVars
<1>2. FilesCurrent'
  BY <1>1 DEF FilesCurrent, PrepareInv, ImageParts, IsImage
<1>3. NextImage' = NextImage /\ (More' <=> More)
  BY <1>1 DEF NextImage, Current, More, ImageParts, IsImage
<1>4. AssetInv'
  BY <1>1 DEF AssetInv
<1>5. PrepareInv'
  BY <1>1, <1>2, <1>3 DEF PrepareInv
<1> QED BY <1>4, <1>5

LEMMA PrepareKept ==
    ASSUME QueueInv, AssetInv, PrepareInv, AdmitNext
    PROVE  AssetInv' /\ PrepareInv'
<1>1. CASE \E r \in DOMAIN Key : Submit(r)
  BY <1>1, SubmitKeeps DEF Submit
<1>2. CASE Begin
  BY <1>2, BeginKeeps
<1>3. CASE LookUp
  BY <1>3, LookUpKeeps
<1>4. CASE Load
  BY <1>4, LoadKeeps
<1>5. CASE LoadFails \/ Admit
  BY <1>5, EmptyKeeps
<1>6. CASE NextRequest
  BY <1>6, NextRequestKeeps
<1>7. CASE Environment
  BY <1>7, EnvironmentKeeps
<1> QED BY <1>1, <1>2, <1>3, <1>4, <1>5, <1>6, <1>7 DEF AdmitNext

-----------------------------------------------------------------------------
(* Patches.  An image has at least one, and they name it.                  *)
Pixels == ImageSet \X Nat

LEMMA PatchFacts ==
    ASSUME NEW image \in ImageSet
    PROVE  /\ PatchCount[image] \in Nat \ {0}
           /\ Patches(image) \in Seq(Pixels) /\ Len(Patches(image)) = PatchCount[image]
           /\ Patches(image)[1] = <<image, 1>>
<1>1. Grid[image] \in [t : Nat \ {0}, h : Nat \ {0}, w : Nat \ {0}] /\ image \in DOMAIN Grid
  BY AdmissionAssumption DEF ImageSet, Content
<1> DEFINE t == Grid[image].t
           h == Grid[image].h
           w == Grid[image].w
<1>2. t \in Nat \ {0} /\ h \in Nat \ {0} /\ w \in Nat \ {0}
  BY <1>1
<1>3. PatchCount[image] = t * h * w
  BY <1>1 DEF PatchCount
<1>4. Patches(image) = [ n \in 1..t * h * w |-> <<image, n>> ]
  BY DEF Patches
<1> HIDE DEF t, h, w
<1> DEFINE c == t * h * w
<1>5. c \in Nat \ {0}
  <2>1. \A a, b \in Nat \ {0} : a * b \in Nat \ {0}
    OBVIOUS
  <2>2. t * h \in Nat \ {0}
    BY <1>2, <2>1
  <2> QED BY <1>2, <2>1, <2>2
<1> HIDE DEF c
<1>6. \A n \in 1..c : <<image, n>> \in Pixels
  BY <1>5 DEF Pixels
<1>7. Patches(image) = [ n \in 1..c |-> <<image, n>> ] /\ PatchCount[image] = c
  BY <1>3, <1>4 DEF c
<1> QED BY <1>5, <1>6, <1>7

(* The offset of an image is the number of the patches before it.          *)
LEMMA OffsetFacts ==
    ASSUME NEW seq \in Seq(ImageSet)
    PROVE  /\ Offset(seq, 1) = 0
           /\ \A i \in 1..Len(seq) : /\ Offset(seq, i) \in Nat
                                     /\ Offset(seq, i + 1) = Offset(seq, i) + PatchCount[seq[i]]
<1>1. \A i \in 1..Len(seq) : PatchCount[seq[i]] \in Nat
  BY PatchFacts
<1>2. \A i : Offset(seq, i) = Before(PatchCount, seq, i)
  BY DEF Offset, Before
<1> DEFINE L == Len(seq)
<1>3. L \in Nat
  OBVIOUS
<1>4. /\ Before(PatchCount, seq, 1) = 0
      /\ \A i \in 1..L : /\ Before(PatchCount, seq, i) \in Nat
                        /\ Before(PatchCount, seq, i + 1)
                             = Before(PatchCount, seq, i) + PatchCount[seq[i]]
  <2>1. \A i \in 1..L : PatchCount[seq[i]] \in Nat
    BY <1>1
  <2> HIDE DEF L
  <2> QED BY <1>3, <2>1, TotalSteps
<1> QED BY <1>2, <1>4

(* The processor's patches are put together image by image; cut up again   *)
(* at the offsets, they are each image's own.                              *)
LEMMA OwnPatches ==
    ASSUME NEW seq \in Seq(ImageSet), NEW j \in 1..Len(seq)
    PROVE  SubSeq(PixelValues(seq), Offset(seq, j) + 1, Offset(seq, j) + PatchCount[seq[j]])
             = Patches(seq[j])
<1> DEFINE L == Len(seq)
           c(i) == PatchCount[seq[i]]
           p(i) == Patches(seq[i])
           ss == [ i \in DOMAIN seq |-> p(i) ]
           off == [ i \in 1..L + 1 |-> Offset(seq, i) ]
           all == PixelValues(seq)
<1>1. L \in Nat \ {0} /\ DOMAIN seq = 1..L
  OBVIOUS
<1>2. Offset(seq, 1) = 0 /\ \A i \in 1..L : /\ Offset(seq, i) \in Nat /\ c(i) \in Nat \ {0}
                                    /\ Offset(seq, i + 1) = Offset(seq, i) + c(i)
                                    /\ p(i) \in Seq(Pixels) /\ Len(p(i)) = c(i)
  BY OffsetFacts, PatchFacts
<1> HIDE DEF p, c
<1>3. ss \in Seq(Seq(Pixels)) /\ Len(ss) = L /\ ss # << >> /\ \A i \in 1..L : ss[i] = p(i)
  BY <1>1, <1>2
<1>4. all = SE!FlattenSeq(ss)
  BY DEF PixelValues, p
<1>5. Offsets(off, ss)
  <2>1. \A i \in 1..Len(ss) : PatchCount[seq[i]] = Len(ss[i])
    BY <1>2, <1>3 DEF c
  <2> HIDE DEF ss
  <2>2. Offsets([ i \in 1..Len(ss) + 1 |-> Before(PatchCount, seq, i) ], ss)
    BY <1>3, <2>1, TotalIsOffset
  <2> QED BY <1>3, <2>2 DEF Offset, Before
<1> HIDE DEF all, ss, off
<1>6. JoinOf(all, ss, off, Pixels)
  BY <1>3, <1>4, <1>5, FlattenFacts
<1>7. /\ all \in Seq(Pixels)
      /\ \A k \in 1..c(j) : off[j] + k \in 1..Len(all) /\ all[off[j] + k] = p(j)[k]
  <2>1. all \in Seq(Pixels)
    BY <1>6 DEF JoinOf
  <2>2. \A i \in 1..Len(ss) : \A k \in 1..Len(ss[i]) :
           off[i] + k \in 1..Len(all) /\ all[off[i] + k] = ss[i][k]
    BY <1>6 DEF JoinOf
  <2>3. j \in 1..Len(ss) /\ ss[j] = p(j) /\ Len(ss[j]) = c(j)
    BY <1>2, <1>3
  <2> QED BY <2>1, <2>2, <2>3
<1> DEFINE x == all
           o == off[j]
           m == c(j)
           q == p(j)
<1>8. x \in Seq(Pixels) /\ q \in Seq(Pixels) /\ Len(q) = m /\ o \in Nat /\ m \in Nat \ {0}
  <2>1. j \in 1..L + 1 /\ 1..L + 1 = 1..Len(ss) + 1
    BY <1>1, <1>3
  <2> QED BY <1>2, <1>5, <1>7, <2>1 DEF Offsets
<1>9. \A k \in 1..m : o + k \in 1..Len(x) /\ x[o + k] = q[k]
  BY <1>7
<1>10. PixelValues(seq) = x /\ Offset(seq, j) = o /\ PatchCount[seq[j]] = m /\ Patches(seq[j]) = q
  <2>1. j \in 1..L + 1
    BY <1>1
  <2> QED BY <2>1 DEF all, off, c, p
<1> HIDE DEF x, o, m, q
<1>11. SubSeq(x, o + 1, o + m) = q
  <2> DEFINE cut == SubSeq(x, o + 1, o + m)
  <2>1. o + m <= Len(x)
    BY <1>8, <1>9
  <2>2. /\ cut \in Seq(Pixels) /\ Len(cut) = m
        /\ \A k \in 1..m : cut[k] = x[o + k]
    BY <1>8, <2>1
  <2> HIDE DEF cut
  <2>3. \A k \in 1..m : cut[k] = q[k]
    BY <1>9, <2>2
  <2>4. cut = q
    BY <1>8, <2>2, <2>3, SeqEqual
  <2> QED BY <2>4 DEF cut
<1> QED BY <1>10, <1>11

-----------------------------------------------------------------------------
(* Admission.                                                              *)
LEMMA VisionInputsShow ==
    ASSUME NEW r \in Request, NEW seq \in Seq(ImageSet),
           \A i \in 1..Len(seq) : seq[i][1] = ImageParts(r)[i].source
    PROVE  LET inputs == VisionInputs(r, seq)
           IN  /\ inputs \in Seq(Range(inputs)) /\ DOMAIN inputs = 1..Len(seq)
               /\ \A i \in 1..Len(seq) : Shows(r, i, inputs[i], seq[i])
<1> DEFINE inputs == VisionInputs(r, seq)
           L == Len(seq)
<1>1. L \in Nat /\ DOMAIN seq = 1..L
  OBVIOUS
<1>2. inputs = [ i \in 1..L |-> [key |-> FeatureKey(r, seq, i), grid |-> Grid[seq[i]],
                                 patches |-> SubSeq(PixelValues(seq), Offset(seq, i) + 1,
                                                    Offset(seq, i) + PatchCount[seq[i]])] ]
  BY <1>1 DEF VisionInputs
<1>3. inputs \in Seq(Range(inputs)) /\ DOMAIN inputs = 1..L
  <2> HIDE DEF inputs
  <2>1. DOMAIN inputs = 1..L /\ inputs = [ i \in 1..L |-> inputs[i] ]
    BY <1>2
  <2>2. \A i \in 1..L : inputs[i] \in Range(inputs)
    BY <2>1 DEF Range
  <2> QED BY <1>1, <2>1, <2>2
<1>4. ASSUME NEW i \in 1..L PROVE Shows(r, i, inputs[i], seq[i])
  <2>1. SubSeq(PixelValues(seq), Offset(seq, i) + 1, Offset(seq, i) + PatchCount[seq[i]])
          = Patches(seq[i])
    BY OwnPatches
  <2>2. inputs[i] = [key |-> FeatureKey(r, seq, i), grid |-> Grid[seq[i]],
                     patches |-> Patches(seq[i])]
    <3> HIDE DEF inputs
    <3> QED BY <1>2, <2>1
  <2> HIDE DEF inputs
  <2> DEFINE print == <<seq[i], ImageParts(r)[i].detail>>
  <2>3. FeatureKey(r, seq, i) = IF Family = "qwen3_vl"
                                THEN <<Group(r, seq), print, Grid[seq[i]], i>>
                                ELSE <<print, Grid[seq[i]]>>
    BY DEF FeatureKey, Fingerprint
  <2>4. inputs[i].key = FeatureKey(r, seq, i)
    BY <2>2
  <2> HIDE DEF print
  <2>5. IF Family = "qwen3_vl" THEN \E g : inputs[i].key = <<g, print, Grid[seq[i]], i>>
                               ELSE inputs[i].key = <<print, Grid[seq[i]]>>
    BY <2>3, <2>4
  <2> QED BY <2>2, <2>4, <2>5 DEF Shows, print
<1> QED BY <1>3, <1>4

LEMMA AdmittedAfter ==
    ASSUME \A r \in Request : ShownWhole(r, admitted'[r])
    PROVE  AdmittedInv'
<1>1. ASSUME NEW r \in Request
      PROVE  /\ admitted'[r] \in Seq(Range(admitted'[r]))
             /\ \A i \in DOMAIN admitted'[r] :
                  \E image \in ImageSet : Shows(r, i, admitted'[r][i], image)
  BY DEF ShownWhole
<1> QED BY <1>1 DEF AdmittedInv, ShownWhole, Shows, ImageParts, IsImage, Patches

LEMMA AdmittedKept ==
    ASSUME AssetInv, PrepareInv, AdmittedInv, AdmitNext
    PROVE  AdmittedInv'
<1>1. CASE UNCHANGED admitted
  <2>1. \A r \in Request : ShownWhole(r, admitted'[r])
    BY <1>1 DEF AdmittedInv
  <2> QED BY <2>1, AdmittedAfter
<1>2. CASE Admit
  <2>1. /\ batch # << >> /\ ~ More /\ Len(images) = Len(batch)
        /\ admitted' = [ r \in DOMAIN Key |->
             IF \E i \in DOMAIN batch : batch[i] = r
             THEN VisionInputs(r, images[CHOOSE i \in DOMAIN batch : batch[i] = r])
             ELSE admitted[r] ]
    BY <1>2 DEF Admit
  <2>2. /\ batch \in Seq(Request) /\ images \in Seq(Seq(ImageSet))
        /\ DOMAIN batch = 1..Len(batch) /\ DOMAIN images = 1..Len(batch)
    BY <2>1 DEF PrepareInv
  <2>3. ASSUME NEW r \in Request
        PROVE  ShownWhole(r, admitted'[r])
    <3>1. CASE \E i \in DOMAIN batch : batch[i] = r
      <4> DEFINE n == CHOOSE i \in DOMAIN batch : batch[i] = r
                 seq == images[n]
      <4>1. n \in DOMAIN batch /\ batch[n] = r
        BY <3>1
      <4>2. admitted'[r] = VisionInputs(r, seq)
        BY <2>1, <3>1 DEF Request
      <4> HIDE DEF n
      <4>3. seq \in Seq(ImageSet) /\ n \in DOMAIN images /\ DOMAIN seq = 1..Len(seq)
        BY <2>2, <4>1
      <4>4. \A i \in 1..Len(seq) : seq[i][1] = ImageParts(r)[i].source
        BY <4>1, <4>3 DEF PrepareInv, FilesCurrent
      <4> HIDE DEF seq
      <4> DEFINE inputs == VisionInputs(r, seq)
      <4>5. /\ inputs \in Seq(Range(inputs)) /\ DOMAIN inputs = 1..Len(seq)
            /\ \A i \in 1..Len(seq) : Shows(r, i, inputs[i], seq[i]) /\ seq[i] \in ImageSet
        BY <4>3, <4>4, VisionInputsShow
      <4> HIDE DEF inputs
      <4>6. admitted'[r] = inputs
        BY <4>2 DEF inputs
      <4> QED BY <4>5, <4>6 DEF ShownWhole
    <3>2. CASE ~ \E i \in DOMAIN batch : batch[i] = r
      <4>1. admitted'[r] = admitted[r]
        BY <2>1, <3>2 DEF Request
      <4> QED BY <4>1 DEF AdmittedInv
    <3> QED BY <3>1, <3>2
  <2> QED BY <2>3, AdmittedAfter
<1> QED
  BY <1>1, <1>2
  DEF AdmitNext, Submit, Begin, LookUp, Load, LoadFails, NextRequest, Environment

(* Equal keys stand for the same image, whichever requests they are of.    *)
LEMMA KeysAreEnough ==
    ASSUME AdmittedInv
    PROVE  KeysNamePatches
<1>1. ASSUME NEW r \in DOMAIN Key, NEW i \in DOMAIN admitted[r]
      PROVE  LET patches == admitted[r][i].patches
                 image   == patches[1][1]
             IN  image[1] = ImageParts(r)[i].source /\ patches = Patches(image)
  <2>1. PICK image \in ImageSet : Shows(r, i, admitted[r][i], image)
    BY DEF AdmittedInv, ShownWhole, Request
  <2>2. admitted[r][i].patches = Patches(image) /\ image[1] = ImageParts(r)[i].source
    BY <2>1 DEF Shows
  <2>3. Patches(image)[1] = <<image, 1>>
    BY PatchFacts
  <2>4. Patches(image)[1][1] = image
    BY <2>3
  <2> QED BY <2>2, <2>4
<1>2. ASSUME NEW a \in Inputs, NEW b \in Inputs, a.key = b.key PROVE a = b
  <2>1. ASSUME NEW c \in Inputs
        PROVE  \E image \in ImageSet :
                 /\ c = [key |-> c.key, grid |-> Grid[image], patches |-> Patches(image)]
                 /\ \E detail : LET print == <<image, detail>> IN
                      IF Family = "qwen3_vl" THEN \E g, i : c.key = <<g, print, Grid[image], i>>
                                             ELSE c.key = <<print, Grid[image]>>
    <3>1. PICK r \in Request : c \in Range(admitted[r])
      BY DEF Inputs, Request
    <3>2. PICK i \in DOMAIN admitted[r] : c = admitted[r][i]
      BY <3>1 DEF Range
    <3>3. PICK image \in ImageSet : Shows(r, i, c, image)
      BY <3>2 DEF AdmittedInv, ShownWhole
    <3> QED BY <3>3 DEF Shows
  <2>2. PICK x \in ImageSet :
                 /\ a = [key |-> a.key, grid |-> Grid[x], patches |-> Patches(x)]
                 /\ \E detail : LET print == <<x, detail>> IN
                      IF Family = "qwen3_vl" THEN \E g, i : a.key = <<g, print, Grid[x], i>>
                                             ELSE a.key = <<print, Grid[x]>>
    BY <2>1
  <2>3. PICK y \in ImageSet :
                 /\ b = [key |-> b.key, grid |-> Grid[y], patches |-> Patches(y)]
                 /\ \E detail : LET print == <<y, detail>> IN
                      IF Family = "qwen3_vl" THEN \E g, i : b.key = <<g, print, Grid[y], i>>
                                             ELSE b.key = <<print, Grid[y]>>
    BY <2>1
  <2>4. x = y
    <3> DEFINE k == a.key
    <3>1. k = b.key
      BY <1>2
    <3>2. CASE Family = "qwen3_vl"
      <4>1. k[2][1] = x
        BY <2>2, <3>2
      <4>2. k[2][1] = y
        BY <2>3, <3>1, <3>2
      <4> QED BY <4>1, <4>2
    <3>3. CASE Family # "qwen3_vl"
      <4>1. k[1][1] = x
        BY <2>2, <3>3
      <4>2. k[1][1] = y
        BY <2>3, <3>1, <3>3
      <4> QED BY <4>1, <4>2
    <3> QED BY <3>2, <3>3
  <2> QED BY <1>2, <2>2, <2>3, <2>4
<1> QED BY <1>1, <1>2 DEF KeysNamePatches

-----------------------------------------------------------------------------
LEMMA AdmitStart == AdmitInit => AdmitInv
<1> SUFFICES ASSUME AdmitInit PROVE AdmitInv
  OBVIOUS
<1>1. /\ queue = << >> /\ popped = << >> /\ content = [ s \in Source |-> 1 ] /\ assets = << >>
      /\ batch = << >> /\ since = content /\ images = << >> /\ missing = << >>
      /\ admitted = [ r \in DOMAIN Key |-> << >> ]
  BY DEF AdmitInit, Init, InitAssets
<1>2. QueueInv
  BY <1>1 DEF QueueInv, Injective, BatchesWithinPolicy
<1>3. AssetInv
  <2>1. 1 \in Content /\ \A s \in Source : content[s] = 1
    BY <1>1, AssetAssumption DEF Content
  <2> QED BY <1>1, <2>1 DEF AssetInv, Range
<1>4. PrepareInv
  BY <1>1 DEF PrepareInv, FilesCurrent
<1>5. AdmittedInv
  <2>1. \A r \in Request : admitted[r] = << >>
    BY <1>1 DEF Request
  <2>2. ASSUME NEW r \in Request PROVE ShownWhole(r, << >>)
    <3>1. Len(<< >>) = 0 /\ DOMAIN << >> = {}
      OBVIOUS
    <3>2. << >> \in Seq(Range(<< >>))
      OBVIOUS
    <3> QED BY <3>1, <3>2 DEF ShownWhole
  <2> QED BY <2>1, <2>2 DEF AdmittedInv
<1> QED BY <1>2, <1>3, <1>4, <1>5 DEF AdmitInv

LEMMA AdmitKept == AdmitInv /\ [AdmitNext]_admitVars => AdmitInv'
<1> SUFFICES ASSUME AdmitInv, [AdmitNext]_admitVars PROVE AdmitInv'
  OBVIOUS
<1>1. CASE AdmitNext
  BY <1>1, QueueKept, PrepareKept, AdmittedKept DEF AdmitInv
<1>2. CASE UNCHANGED admitVars
  <2>1. UNCHANGED <<queue, popped, assetVars, prepareVars, admitted>>
    BY <1>2 DEF admitVars, vars
  <2>2. QueueInv'
    BY <2>1 DEF AdmitInv, QueueInv, BatchesWithinPolicy
  <2>3. AssetInv' /\ PrepareInv'
    BY <2>1, SubmitKeeps DEF AdmitInv
  <2>4. AdmittedInv'
    <3>1. \A r \in Request : ShownWhole(r, admitted'[r])
      BY <2>1 DEF AdmitInv, AdmittedInv
    <3> QED BY <3>1, AdmittedAfter
  <2> QED BY <2>2, <2>3, <2>4 DEF AdmitInv
<1> QED BY <1>1, <1>2

(* The inductive invariant of admission.                                   *)
THEOREM AdmissionInvariant == AdmitSpec => []AdmitInv
  BY AdmitStart, AdmitKept, PTL DEF AdmitSpec

(* Every batch can be run at once: it is within each of the limits of the  *)
(* policy, and its requests have the same generation parameters            *)
(* (multimodal/batching.py, pop_batch).                                    *)
THEOREM BatchesAlwaysWithinPolicy == AdmitSpec => []BatchesWithinPolicy
<1>1. AdmitInv => BatchesWithinPolicy
  BY DEF AdmitInv, QueueInv
<1> QED BY <1>1, AdmissionInvariant, PTL

(* An image read from a file is as the file was at some time since the     *)
(* preparation of its batch began (multimodal/manager.py, _load_cached).   *)
THEOREM FilesAlwaysCurrent == AdmitSpec => []FilesCurrent
<1>1. AdmitInv => FilesCurrent
  BY DEF AdmitInv, PrepareInv
<1> QED BY <1>1, AdmissionInvariant, PTL

(* Each placeholder gets the patches of its own image, and inputs whose    *)
(* features are shared by their key have the same patches (materialize in  *)
(* qwen25_vl_processor.py and qwen3_vl_processor.py).                      *)
THEOREM KeysAlwaysNamePatches == AdmitSpec => []KeysNamePatches
<1>1. AdmitInv => KeysNamePatches
  BY KeysAreEnough DEF AdmitInv
<1> QED BY <1>1, AdmissionInvariant, PTL

(* A pop takes the first one waiting and splits the queue in two, both in  *)
(* the order they had (multimodal/batching.py, pop_batch).                 *)
THEOREM PopsAlwaysSplit == AdmitSpec => PopSplitsQueue
<1> DEFINE Step ==
      popped' # popped =>
          LET taken == Range(Last(popped'))
          IN  /\ Last(popped') = Keep(queue, taken)
              /\ queue'        = Keep(queue, Range(queue) \ taken)
              /\ Head(queue) \in taken
<1>1. AdmitInv /\ [AdmitNext]_admitVars => Step
  <2> SUFFICES ASSUME AdmitInv, AdmitNext, popped' # popped PROVE Step
    BY DEF admitVars, vars
  <2>1. PopBatch
    BY DEF AdmitNext, Submit, Add, Begin, LookUp, Load, LoadFails, NextRequest, Admit, Environment, vars
  <2>2. queue # << >> /\ queue' = Rest(queue) /\ popped' = Append(popped, Batch(queue))
    BY <2>1 DEF PopBatch
  <2>3. queue \in Seq(Request) /\ Injective(queue) /\ popped \in Seq(Seq(Request))
    BY DEF AdmitInv, QueueInv
  <2>4. Batch(queue) \in Seq(Request)
    BY <2>2, <2>3, BatchWithin
  <2>5. Last(popped') = Batch(queue)
    BY <2>2, <2>3, <2>4 DEF Last
  <2> QED BY <2>2, <2>3, <2>5, PopSplits
<1>2. AdmitInv /\ [AdmitNext]_admitVars => [Step]_vars
  BY <1>1
<1> QED BY <1>2, AdmissionInvariant, PTL DEF AdmitSpec, PopSplitsQueue
=============================================================================
