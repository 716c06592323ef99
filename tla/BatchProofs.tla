---------------------------- MODULE BatchProofs ----------------------------
(***************************************************************************)
(* What a batch is run with is right, for every configuration: the slots   *)
(* and keys of its rows (PagedAttention), their positions and embeddings   *)
(* (BatchInputs), and the buffers of a captured graph (DecodeGraph).       *)
(*                                                                         *)
(* Attention reads what it should: the rows of a batch are its new tokens, *)
(* their slots are those of the block tables, and what is gathered from    *)
(* them, or taken from the rows, are the keys of each row's prefix.        *)
(*                                                                         *)
(* Positions and features rest on what the processors have recorded of the *)
(* prompt.  Its loop over the images is unrolled once and for all (Laid):  *)
(* text and images follow each other, and the positions so far reach just  *)
(* below the next one.  A request keeps its prompt, generated tokens are   *)
(* text, and only a request with a generated token is decoded.             *)
(***************************************************************************)
EXTENDS DecodeGraph, EngineCoreProofs

-----------------------------------------------------------------------------
(* Attention: what a run stores and reads back.                            *)

(* Tokens 1..length lie in the blocks the PyTorch implementation selects.  *)
LEMMA LengthCovered ==
    ASSUME BlockSize \in Nat \ {0}, NEW length \in Nat
    PROVE  /\ RequiredBlocks(length) \in Nat
           /\ RequiredBlocks(length) * BlockSize \in Nat
           /\ length <= RequiredBlocks(length) * BlockSize
<1> DEFINE n == length + BlockSize - 1
           q == n \div BlockSize
<1>1. n \in Nat /\ q \in Nat /\ n < (q + 1) * BlockSize
  OBVIOUS
<1>2. RequiredBlocks(length) = q
  BY DEF RequiredBlocks
<1>3. (q + 1) * BlockSize = q * BlockSize + BlockSize /\ q * BlockSize \in Nat
  BY <1>1
<1> HIDE DEF q
<1> QED BY <1>1, <1>2, <1>3

(* PyTorch's selection of whole blocks and the kernels' slot of each token *)
(* read the same values back.                                              *)
THEOREM GatherAgrees ==
    ASSUME BlockSize \in Nat \ {0}, NEW cache, NEW blockTable, NEW length \in Nat
    PROVE  SelectedBlocks(cache, blockTable, length) = GatheredTokens(cache, blockTable, length)
<1> DEFINE V(i)   == cache[blockTable[(i - 1) \div BlockSize + 1] * BlockSize
                             + ((i - 1) % BlockSize)]
           M      == RequiredBlocks(length) * BlockSize
           joined == [ i \in 1..M |-> V(i) ]
           All    == { V(i) : i \in 1..M }
<1>1. M \in Nat /\ length <= M
  BY LengthCovered
<1>2. SelectedBlocks(cache, blockTable, length) = SubSeq(joined, 1, length)
  BY DEF SelectedBlocks
<1>3. GatheredTokens(cache, blockTable, length) = [ i \in 1..length |-> V(i) ]
  BY DEF GatheredTokens, SourceSlot
<1> HIDE DEF V, M
<1>4. joined \in Seq(All) /\ Len(joined) = M /\ \A i \in 1..M : joined[i] = V(i)
  BY <1>1
<1> HIDE DEF joined, All
<1>5. SubSeq(joined, 1, length) = [ i \in 1..length |-> joined[i] ]
  BY <1>1, <1>4
<1>6. [ i \in 1..length |-> joined[i] ] = [ i \in 1..length |-> V(i) ]
  BY <1>1, <1>4
<1> QED BY <1>2, <1>3, <1>5, <1>6

(* A table that covers n tokens has the blocks they need.                  *)
LEMMA CeilFits ==
    ASSUME NEW n \in Nat, NEW k \in Nat, n <= k * BlockSize
    PROVE  CeilDiv(n) \in Nat /\ CeilDiv(n) <= k
<1> DEFINE m == n + BlockSize - 1
<1>1. m \in Nat /\ m < (k + 1) * BlockSize
  <2>1. k * BlockSize \in Nat /\ (k + 1) * BlockSize = k * BlockSize + BlockSize
    BY PoolAssumption
  <2> QED BY <2>1, PoolAssumption
<1> DEFINE j == k + 1
<1>2. j \in Nat /\ m < j * BlockSize /\ m \in Nat
  BY <1>1
<1> HIDE DEF m, j
<1>3. m \div BlockSize \in Nat
  BY <1>2, PoolAssumption, DivFacts
<1>4. m \div BlockSize < j
  BY <1>2, PoolAssumption, DivBounds
<1> QED BY <1>3, <1>4 DEF CeilDiv, m, j

(* slot_mapping of a prefilled request: cut out of its blocks piece by     *)
(* piece, it is the slots of its new tokens in order.                      *)
LEMMA SlotsOfFacts ==
    ASSUME IInv, NEW s \in Range(batch)
    PROVE  /\ SlotsOf(s) \in Seq(Int) /\ Len(SlotsOf(s)) = nsched[s]
           /\ \A o \in 1..nsched[s] : SlotsOf(s)[o] = SlotOf(s, Start(s) + o - 1)
<1> DEFINE B == BlockSize
           S == Start(s)
           E == End(s)
           k == Len(table[s])
           first == S \div B
           c == CeilDiv(E)
           P == c - first
           L(j) == IF j = 1 THEN S ELSE IF j = P + 1 THEN E ELSE (first + j - 1) * B
<1>1. /\ S \in Nat /\ E \in Nat /\ S <= E /\ nsched[s] \in Nat /\ E = S + nsched[s]
      /\ k \in Nat /\ E <= k * B /\ \A i \in 1..k : table[s][i] \in Block
  <2>1. s \in SeqId /\ BatchCovered
    BY IInvParts
  <2>2. /\ ncached[s] \in Nat /\ nsched[s] \in Nat /\ NumTokens(s) \in Nat /\ k \in Nat
        /\ table[s] \in Seq(Block)
    BY <2>1, IInvParts
  <2>3. ncached[s] + nsched[s] <= NumTokens(s) /\ NumTokens(s) <= k * B
    BY <2>1 DEF BatchCovered
  <2>4. k * B \in Nat
    BY <2>2, PoolAssumption
  <2>5. \A i \in 1..k : table[s][i] \in Block
    BY <2>2
  <2> HIDE DEF k
  <2> QED BY <2>2, <2>3, <2>4, <2>5 DEF Start, End
<1>2. B \in Nat \ {0, 1}
  BY PoolAssumption
<1> HIDE DEF S, E, k, B
<1>3. /\ first \in Nat /\ first * B <= S /\ S < (first + 1) * B /\ S % B = S - first * B
  <2>1. first \in Nat /\ S % B \in 0..B - 1 /\ S = B * first + (S % B)
    BY <1>1, <1>2, DivFacts
  <2> DEFINE e == S % B
             u == first * B
  <2>2. B * first = u /\ (first + 1) * B = u + B /\ u \in Nat
    BY <1>2, <2>1
  <2>3. e \in 0..B - 1 /\ S = u + e
    BY <2>1, <2>2
  <2> HIDE DEF first, e, u
  <2>4. u <= S /\ S < u + B /\ e = S - u
    BY <1>1, <1>2, <2>2, <2>3
  <2> QED BY <2>1, <2>2, <2>4 DEF e, u
<1>4. /\ c \in Nat /\ E <= c * B /\ (E > 0 => (c - 1) * B < E) /\ first <= c /\ c <= k
  <2>1. c = (E + B - 1) \div B
    BY DEF CeilDiv, B
  <2> HIDE DEF c
  <2>2. c \in Nat /\ E <= c * B /\ (E > 0 => (c - 1) * B < E)
    BY <1>1, <1>2, <2>1, DivFacts
  <2>3. first <= c
    <3>1. S <= c * B
      BY <1>1, <1>2, <2>2
    <3> QED BY <1>1, <1>2, <2>2, <3>1, DivBounds
  <2>4. c <= k
    BY <1>1, CeilFits DEF c, B
  <2> QED BY <2>2, <2>3, <2>4
<1>5. P \in Nat /\ first + P = c /\ (P = 0 => S = E)
  <2>1. P \in Nat /\ first + P = c
    BY <1>3, <1>4
  <2>2. ASSUME P = 0 PROVE S = E
    <3>1. c = first
      BY <1>3, <1>4, <2>2
    <3>2. c * B = first * B /\ first * B \in Nat
      BY <1>2, <1>3, <3>1
    <3> QED BY <1>1, <1>3, <1>4, <3>2
  <2> QED BY <2>1, <2>2
<1> HIDE DEF first, c, P
<1>6. ASSUME NEW j \in 1..P
      PROVE  LET b == first + j - 1 IN
             /\ b \in Nat /\ b * B \in Nat /\ L(j) \in Nat /\ L(j + 1) \in Nat
             /\ b * B <= L(j) /\ L(j) <= L(j + 1) /\ L(j + 1) <= (b + 1) * B
             /\ b + 1 \in 1..k
             /\ SlotStart(s, b) = table[s][b + 1] * B + (L(j) - b * B)
             /\ SlotEnd(s, b) = table[s][b + 1] * B + (L(j + 1) - b * B)
  <2> DEFINE b == first + j - 1
             u == b * B
             v == (b + 1) * B
  <2>1. b \in Nat /\ b + 1 \in 1..k /\ j \in Nat /\ j >= 1 /\ j <= P
    BY <1>1, <1>3, <1>4, <1>5
  <2>2. u \in Nat /\ v \in Nat /\ v = u + B
    BY <1>2, <2>1
  <2>3. (b = first <=> j = 1) /\ (b = c - 1 <=> j = P)
    BY <1>3, <1>4, <1>5, <2>1
  <2>4. (first + (j + 1) - 1) * B = v
    <3>1. first + (j + 1) - 1 = b + 1
      BY <1>3, <2>1
    <3> QED BY <3>1
  <2>5. L(j) = (IF j = 1 THEN S ELSE u)
    BY <1>5, <2>1
  <2>6. L(j + 1) = (IF j = P THEN E ELSE v)
    BY <1>5, <2>1, <2>4
  <2>7. j = 1 => u <= S /\ S < v /\ S % B = S - u
    <3>1. ASSUME j = 1 PROVE u <= S /\ S < v /\ S % B = S - u
      <4>1. b = first
        BY <2>3, <3>1
      <4> QED BY <1>3, <4>1
    <3> QED BY <3>1
  <2>8. j = P => E <= v /\ (E > 0 => u < E)
    <3>1. ASSUME j = P PROVE E <= v /\ (E > 0 => u < E)
      <4>1. b + 1 = c /\ c - 1 = b
        BY <1>4, <2>1, <2>3, <3>1
      <4> QED BY <1>4, <4>1
    <3> QED BY <3>1
  <2>9. j = P /\ j > 1 => E > 0
    <3> SUFFICES ASSUME j = P, j > 1, E = 0 PROVE FALSE
      BY <1>1
    <3>1. S = 0
      BY <1>1
    <3>2. c > 1
      BY <1>3, <1>4, <1>5, <2>1
    <3>3. c = (B - 1) \div B
      BY <1>1, <1>2 DEF c, CeilDiv, B
    <3>4. (B - 1) \div B = 0
      <4>1. B - 1 < 1 * B /\ 0 * B <= B - 1 /\ B - 1 \in Nat
        BY <1>2
      <4> QED BY <1>2, <4>1, DivIs
    <3> QED BY <3>2, <3>3, <3>4
  <2>10. SlotStart(s, b) = table[s][b + 1] * B + (IF j = 1 THEN S % B ELSE 0)
    BY <2>3 DEF SlotStart, B, S, first
  <2>11. SlotEnd(s, b) = table[s][b + 1] * B + (IF j = P THEN E - u ELSE B)
    BY <2>3 DEF SlotEnd, B, E, c
  <2> HIDE DEF b, u, v, L
  <2>12. /\ L(j) \in Nat /\ L(j + 1) \in Nat
         /\ u <= L(j) /\ L(j) <= L(j + 1) /\ L(j + 1) <= v
    BY <1>1, <1>2, <2>1, <2>2, <2>5, <2>6, <2>7, <2>8, <2>9
  <2>13. L(j) - u = (IF j = 1 THEN S % B ELSE 0)
    BY <1>1, <2>2, <2>5, <2>7
  <2>14. L(j + 1) - u = (IF j = P THEN E - u ELSE B)
    BY <1>1, <1>2, <2>2, <2>6
  <2>15. /\ SlotStart(s, b) = table[s][b + 1] * B + (L(j) - u)
         /\ SlotEnd(s, b) = table[s][b + 1] * B + (L(j + 1) - u)
    BY <2>10, <2>11, <2>13, <2>14, Zenon
  <2> QED BY <2>1, <2>2, <2>12, <2>15 DEF b, u, v
<1> DEFINE piece(j) == [ x \in 1..SlotEnd(s, first + j - 1) - SlotStart(s, first + j - 1) |->
                           SlotStart(s, first + j - 1) + x - 1 ]
           ss  == [ j \in 1..P |-> piece(j) ]
           off == [ j \in 1..P + 1 |-> L(j) - S ]
<1>7. L(1) = S /\ L(P + 1) = E
  BY <1>5
<1>8. ASSUME NEW j \in 1..P
      PROVE  LET b == first + j - 1 IN
             /\ piece(j) \in Seq(Int) /\ Len(piece(j)) = L(j + 1) - L(j)
             /\ \A x \in 1..Len(piece(j)) :
                   /\ piece(j)[x] = SlotOf(s, L(j) + x - 1)
                   /\ L(j) + x - 1 \in Nat
  <2> DEFINE b == first + j - 1
             t == table[s][b + 1]
             u == b * B
             a == L(j)
             z == L(j + 1)
  <2>1. /\ b \in Nat /\ u \in Nat /\ a \in Nat /\ z \in Nat /\ u <= a /\ a <= z
        /\ z <= (b + 1) * B /\ b + 1 \in 1..k
        /\ SlotStart(s, b) = t * B + (a - u) /\ SlotEnd(s, b) = t * B + (z - u)
    BY <1>6
  <2>2. t \in Int /\ t * B \in Int
    <3>1. t \in Block
      BY <1>1, <2>1
    <3>2. t \in Int
      BY <3>1, PoolAssumption DEF Block
    <3> HIDE DEF t
    <3> QED BY <1>2, <3>2
  <2> HIDE DEF L, t, u, a, z
  <2>3. SlotEnd(s, b) - SlotStart(s, b) = z - a /\ SlotStart(s, b) \in Int
    BY <2>1, <2>2
  <2>4. piece(j) = [ x \in 1..z - a |-> SlotStart(s, b) + x - 1 ]
    BY <2>3
  <2> HIDE DEF piece
  <2>5. z - a \in Nat
    BY <2>1
  <2>6. /\ piece(j) \in Seq(Int) /\ Len(piece(j)) = z - a
        /\ \A x \in 1..z - a : piece(j)[x] = SlotStart(s, b) + x - 1
    BY <2>3, <2>4, <2>5
  <2>7. ASSUME NEW x \in 1..z - a
        PROVE  SlotStart(s, b) + x - 1 = SlotOf(s, a + x - 1) /\ a + x - 1 \in Nat
    <3> DEFINE p == a + x - 1
    <3>1. (b + 1) * B \in Int /\ b \in Nat
      BY <1>2, <2>1
    <3>2. p \in Nat /\ u <= p /\ p < (b + 1) * B
      BY <2>1, <3>1
    <3> HIDE DEF p
    <3>3. p \div B = b /\ p % B = p - u
      <4> HIDE DEF b
      <4> QED BY <1>2, <2>1, <3>2, DivIs DEF u
    <3>4. SlotOf(s, p) = t * B + (p - u)
      BY <3>3 DEF SlotOf, BlockAt, t, B
    <3>5. p - u = (a - u) + x - 1
      BY <2>1 DEF p
    <3>6. SlotStart(s, b) + x - 1 = t * B + (a - u) + x - 1
      BY <2>1
    <3>7. t * B + (a - u) + x - 1 = t * B + (p - u)
      BY <2>1, <2>2, <3>5
    <3> QED BY <3>2, <3>4, <3>6, <3>7 DEF p
  <2> QED BY <2>6, <2>7 DEF a, z
<1> HIDE DEF piece
<1>9. ss \in Seq(Seq(Int)) /\ Len(ss) = P /\ \A j \in 1..P : ss[j] = piece(j)
  BY <1>5, <1>8
<1>10. Offsets(off, ss)
  <2>1. \A j \in 1..P : L(j) \in Nat /\ L(j + 1) \in Nat
    BY <1>6
  <2>2. \A j \in 1..P + 1 : L(j) \in Nat
    <3> SUFFICES ASSUME NEW j \in 1..P + 1 PROVE L(j) \in Nat
      OBVIOUS
    <3>1. CASE j \in 1..P
      BY <2>1, <3>1
    <3>2. CASE j = P + 1
      BY <1>1, <1>7, <3>2
    <3> QED BY <1>5, <3>1, <3>2
  <2>3. \A j \in 1..P + 1 : S <= L(j)
    <3> SUFFICES ASSUME NEW j \in 1..P + 1 PROVE S <= L(j)
      OBVIOUS
    <3>1. CASE j = 1
      BY <1>1, <1>7, <3>1
    <3>2. CASE j = P + 1
      BY <1>1, <1>7, <3>2
    <3>3. CASE j # 1 /\ j # P + 1
      <4>1. L(j) = (first + j - 1) * B
        BY <3>3
      <4>2. first + 1 <= first + j - 1 /\ first + j - 1 \in Nat
        BY <1>3, <1>5, <3>3
      <4>3. (first + 1) * B <= (first + j - 1) * B /\ (first + 1) * B \in Nat
            /\ (first + j - 1) * B \in Nat
        BY <1>2, <1>3, <4>2
      <4> QED BY <1>1, <1>3, <4>1, <4>3
    <3> QED BY <3>1, <3>2, <3>3
  <2> HIDE DEF L
  <2>4. off \in [1..P + 1 -> Nat]
    <3>1. \A j \in 1..P + 1 : L(j) - S \in Nat
      BY <1>1, <2>2, <2>3
    <3> QED BY <3>1
  <2>5. off[1] = 0
    BY <1>1, <1>5, <1>7
  <2>6. ASSUME NEW j \in 1..P PROVE off[j + 1] = off[j] + Len(ss[j])
    <3>1. off[j] = L(j) - S /\ off[j + 1] = L(j + 1) - S
      BY <1>5
    <3>2. Len(ss[j]) = L(j + 1) - L(j)
      BY <1>8, <1>9
    <3> QED BY <1>1, <2>1, <3>1, <3>2
  <2> HIDE DEF ss, off
  <2> QED BY <1>9, <2>4, <2>5, <2>6 DEF Offsets
<1>11. SlotsOf(s) = SE!FlattenSeq(ss)
  BY DEF SlotsOf, first, P, c, S, E, B, ss, piece
<1>12. JoinOf(SlotsOf(s), ss, off, Int)
  <2> HIDE DEF ss, off
  <2> QED BY <1>9, <1>10, <1>11, FlattenFacts
<1>13. off[P + 1] = nsched[s]
  <2>1. off[P + 1] = L(P + 1) - S
    BY <1>5
  <2> HIDE DEF off, L
  <2> QED BY <1>1, <1>7, <2>1
<1>14. ASSUME NEW o \in 1..nsched[s]
       PROVE  SlotsOf(s)[o] = SlotOf(s, S + o - 1)
  <2>1. PICK j \in 1..P : \E x \in 1..Len(ss[j]) : o = off[j] + x
    <3> HIDE DEF ss, off
    <3> QED BY <1>9, <1>12, <1>13 DEF JoinOf
  <2>2. PICK x \in 1..Len(ss[j]) : o = off[j] + x
    BY <2>1
  <2>3. SlotsOf(s)[o] = ss[j][x]
    <3> HIDE DEF ss, off
    <3> QED BY <1>9, <1>12, <2>2 DEF JoinOf
  <2>4. ss[j][x] = SlotOf(s, L(j) + x - 1)
    BY <1>8, <1>9, <2>2
  <2>5. off[j] = L(j) - S /\ L(j) \in Nat
    <3>1. L(j) \in Nat
      BY <1>6
    <3>2. off[j] = L(j) - S
      BY <1>5
    <3> QED BY <3>1, <3>2
  <2> HIDE DEF L, off
  <2>6. x \in Nat
    <3>1. Len(ss[j]) \in Nat
      BY <1>9
    <3> QED BY <3>1
  <2>7. S + o - 1 = L(j) + x - 1
    BY <1>1, <2>2, <2>5, <2>6
  <2> QED BY <2>3, <2>4, <2>7
<1>15. SlotsOf(s) \in Seq(Int) /\ Len(SlotsOf(s)) = nsched[s]
  <2> HIDE DEF ss, off
  <2> QED BY <1>9, <1>12, <1>13 DEF JoinOf
<1> QED BY <1>14, <1>15 DEF S

(* The rows of a prefill and their slots, request by request.              *)
LEMMA PrefillRowsFacts ==
    ASSUME IInv, phase = "runPrefill"
    PROVE  /\ BatchRows \in Seq(Range(batch) \X Nat) /\ Slots \in Seq(Int)
           /\ RowCount \in Nat /\ Len(BatchRows) = RowCount /\ Len(Slots) = RowCount
           /\ \A i \in 1..Len(batch) :
                /\ RowStart(i) \in Nat /\ RowStart(i + 1) = RowStart(i) + nsched[batch[i]]
                /\ \A o \in 1..nsched[batch[i]] :
                      /\ RowStart(i) + o \in 1..RowCount
                      /\ BatchRows[RowStart(i) + o] = <<batch[i], Start(batch[i]) + o - 1>>
                      /\ Slots[RowStart(i) + o] = SlotOf(batch[i], Start(batch[i]) + o - 1)
           /\ \A r \in 1..RowCount : \E i \in 1..Len(batch) :
                \E o \in 1..nsched[batch[i]] : r = RowStart(i) + o
<1> DEFINE n  == Len(batch)
           T  == Range(batch) \X Nat
           rows(s) == [ o \in 1..nsched[s] |-> <<s, Start(s) + o - 1>> ]
           rs == [ i \in 1..n |-> rows(batch[i]) ]
           ws == [ i \in 1..n |-> SlotsOf(batch[i]) ]
           off == [ i \in 1..n + 1 |-> Before(nsched, batch, i) ]
<1>1. /\ n \in Nat /\ \A i \in 1..n : batch[i] \in Range(batch)
      /\ \A s \in Range(batch) : nsched[s] \in Nat /\ Start(s) \in Nat
  <2>1. batch \in Seq(SeqId) /\ Range(batch) \subseteq SeqId
    BY IInvParts
  <2>2. \A s \in SeqId : nsched[s] \in Nat /\ ncached[s] \in Nat
    BY IInvParts
  <2> QED BY <2>1, <2>2 DEF Range, Start
<1> HIDE DEF n
<1>2. ASSUME NEW s \in Range(batch)
      PROVE  rows(s) \in Seq(T) /\ Len(rows(s)) = nsched[s]
             /\ \A o \in 1..nsched[s] : rows(s)[o] = <<s, Start(s) + o - 1>>
  <2>1. \A o \in 1..nsched[s] : <<s, Start(s) + o - 1>> \in T
    BY <1>1
  <2> QED BY <1>1, <2>1
<1> HIDE DEF rows
<1>3. /\ rs \in Seq(Seq(T)) /\ Len(rs) = n
      /\ \A i \in 1..n : rs[i] = rows(batch[i]) /\ Len(rs[i]) = nsched[batch[i]]
  <2> HIDE DEF T
  <2> QED BY <1>1, <1>2
<1>4. /\ ws \in Seq(Seq(Int)) /\ Len(ws) = n
      /\ \A i \in 1..n : ws[i] = SlotsOf(batch[i]) /\ Len(ws[i]) = nsched[batch[i]]
  <2>1. \A s \in Range(batch) : SlotsOf(s) \in Seq(Int) /\ Len(SlotsOf(s)) = nsched[s]
    BY SlotsOfFacts
  <2> QED BY <1>1, <2>1
<1>5. /\ BatchRows = SE!FlattenSeq(rs)
      /\ Slots = SE!FlattenSeq(ws)
  BY DEF BatchRows, Slots, PrefillSlots, rs, rows, ws, n
<1> HIDE DEF T, rs, ws
<1>6. Offsets(off, rs) /\ Offsets(off, ws)
  <2>1. \A i \in 1..Len(rs) : nsched[batch[i]] = Len(rs[i])
    BY <1>3
  <2>2. \A i \in 1..Len(ws) : nsched[batch[i]] = Len(ws[i])
    BY <1>4
  <2> QED BY <1>3, <1>4, <2>1, <2>2, TotalIsOffset
<1>7. JoinOf(BatchRows, rs, off, T) /\ JoinOf(Slots, ws, off, Int)
  <2> HIDE DEF off
  <2> QED BY <1>3, <1>4, <1>5, <1>6, FlattenFacts
<1>8. \A i \in 1..n + 1 : off[i] = RowStart(i)
  BY DEF Before, RowStart
<1>9. off[n + 1] = RowCount
  BY <1>1, <1>8 DEF RowCount, n
<1> HIDE DEF off
<1>10. /\ off \in [1..n + 1 -> Nat]
       /\ \A i \in 1..n : off[i + 1] = off[i] + nsched[batch[i]]
  BY <1>3, <1>6 DEF Offsets
<1>11. /\ BatchRows \in Seq(T) /\ Slots \in Seq(Int)
       /\ RowCount \in Nat /\ Len(BatchRows) = RowCount /\ Len(Slots) = RowCount
  <2>1. RowCount \in Nat
    BY <1>1, <1>9, <1>10
  <2> QED BY <1>3, <1>4, <1>7, <1>9, <2>1 DEF JoinOf
<1>12. ASSUME NEW i \in 1..n
       PROVE  /\ RowStart(i) \in Nat /\ RowStart(i + 1) = RowStart(i) + nsched[batch[i]]
              /\ \A o \in 1..nsched[batch[i]] :
                    /\ RowStart(i) + o \in 1..RowCount
                    /\ BatchRows[RowStart(i) + o] = <<batch[i], Start(batch[i]) + o - 1>>
                    /\ Slots[RowStart(i) + o] = SlotOf(batch[i], Start(batch[i]) + o - 1)
  <2>1. /\ i \in 1..n + 1 /\ i + 1 \in 1..n + 1
        /\ off[i] = RowStart(i) /\ off[i + 1] = RowStart(i + 1)
    BY <1>1, <1>8
  <2>2. RowStart(i) \in Nat /\ RowStart(i + 1) = RowStart(i) + nsched[batch[i]]
    BY <1>10, <2>1
  <2>3. ASSUME NEW o \in 1..nsched[batch[i]]
        PROVE  /\ off[i] + o \in 1..RowCount
               /\ BatchRows[off[i] + o] = <<batch[i], Start(batch[i]) + o - 1>>
               /\ Slots[off[i] + o] = SlotOf(batch[i], Start(batch[i]) + o - 1)
    <3>1. o \in 1..Len(rs[i]) /\ o \in 1..Len(ws[i]) /\ batch[i] \in Range(batch)
      BY <1>1, <1>3, <1>4
    <3>2. off[i] + o \in 1..Len(BatchRows) /\ BatchRows[off[i] + o] = rs[i][o]
      BY <1>3, <1>7, <3>1 DEF JoinOf
    <3>3. Slots[off[i] + o] = ws[i][o]
      BY <1>4, <1>7, <3>1 DEF JoinOf
    <3>4. rs[i][o] = <<batch[i], Start(batch[i]) + o - 1>>
      BY <1>2, <1>3, <3>1
    <3>5. ws[i][o] = SlotOf(batch[i], Start(batch[i]) + o - 1)
      BY <1>4, <3>1, SlotsOfFacts
    <3> QED BY <1>11, <3>2, <3>3, <3>4, <3>5
  <2> QED BY <2>1, <2>2, <2>3
<1>13. ASSUME NEW r \in 1..RowCount
       PROVE  \E i \in 1..n : \E o \in 1..nsched[batch[i]] : r = RowStart(i) + o
  <2>1. PICK i \in 1..n : \E o \in 1..Len(rs[i]) : r = off[i] + o
    BY <1>3, <1>7, <1>11 DEF JoinOf
  <2>2. Len(rs[i]) = nsched[batch[i]]
    BY <1>3
  <2>3. off[i] = RowStart(i)
    <3>1. i \in 1..n + 1
      BY <1>1
    <3> QED BY <1>8, <3>1
  <2> QED BY <2>1, <2>2, <2>3
<1> QED BY <1>11, <1>12, <1>13 DEF T, n

(* The rows of every batch are its new tokens, each once or more, and a    *)
(* row's slot is the one its token has.                                    *)
LEMMA RowsFacts ==
    ASSUME IInv, CacheInv, phase \in {"runPrefill", "runDecode"}
    PROVE  /\ BatchRows \in Seq(Range(batch) \X Nat) /\ Slots \in Seq(Int)
           /\ Len(Slots) = Len(BatchRows)
           /\ \A r \in 1..Len(BatchRows) :
                /\ BatchRows[r][1] \in Range(batch)
                /\ BatchRows[r][2] \in NewTokens(BatchRows[r][1])
                /\ Slots[r] = SlotOf(BatchRows[r][1], BatchRows[r][2])
           /\ \A s \in Range(batch) : \A q \in NewTokens(s) :
                \E r \in 1..Len(BatchRows) : BatchRows[r] = <<s, q>>
<1>1. /\ Len(batch) \in Nat /\ \A i \in 1..Len(batch) : batch[i] \in Range(batch)
      /\ \A s \in Range(batch) : /\ nsched[s] \in Nat /\ ncached[s] \in Nat
                                 /\ \E i \in 1..Len(batch) : s = batch[i]
  <2>1. batch \in Seq(SeqId) /\ Range(batch) \subseteq SeqId
    BY IInvParts
  <2>2. \A s \in SeqId : nsched[s] \in Nat /\ ncached[s] \in Nat
    BY IInvParts
  <2> QED BY <2>1, <2>2 DEF Range
<1>2. CASE phase = "runPrefill"
  <2>1. ASSUME NEW r \in 1..RowCount
        PROVE  /\ BatchRows[r][1] \in Range(batch)
               /\ BatchRows[r][2] \in NewTokens(BatchRows[r][1])
               /\ Slots[r] = SlotOf(BatchRows[r][1], BatchRows[r][2])
    <3>1. PICK i \in 1..Len(batch) : \E o \in 1..nsched[batch[i]] : r = RowStart(i) + o
      BY <1>2, PrefillRowsFacts
    <3>2. PICK o \in 1..nsched[batch[i]] : r = RowStart(i) + o
      BY <3>1
    <3>3. /\ BatchRows[r] = <<batch[i], Start(batch[i]) + o - 1>>
          /\ Slots[r] = SlotOf(batch[i], Start(batch[i]) + o - 1)
      BY <1>2, <3>2, PrefillRowsFacts
    <3>4. Start(batch[i]) + o - 1 \in NewTokens(batch[i])
      BY <1>1 DEF Start, NewTokens
    <3> QED BY <1>1, <3>3, <3>4
  <2>2. ASSUME NEW s \in Range(batch), NEW q \in NewTokens(s)
        PROVE  \E r \in 1..RowCount : BatchRows[r] = <<s, q>>
    <3>1. PICK i \in 1..Len(batch) : s = batch[i]
      BY <1>1
    <3>2. q - ncached[s] + 1 \in 1..nsched[s] /\ Start(s) + (q - ncached[s] + 1) - 1 = q
      <4>1. nsched[s] \in Nat /\ ncached[s] \in Nat
        BY <1>1
      <4>2. q \in ncached[s]..ncached[s] + nsched[s] - 1
        BY DEF NewTokens
      <4> QED BY <4>1, <4>2 DEF Start
    <3>3. /\ RowStart(i) + (q - ncached[s] + 1) \in 1..RowCount
          /\ BatchRows[RowStart(i) + (q - ncached[s] + 1)] = <<s, q>>
      BY <1>2, <3>1, <3>2, PrefillRowsFacts
    <3> QED BY <3>3
  <2>3. /\ BatchRows \in Seq(Range(batch) \X Nat) /\ Slots \in Seq(Int)
        /\ Len(BatchRows) = RowCount /\ Len(Slots) = RowCount
    BY <1>2, PrefillRowsFacts
  <2> QED BY <2>1, <2>2, <2>3
<1>3. CASE phase = "runDecode"
  <2> DEFINE n == Len(batch)
             last(s) == NumTokens(s) - 1
  <2>1. ASSUME NEW s \in Range(batch)
        PROVE  /\ NewTokens(s) = {last(s)} /\ last(s) \in Nat
               /\ DecodeSlot(s) = SlotOf(s, last(s)) /\ DecodeSlot(s) \in Int
    <3>1. /\ NewTokens(s) = {last(s)}
          /\ Last(table[s]) = BlockAt(s, last(s))
          /\ DecodeOffset(s) = last(s) % BlockSize
      BY <1>3, DecodedToken
    <3>2. last(s) \in NewTokens(s)
      BY <3>1
    <3>3. /\ last(s) \in Nat /\ BlockAt(s, last(s)) \in Block
          /\ last(s) % BlockSize \in 0..BlockSize - 1
      BY <3>2, NewTokenSlot
    <3>4. DecodeSlot(s) = SlotOf(s, last(s))
      BY <3>1 DEF DecodeSlot, SlotOf
    <3>5. SlotOf(s, last(s)) \in Int
      BY <3>3, PoolAssumption DEF SlotOf, Block
    <3> QED BY <3>1, <3>3, <3>4, <3>5
  <2>2. /\ BatchRows = [ i \in 1..n |-> <<batch[i], last(batch[i])>> ]
        /\ Slots = [ i \in 1..n |-> DecodeSlot(batch[i]) ]
    BY <1>3 DEF BatchRows, Slots
  <2> HIDE DEF last, n
  <2>3. \A i \in 1..n : /\ <<batch[i], last(batch[i])>> \in Range(batch) \X Nat
                        /\ DecodeSlot(batch[i]) \in Int
    BY <1>1, <2>1 DEF n
  <2>4. n \in Nat
    BY <1>1 DEF n
  <2>5. /\ BatchRows \in Seq(Range(batch) \X Nat) /\ Len(BatchRows) = n
        /\ Slots \in Seq(Int) /\ Len(Slots) = n
    BY <2>2, <2>3, <2>4
  <2>6. ASSUME NEW r \in 1..n
        PROVE  /\ BatchRows[r][1] \in Range(batch)
               /\ BatchRows[r][2] \in NewTokens(BatchRows[r][1])
               /\ Slots[r] = SlotOf(BatchRows[r][1], BatchRows[r][2])
    <3>1. batch[r] \in Range(batch) /\ BatchRows[r] = <<batch[r], last(batch[r])>>
          /\ Slots[r] = DecodeSlot(batch[r])
      BY <1>1, <2>2 DEF n
    <3> QED BY <2>1, <3>1
  <2>7. ASSUME NEW s \in Range(batch), NEW q \in NewTokens(s)
        PROVE  \E r \in 1..n : BatchRows[r] = <<s, q>>
    <3>1. PICK i \in 1..n : s = batch[i]
      BY <1>1 DEF n
    <3>2. BatchRows[i] = <<s, last(s)>> /\ q = last(s)
      BY <2>1, <2>2, <3>1
    <3> QED BY <3>2
  <2> QED BY <2>5, <2>6, <2>7
<1> QED BY <1>2, <1>3

(* A slot number tells the block and the offset.                           *)
LEMMA SlotPlace ==
    ASSUME NEW b \in Block, NEW o \in 0..BlockSize - 1
    PROVE  /\ b * BlockSize + o \in SlotNumbers
           /\ (b * BlockSize + o) \div BlockSize = b
           /\ (b * BlockSize + o) % BlockSize = o
<1> DEFINE u == b * BlockSize
           v == NumBlocks * BlockSize
<1>1. b \in Nat /\ o \in Nat /\ o < BlockSize /\ b + 1 <= NumBlocks
      /\ BlockSize \in Nat \ {0, 1} /\ NumBlocks \in Nat
  BY PoolAssumption DEF Block
<1>2. u \in Nat /\ v \in Nat /\ (b + 1) * BlockSize = u + BlockSize
      /\ (b + 1) * BlockSize <= v
  BY <1>1
<1> HIDE DEF u, v
<1>3. u + o \in Nat /\ u <= u + o /\ u + o < (b + 1) * BlockSize /\ u + o <= v - 1
  BY <1>1, <1>2
<1>4. (u + o) \div BlockSize = b /\ (u + o) % BlockSize = o
  <2> DEFINE n == u + o
  <2>1. n \in Nat /\ b * BlockSize <= n /\ n < (b + 1) * BlockSize
    BY <1>3 DEF u
  <2> HIDE DEF n
  <2>2. n \div BlockSize = b /\ n % BlockSize = n - b * BlockSize
    BY <1>1, <2>1, DivIs
  <2>3. n - b * BlockSize = o
    BY <1>1, <1>2 DEF n, u
  <2> QED BY <2>2, <2>3 DEF n
<1> QED BY <1>1, <1>2, <1>3, <1>4 DEF SlotNumbers, u, v

LEMMA TokenSlot ==
    ASSUME IInv, NEW s \in SeqId, NEW p \in Nat, p \div BlockSize < Len(table[s])
    PROVE  /\ SlotOf(s, p) \in SlotNumbers
           /\ SlotOf(s, p) \div BlockSize = BlockAt(s, p)
           /\ SlotOf(s, p) % BlockSize = p % BlockSize
  BY TokenInBlock, SlotPlace DEF SlotOf

(* The rows whose slot is that of a token p are the rows of p.             *)
LEMMA RowsOfSlot ==
    ASSUME IInv, CacheInv, phase \in {"runPrefill", "runDecode"},
           NEW s \in SeqId, NEW p \in Nat, p \div BlockSize < Len(table[s]),
           NEW r \in 1..Len(BatchRows), Slots[r] = SlotOf(s, p)
    PROVE  BatchRows[r][1] = s /\ BatchRows[r][2] = p
<1> DEFINE x == BatchRows[r][1]
           q == BatchRows[r][2]
<1>1. x \in Range(batch) /\ q \in NewTokens(x) /\ SlotOf(x, q) = SlotOf(s, p)
  BY RowsFacts
<1> HIDE DEF x, q
<1>2. x \in SeqId /\ q \in Nat /\ q \div BlockSize < Len(table[x])
  BY <1>1, NewTokenSlot
<1>3. BlockAt(s, p) = BlockAt(x, q) /\ p % BlockSize = q % BlockSize
  BY <1>1, <1>2, TokenSlot
<1>4. s = x /\ p = q
  BY <1>1, <1>3, SlotsDistinct
<1> QED BY <1>4 DEF x, q

(* What a store leaves in the slot of a token: the key of its row if the   *)
(* token is new, or else what was there.                                   *)
LEMMA SlotAfterStore ==
    ASSUME IInv, CacheInv, phase \in {"runPrefill", "runDecode"}, NEW backend,
           NEW s \in SeqId, NEW p \in Nat, p \div BlockSize < Len(table[s])
    PROVE  AfterStore(backend)[SlotOf(s, p)] =
             IF s \in Range(batch) /\ p \in NewTokens(s) THEN PrefixOf(s, p)
             ELSE kv[BlockAt(s, p)][p % BlockSize]
<1> DEFINE slot == SlotOf(s, p)
           R == { i \in DOMAIN Slots : Slots[i] = slot /\ ~ Skipped(backend, slot) }
<1>1. /\ slot \in SlotNumbers /\ slot \div BlockSize = BlockAt(s, p)
      /\ slot % BlockSize = p % BlockSize
  BY TokenSlot
<1>2. ~ Skipped(backend, slot)
  <2>1. slot \in Nat
    BY <1>1 DEF SlotNumbers
  <2> HIDE DEF slot
  <2> QED BY <2>1 DEF Skipped
<1>3. AfterStore(backend)[slot] = IF R = {} THEN FlatCache[slot]
                                  ELSE RowKeys[CHOOSE i \in R : TRUE]
  BY <1>1 DEF AfterStore, StoredIn
<1>4. FlatCache[slot] = kv[BlockAt(s, p)][p % BlockSize]
  BY <1>1 DEF FlatCache
<1>5. DOMAIN Slots = 1..Len(BatchRows) /\ DOMAIN BatchRows = 1..Len(BatchRows)
  <2>1. /\ BatchRows \in Seq(Range(batch) \X Nat) /\ Slots \in Seq(Int)
        /\ Len(Slots) = Len(BatchRows)
    BY RowsFacts
  <2> QED BY <2>1
<1>6. \A i \in R : BatchRows[i][1] = s /\ BatchRows[i][2] = p /\ i \in 1..Len(BatchRows)
  BY <1>5, RowsOfSlot
<1>7. CASE s \in Range(batch) /\ p \in NewTokens(s)
  <2>1. R # {}
    <3>1. PICK r \in 1..Len(BatchRows) : BatchRows[r] = <<s, p>>
      BY <1>7, RowsFacts
    <3>2. Slots[r] = slot
      BY <3>1, RowsFacts
    <3> QED BY <1>2, <1>5, <3>1, <3>2
  <2>2. (CHOOSE i \in R : TRUE) \in R
    BY <2>1
  <2>3. PICK i \in R : i = CHOOSE j \in R : TRUE
    BY <2>2
  <2>4. RowKeys[i] = PrefixOf(s, p)
    BY <1>5, <1>6 DEF RowKeys
  <2> QED BY <1>3, <1>7, <2>1, <2>3, <2>4
<1>8. CASE ~ (s \in Range(batch) /\ p \in NewTokens(s))
  <2>1. R = {}
    <3> SUFFICES ASSUME NEW i \in R PROVE FALSE
      OBVIOUS
    <3>1. BatchRows[i][1] \in Range(batch) /\ BatchRows[i][2] \in NewTokens(BatchRows[i][1])
      BY <1>6, RowsFacts
    <3> QED BY <1>6, <1>8, <3>1
  <2> QED BY <1>3, <1>4, <1>8, <2>1
<1> QED BY <1>7, <1>8

(* After the store the cache has every cached token and every new one.     *)
LEMMA StoredPrefixes ==
    ASSUME IInv, CacheInv, phase \in {"runPrefill", "runDecode"}, NEW backend
    PROVE  /\ \A s \in SeqId : \A p \in 0..ncached[s] - 1 :
                AfterStore(backend)[SlotOf(s, p)] = PrefixOf(s, p)
           /\ \A s \in Range(batch) : \A p \in 0..End(s) - 1 :
                /\ AfterStore(backend)[SlotOf(s, p)] = PrefixOf(s, p)
                /\ p \div BlockSize < Len(table[s])
<1>1. ASSUME NEW s \in SeqId, NEW p \in 0..ncached[s] - 1
      PROVE  /\ AfterStore(backend)[SlotOf(s, p)] = PrefixOf(s, p)
             /\ p \div BlockSize < Len(table[s])
  <2>1. Computed(s, ncached[s]) /\ ncached[s] \in Nat
    BY IInvParts DEF CacheInv, Contents
  <2>2. p \div BlockSize < Len(table[s]) /\ Holds(s, p)
    BY <2>1 DEF Computed
  <2>3. p \in Nat /\ p \notin NewTokens(s)
    BY <2>1 DEF NewTokens
  <2>4. AfterStore(backend)[SlotOf(s, p)] = kv[BlockAt(s, p)][p % BlockSize]
    BY <2>2, <2>3, SlotAfterStore
  <2> QED BY <2>2, <2>4 DEF Holds, PrefixOf
<1>2. ASSUME NEW s \in Range(batch), NEW p \in 0..End(s) - 1
      PROVE  /\ AfterStore(backend)[SlotOf(s, p)] = PrefixOf(s, p)
             /\ p \div BlockSize < Len(table[s])
  <2>1. s \in SeqId
    BY IInvParts
  <2>2. ncached[s] \in Nat /\ nsched[s] \in Nat
    BY <2>1, IInvParts
  <2>3. CASE p \in 0..ncached[s] - 1
    BY <1>1, <2>1, <2>3
  <2>4. CASE p \notin 0..ncached[s] - 1
    <3>1. p \in NewTokens(s)
      BY <2>2, <2>4 DEF NewTokens, End
    <3>2. p \in Nat /\ p \div BlockSize < Len(table[s])
      BY <3>1, NewTokenSlot
    <3> QED BY <2>1, <3>1, <3>2, SlotAfterStore
  <2> QED BY <2>3, <2>4
<1> QED BY <1>1, <1>2

LEMMA StoreIsExact ==
    ASSUME IInv, CacheInv, phase \in {"runPrefill", "runDecode"}, NEW backend
    PROVE  StoreExact(AfterStore(backend))
<1>1. /\ DOMAIN BatchRows = 1..Len(BatchRows) /\ DOMAIN Slots = 1..Len(BatchRows)
      /\ Len(BatchRows) \in Nat /\ Len(Slots) = Len(BatchRows)
  <2>1. /\ BatchRows \in Seq(Range(batch) \X Nat) /\ Slots \in Seq(Int)
        /\ Len(Slots) = Len(BatchRows)
    BY RowsFacts
  <2> QED BY <2>1
<1>2. ASSUME NEW r \in 1..Len(BatchRows)
      PROVE  /\ Slots[r] \in SlotNumbers
             /\ AfterStore(backend)[SlotOf(BatchRows[r][1], BatchRows[r][2])]
                   = PrefixOf(BatchRows[r][1], BatchRows[r][2])
  <2> DEFINE x == BatchRows[r][1]
             q == BatchRows[r][2]
  <2>1. x \in Range(batch) /\ q \in NewTokens(x) /\ Slots[r] = SlotOf(x, q)
    BY RowsFacts
  <2> HIDE DEF x, q
  <2>2. x \in SeqId /\ q \in Nat /\ q \div BlockSize < Len(table[x])
    BY <2>1, NewTokenSlot
  <2>3. /\ SlotOf(x, q) \in SlotNumbers
        /\ AfterStore(backend)[SlotOf(x, q)] = PrefixOf(x, q)
    BY <2>1, <2>2, TokenSlot, SlotAfterStore
  <2> QED BY <2>1, <2>3 DEF x, q
<1>3. RowKeys = [ r \in 1..Len(BatchRows) |-> PrefixOf(BatchRows[r][1], BatchRows[r][2]) ]
  BY <1>1 DEF RowKeys
<1>4. Len(RowKeys) = Len(BatchRows)
  BY <1>1, <1>3
<1>5. StoreAccepted(RowKeys, Slots, TRUE)
  BY <1>1, <1>2, <1>4 DEF StoreAccepted
<1>6. \A r \in DOMAIN BatchRows :
         AfterStore(backend)[SlotOf(BatchRows[r][1], BatchRows[r][2])] = RowKeys[r]
  BY <1>1, <1>2, <1>3
<1>7. \A s \in SeqId : Live(s) => \A p \in 0..ncached[s] - 1 :
         AfterStore(backend)[SlotOf(s, p)] = PrefixOf(s, p)
  BY StoredPrefixes
<1> QED BY <1>5, <1>6, <1>7 DEF StoreExact

(* A bounded set of numbers has a largest one.                             *)
LEMMA LargestNatural ==
    ASSUME NEW N \in SUBSET Nat, N # {}, NEW limit \in Nat, \A n \in N : n <= limit
    PROVE  \E n \in N : \A m \in N : n >= m
<1> DEFINE U == { u \in Nat : \A n \in N : n <= u }
<1>1. PICK u \in U : \A w \in U : u <= w
  <2>1. U \in SUBSET Nat /\ limit \in U
    OBVIOUS
  <2> HIDE DEF U
  <2> QED BY <2>1, LeastNatural
<1>2. u \in N
  <2> SUFFICES ASSUME u \notin N PROVE FALSE
    OBVIOUS
  <2>1. PICK n \in N : TRUE
    OBVIOUS
  <2>2. \A m \in N : m \in Nat /\ m <= u /\ m # u
    BY <1>1
  <2>3. u - 1 \in Nat /\ \A m \in N : m <= u - 1
    BY <1>1, <2>1, <2>2
  <2>4. u - 1 \in U
    BY <2>3
  <2> QED BY <1>1, <2>4
<1> QED BY <1>1, <1>2

(* The block tables of a batch, padded to one width, keep every block.     *)
LEMMA PaddedTables ==
    ASSUME IInv, NEW s \in Range(batch)
    PROVE  /\ TableWidth \in Nat /\ TableWidth >= Len(table[s])
           /\ \E r \in Range(batch) : TableWidth = Len(table[r])
           /\ Len(PaddedTable(s)) = TableWidth
           /\ \A b \in 1..Len(table[s]) : PaddedTable(s)[b] = table[s][b]
<1> DEFINE N == { Len(table[r]) : r \in Range(batch) }
<1>1. \A r \in Range(batch) : Len(table[r]) \in Nat /\ Len(table[r]) <= NumBlocks
  <2> SUFFICES ASSUME NEW r \in Range(batch)
               PROVE  Len(table[r]) \in Nat /\ Len(table[r]) <= NumBlocks
    OBVIOUS
  <2>1. r \in SeqId /\ PoolInv
    BY IInvParts
  <2>2. table[r] \in Seq(Block) /\ Injective(table[r]) /\ Len(table[r]) \in Nat
    BY <2>1, IInvParts DEF PoolInv, RefCountsExact
  <2>3. Cardinality(Range(table[r])) = Len(table[r])
    BY <2>2, RangeSize
  <2>4. IsFiniteSet(Block) /\ Cardinality(Block) = NumBlocks
    <3>1. NumBlocks \in Nat \ {0} /\ 0 \in Int /\ NumBlocks - 1 \in Int
      BY PoolAssumption
    <3>2. IsFiniteSet(0..NumBlocks - 1) /\ Cardinality(0..NumBlocks - 1) = NumBlocks
      BY <3>1, FS_Interval
    <3> QED BY <3>2 DEF Block
  <2>5. Range(table[r]) \subseteq Block
    BY <2>2 DEF Range
  <2>6. Cardinality(Range(table[r])) <= Cardinality(Block)
    BY <2>4, <2>5, FS_Subset
  <2> QED BY <2>2, <2>3, <2>4, <2>6
<1>2. \E n \in N : \A m \in N : n >= m
  <2>1. N \in SUBSET Nat /\ N # {} /\ \A n \in N : n <= NumBlocks
    BY <1>1
  <2>2. NumBlocks \in Nat
    BY PoolAssumption
  <2> HIDE DEF N
  <2> QED BY <2>1, <2>2, LargestNatural
<1>3. TableWidth \in N /\ \A m \in N : TableWidth >= m
  <2>1. TableWidth = CHOOSE n \in N : \A m \in N : n >= m
    BY DEF TableWidth, SE!Max
  <2> HIDE DEF N, TableWidth
  <2> QED BY <1>2, <2>1
<1>4. TableWidth \in Nat /\ TableWidth >= Len(table[s])
  BY <1>1, <1>3
<1> HIDE DEF TableWidth
<1>5. Len(PaddedTable(s)) = TableWidth
  BY <1>4 DEF PaddedTable
<1> QED BY <1>1, <1>3, <1>4, <1>5 DEF PaddedTable

(* What is gathered for a request through its padded table are the keys of *)
(* its tokens, with every implementation.                                  *)
LEMMA GatheredPrefixes ==
    ASSUME IInv, CacheInv, phase \in {"runPrefill", "runDecode"}, NEW backend, NEW reader,
           NEW s \in Range(batch), NEW n \in Nat, n <= End(s)
    PROVE  /\ GatheredTokens(AfterStore(backend), PaddedTable(s), n) = Prefixes(s, n)
           /\ Gathered(reader, AfterStore(backend), PaddedTable(s), n) = Prefixes(s, n)
<1> DEFINE stored == AfterStore(backend)
           T == PaddedTable(s)
<1>1. s \in SeqId /\ End(s) \in Int
  <2>1. s \in SeqId
    BY IInvParts
  <2> QED BY <2>1, IInvParts DEF End
<1> HIDE DEF stored, T
<1>2. ASSUME NEW i \in 1..n
      PROVE  stored[SourceSlot(T, i - 1)] = PrefixOf(s, i - 1)
  <2>1. i - 1 \in 0..End(s) - 1 /\ i - 1 \in Nat
    BY <1>1
  <2>2. stored[SlotOf(s, i - 1)] = PrefixOf(s, i - 1) /\ (i - 1) \div BlockSize < Len(table[s])
    BY <2>1, StoredPrefixes DEF stored
  <2>3. (i - 1) \div BlockSize + 1 \in 1..Len(table[s])
    BY <1>1, <2>1, <2>2, TokenInBlock
  <2>4. T[(i - 1) \div BlockSize + 1] = table[s][(i - 1) \div BlockSize + 1]
    BY <2>3, PaddedTables DEF T
  <2>5. SourceSlot(T, i - 1) = SlotOf(s, i - 1)
    BY <2>4 DEF SourceSlot, SlotOf, BlockAt
  <2> QED BY <2>2, <2>5
<1>3. GatheredTokens(stored, T, n) = Prefixes(s, n)
  BY <1>2 DEF GatheredTokens, Prefixes
<1>4. SelectedBlocks(stored, T, n) = GatheredTokens(stored, T, n)
  BY PoolAssumption, GatherAgrees
<1> QED BY <1>3, <1>4 DEF Gathered, stored, T

(* A decode batch attends to all of its requests' tokens.                  *)
LEMMA DecodeIsExact ==
    ASSUME IInv, CacheInv, phase = "runDecode", NEW backend
    PROVE  DecodeAttends(backend, AfterStore(backend))
<1> SUFFICES ASSUME NEW s \in Range(batch)
             PROVE  /\ GatherAccepted(PaddedTable(s), NumTokens(s), TRUE)
                    /\ FlashDecode(AfterStore(backend), s) = Prefixes(s, NumTokens(s))
                    /\ SDPADecode(backend, AfterStore(backend), s) = Prefixes(s, NumTokens(s))
  BY DEF DecodeAttends
<1>1. s \in SeqId /\ BatchCovered
  BY IInvParts
<1>2. NumTokens(s) \in Nat /\ Len(table[s]) \in Nat /\ table[s] \in Seq(Block)
      /\ ncached[s] \in Nat
  BY <1>1, IInvParts
<1>3. NumTokens(s) <= Len(table[s]) * BlockSize
  BY <1>1 DEF BatchCovered
<1>4. End(s) = NumTokens(s)
  <2>1. ncached[s] = NumTokens(s) - 1 /\ nsched[s] = 1
    BY DEF CacheInv, Progress, PrefillPhases, Caught
  <2> QED BY <1>2, <2>1 DEF End
<1>5. GatherAccepted(PaddedTable(s), NumTokens(s), TRUE)
  <2>1. RequiredBlocks(NumTokens(s)) \in Nat /\ RequiredBlocks(NumTokens(s)) <= Len(table[s])
    BY <1>2, <1>3, CeilFits DEF CeilDiv, RequiredBlocks
  <2>2. Len(PaddedTable(s)) >= RequiredBlocks(NumTokens(s))
    BY <1>2, <2>1, PaddedTables
  <2>3. ASSUME NEW b \in 1..RequiredBlocks(NumTokens(s))
        PROVE  PaddedTable(s)[b] \in 0..NumBlocks - 1
    <3>1. b \in 1..Len(table[s])
      BY <1>2, <2>1
    <3>2. PaddedTable(s)[b] = table[s][b] /\ table[s][b] \in Block
      BY <1>2, <3>1, PaddedTables
    <3> QED BY <3>2 DEF Block
  <2> QED BY <1>2, <2>2, <2>3 DEF GatherAccepted
<1>6. /\ GatheredTokens(AfterStore(backend), PaddedTable(s), NumTokens(s))
           = Prefixes(s, NumTokens(s))
      /\ Gathered(backend, AfterStore(backend), PaddedTable(s), NumTokens(s))
           = Prefixes(s, NumTokens(s))
  BY <1>2, <1>4, GatheredPrefixes
<1> QED BY <1>5, <1>6 DEF FlashDecode, SDPADecode

(* A prefill that does not read the cache has nothing cached: then a       *)
(* request's keys are its rows.                                            *)
LEMMA NothingToRead ==
    ASSUME IInv, phase = "runPrefill", ~ UsesCache, NEW i \in 1..Len(batch)
    PROVE  ncached[batch[i]] = 0 /\ KeyStart(i) = RowStart(i)
<1> DEFINE n == Len(batch)
           weight == [ s \in SeqId |-> End(s) ]
           K(j) == KeyStart(j)
           R(j) == RowStart(j)
           c(j) == ncached[batch[j]]
<1>1. /\ n \in Nat /\ \A j \in 1..n : batch[j] \in SeqId
      /\ \A j \in 1..n : c(j) \in Nat /\ nsched[batch[j]] \in Nat
  <2>1. batch \in Seq(SeqId) /\ \A s \in SeqId : nsched[s] \in Nat /\ ncached[s] \in Nat
    BY IInvParts
  <2> QED BY <2>1
<1>2. /\ K(1) = 0
      /\ \A j \in 1..n : K(j) \in Nat /\ K(j + 1) = K(j) + (c(j) + nsched[batch[j]])
  <2>1. \A j \in 1..n : weight[batch[j]] = c(j) + nsched[batch[j]] /\ weight[batch[j]] \in Nat
    BY <1>1 DEF End
  <2> HIDE DEF weight, n
  <2>2. /\ Before(weight, batch, 1) = 0
        /\ \A j \in 1..n : /\ Before(weight, batch, j) \in Nat
                           /\ Before(weight, batch, j + 1)
                                = Before(weight, batch, j) + weight[batch[j]]
    <3>1. \A j \in 1..n : weight[batch[j]] \in Nat
      BY <2>1
    <3> QED BY <1>1, <3>1, TotalSteps
  <2>3. \A j : K(j) = Before(weight, batch, j)
    BY DEF KeyStart, Before, weight
  <2> QED BY <2>1, <2>2, <2>3
<1>3. /\ R(1) = 0
      /\ \A j \in 1..n : R(j) \in Nat /\ R(j + 1) = R(j) + nsched[batch[j]]
  <2> HIDE DEF n
  <2>1. /\ Before(nsched, batch, 1) = 0
        /\ \A j \in 1..n : /\ Before(nsched, batch, j) \in Nat
                           /\ Before(nsched, batch, j + 1)
                                = Before(nsched, batch, j) + nsched[batch[j]]
    BY <1>1, TotalSteps
  <2>2. \A j : R(j) = Before(nsched, batch, j)
    BY DEF RowStart, Before
  <2> QED BY <2>1, <2>2
<1>4. ~ (K(n + 1) > R(n + 1))
  BY DEF UsesCache, RowCount, KeyCount
<1> HIDE DEF K, R, c, n
<1>5. ASSUME NEW j \in 1..n + 1 PROVE K(j) \in Nat /\ R(j) \in Nat
  <2>1. CASE j = 1
    BY <1>2, <1>3, <2>1
  <2>2. CASE j # 1
    <3>1. PICK m \in 1..n : j = m + 1
      <4>1. j - 1 \in 1..n /\ j = (j - 1) + 1
        BY <1>1, <2>2
      <4> QED BY <4>1
    <3>2. c(m) \in Nat /\ nsched[batch[m]] \in Nat
      BY <1>1
    <3>3. K(m) \in Nat /\ R(m) \in Nat
      BY <1>2, <1>3
    <3>4. K(m + 1) = K(m) + (c(m) + nsched[batch[m]]) /\ R(m + 1) = R(m) + nsched[batch[m]]
      BY <1>2, <1>3
    <3> QED BY <3>1, <3>2, <3>3, <3>4
  <2> QED BY <2>1, <2>2
<1>6. ASSUME NEW j \in 1..n
      PROVE  K(j) - R(j) \in Int /\ K(j + 1) - R(j + 1) = K(j) - R(j) + c(j)
  <2>1. c(j) \in Nat /\ nsched[batch[j]] \in Nat /\ K(j) \in Nat /\ R(j) \in Nat
    BY <1>1, <1>2, <1>3
  <2>2. K(j + 1) = K(j) + (c(j) + nsched[batch[j]]) /\ R(j + 1) = R(j) + nsched[batch[j]]
    BY <1>2, <1>3
  <2> QED BY <2>1, <2>2
<1>7. \A j \in 1..n + 1 : K(j) - R(j) \in Nat
  <2> DEFINE Good == { j \in 1..n + 1 : K(j) - R(j) \in Nat }
  <2>1. 1 \in Good
    BY <1>1, <1>2, <1>3
  <2>2. \A j \in 1..n + 1 - 1 : j \in Good => j + 1 \in Good
    BY <1>1, <1>6
  <2> DEFINE m == n + 1
  <2>3. m \in Nat /\ \A j \in 1..m - 1 : j \in Good => j + 1 \in Good
    BY <1>1, <2>2
  <2> HIDE DEF Good, m
  <2>4. 1..m \subseteq Good
    BY <2>1, <2>3, UpToInduction
  <2> QED BY <2>4 DEF Good, m
<1>8. \A j \in 1..n + 1 : K(j) - R(j) = 0
  <2> DEFINE N == { j \in 1..n + 1 : K(j) - R(j) # 0 }
  <2> SUFFICES ASSUME N # {} PROVE FALSE
    OBVIOUS
  <2>1. N \in SUBSET Nat /\ n + 1 \in Nat /\ \A j \in N : j <= n + 1
    BY <1>1
  <2>2. PICK j \in N : \A m \in N : j >= m
    <3> HIDE DEF N
    <3> QED BY <2>1, LargestNatural
  <2>3. j # n + 1
    <3>1. n + 1 \in 1..n + 1
      BY <1>1
    <3>2. K(n + 1) - R(n + 1) = 0
      <4>1. K(n + 1) \in Nat /\ R(n + 1) \in Nat
        BY <1>5, <3>1
      <4>2. K(n + 1) - R(n + 1) \in Nat
        BY <1>7, <3>1
      <4> QED BY <1>4, <4>1, <4>2
    <3> QED BY <3>2
  <2>4. j \in 1..n /\ j + 1 \in 1..n + 1 /\ j + 1 \notin N
    BY <1>1, <2>2, <2>3
  <2>5. K(j + 1) - R(j + 1) = 0 /\ K(j) - R(j) \in Nat
    BY <1>7, <2>4
  <2>6. K(j + 1) - R(j + 1) = K(j) - R(j) + c(j) /\ c(j) \in Nat
    BY <1>1, <1>6, <2>4
  <2>7. K(j) - R(j) = 0
    BY <2>5, <2>6
  <2> QED BY <2>7
<1>9. i \in 1..n + 1 /\ i + 1 \in 1..n + 1 /\ i \in 1..n
  BY <1>1 DEF n
<1>10. K(i) - R(i) = 0 /\ K(i + 1) - R(i + 1) = 0
  BY <1>8, <1>9
<1>11. c(i) = 0 /\ K(i) = R(i)
  BY <1>1, <1>2, <1>3, <1>6, <1>9, <1>10
<1> QED BY <1>11 DEF c, K, R

(* The keys of a prefilled request are those of its tokens, from the cache *)
(* or from the batch.                                                      *)
LEMMA PrefillKeysFacts ==
    ASSUME IInv, phase = "runPrefill", NEW i \in 1..Len(batch)
    PROVE  PrefillKeys(i, Prefixes(batch[i], End(batch[i]))) = Prefixes(batch[i], End(batch[i]))
<1> DEFINE s == batch[i]
<1>1. s \in SeqId /\ ncached[s] \in Nat /\ nsched[s] \in Nat
  <2>1. batch \in Seq(SeqId)
    BY IInvParts
  <2> QED BY <2>1, IInvParts
<1>2. CASE UsesCache
  BY <1>2 DEF PrefillKeys
<1>3. CASE ~ UsesCache
  <2>1. ncached[s] = 0 /\ KeyStart(i) = RowStart(i)
    BY <1>3, NothingToRead
  <2>2. End(s) = nsched[s] /\ Start(s) = 0
    BY <1>1, <2>1 DEF Start, End
  <2>3. ASSUME NEW k \in 1..End(s)
        PROVE  /\ RowStart(i) + k <= RowCount
               /\ RowKeys[RowStart(i) + k] = PrefixOf(s, k - 1)
    <3> DEFINE r == RowStart(i) + k
    <3>1. r \in 1..RowCount /\ BatchRows[r] = <<s, Start(s) + k - 1>>
      BY <2>2, PrefillRowsFacts
    <3>2. BatchRows \in Seq(Range(batch) \X Nat) /\ Len(BatchRows) = RowCount /\ RowCount \in Nat
      BY PrefillRowsFacts
    <3> HIDE DEF r
    <3>3. r \in DOMAIN BatchRows
      BY <3>1, <3>2
    <3>4. Start(s) + k - 1 = k - 1
      BY <1>1, <2>2
    <3>5. RowKeys[r] = PrefixOf(s, k - 1)
      BY <3>1, <3>3, <3>4 DEF RowKeys
    <3> QED BY <3>1, <3>2, <3>5 DEF r
  <2>4. PrefillKeys(i, Prefixes(s, End(s))) = [ k \in 1..End(s) |-> PrefixOf(s, k - 1) ]
    BY <1>3, <2>1, <2>3 DEF PrefillKeys
  <2> QED BY <2>4 DEF Prefixes
<1> QED BY <1>2, <1>3

(* The first m of a request's keys, with or without padding behind them.   *)
LEMMA PrefixesCut ==
    ASSUME NEW s, NEW n \in Nat, NEW m \in 0..n, NEW d \in Nat
    PROVE  /\ Len(Prefixes(s, n)) = n
           /\ SubSeq(Prefixes(s, n), 1, m) = Prefixes(s, m)
           /\ SubSeq(Prefixes(s, n) \o [ k \in 1..d |-> NoKV ], 1, m) = Prefixes(s, m)
           /\ Prefixes(s, n) \o [ k \in 1..0 |-> NoKV ] = Prefixes(s, n)
<1> DEFINE V(q) == PrefixOf(s, q - 1)
           All == { V(q) : q \in 1..n } \cup {NoKV}
           a == Prefixes(s, n)
           z == [ k \in 1..d |-> NoKV ]
<1>1. a = [ q \in 1..n |-> V(q) ] /\ Prefixes(s, m) = [ q \in 1..m |-> V(q) ]
  BY DEF Prefixes
<1>2. \A q \in 1..n : V(q) \in All
  OBVIOUS
<1>3. NoKV \in All
  OBVIOUS
<1> HIDE DEF V, All, a
<1>4. a \in Seq(All) /\ Len(a) = n /\ \A q \in 1..n : a[q] = V(q)
  BY <1>1, <1>2
<1>5. z \in Seq(All) /\ Len(z) = d
  BY <1>3
<1> HIDE DEF z
<1>6. SubSeq(a, 1, m) = [ q \in 1..m |-> V(q) ]
  <2>1. SubSeq(a, 1, m) = [ q \in 1..m |-> a[q] ]
    BY <1>4
  <2> QED BY <1>4, <2>1
<1>7. SubSeq(a \o z, 1, m) = [ q \in 1..m |-> V(q) ]
  <2>1. a \o z \in Seq(All) /\ Len(a \o z) = n + d /\ \A q \in 1..n : (a \o z)[q] = a[q]
    BY ONLY <1>4, <1>5, n \in Nat, d \in Nat
  <2>2. SubSeq(a \o z, 1, m) = [ q \in 1..m |-> (a \o z)[q] ]
    BY <2>1
  <2> QED BY <1>4, <2>1, <2>2
<1>8. [ k \in 1..0 |-> NoKV ] = << >> /\ a \o << >> = a
  BY <1>4
<1> QED BY <1>1, <1>4, <1>6, <1>7, <1>8 DEF a, z

(* A prefill attends to each row's prefix.                                 *)
LEMMA PrefillIsExact ==
    ASSUME IInv, CacheInv, phase = "runPrefill", NEW backend
    PROVE  PrefillAttends(backend, AfterStore(backend))
<1> SUFFICES ASSUME NEW i \in 1..Len(batch)
             PROVE  /\ FlashPrefill(AfterStore(backend), i) = AttendedBy(i)
                    /\ PadAfter(batch[i]) >= 0 =>
                         SDPAPrefill(backend, AfterStore(backend), i) = AttendedBy(i)
  <2>1. \A i \in 1..Len(batch) : batch[i] \in Range(batch)
    BY DEF Range
  <2> QED BY <2>1 DEF PrefillAttends
<1> DEFINE s == batch[i]
           E == End(s)
           S == Start(s)
           q == nsched[s]
           f == nprompt[s]
<1>1. s \in Range(batch) /\ S \in Nat /\ q \in Nat /\ E = S + q /\ f \in Nat
  <2>1. batch \in Seq(SeqId) /\ EngineTypeOK
    BY IInvParts
  <2>2. s \in SeqId /\ s \in Range(batch)
    BY <2>1 DEF Range
  <2> QED BY <2>1, <2>2, IInvParts DEF Start, End, EngineTypeOK
<1> HIDE DEF s
<1>2. /\ GatheredTokens(AfterStore(backend), PaddedTable(s), E) = Prefixes(s, E)
      /\ Gathered(backend, AfterStore(backend), PaddedTable(s), E) = Prefixes(s, E)
  BY <1>1, GatheredPrefixes
<1>3. PrefillKeys(i, Prefixes(s, E)) = Prefixes(s, E)
  BY PrefillKeysFacts DEF s
<1>4. AttendedBy(i) = [ o \in 0..q - 1 |-> Prefixes(s, S + o + 1) ]
  BY DEF AttendedBy, s
<1> HIDE DEF E, S, q, f
<1>5. FlashPrefill(AfterStore(backend), i) = AttendedBy(i)
  <2>1. FlashPrefill(AfterStore(backend), i)
          = [ o \in 0..q - 1 |-> SubSeq(Prefixes(s, E), 1, Len(Prefixes(s, E)) - q + o + 1) ]
    BY <1>2, <1>3 DEF FlashPrefill, s, E, q
  <2>2. ASSUME NEW o \in 0..q - 1
        PROVE  SubSeq(Prefixes(s, E), 1, Len(Prefixes(s, E)) - q + o + 1) = Prefixes(s, S + o + 1)
    <3>1. E \in Nat /\ S + o + 1 \in 0..E /\ E - q + o + 1 = S + o + 1
      BY <1>1
    <3>2. Len(Prefixes(s, E)) = E /\ SubSeq(Prefixes(s, E), 1, S + o + 1) = Prefixes(s, S + o + 1)
      BY <3>1, PrefixesCut
    <3> QED BY <3>1, <3>2
  <2> QED BY <1>4, <2>1, <2>2
<1>6. ASSUME PadAfter(s) >= 0
      PROVE  SDPAPrefill(backend, AfterStore(backend), i) = AttendedBy(i)
  <2> DEFINE pad == [ k \in 1..f - E |-> NoKV ]
             keys == Prefixes(s, E) \o pad
  <2>1. SDPAPrefill(backend, AfterStore(backend), i)
          = [ o \in 0..q - 1 |-> IF f > 1 THEN SubSeq(keys, 1, S + o + 1) ELSE keys ]
    BY <1>2, <1>3 DEF SDPAPrefill, PadBefore, s, E, S, q, f
  <2>2. f - E \in Nat
    <3>1. f - S - q >= 0
      BY <1>6 DEF PadAfter, PadBefore, f, S, q
    <3> QED BY <1>1, <3>1
  <2>3. ASSUME NEW o \in 0..q - 1
        PROVE  (IF f > 1 THEN SubSeq(keys, 1, S + o + 1) ELSE keys) = Prefixes(s, S + o + 1)
    <3>1. E \in Nat /\ S + o + 1 \in 0..E
      BY <1>1
    <3>2. SubSeq(keys, 1, S + o + 1) = Prefixes(s, S + o + 1)
      BY <2>2, <3>1, PrefixesCut
    <3>3. CASE f <= 1
      <4>1. S + o + 1 = E /\ f - E = 0
        BY <1>1, <2>2, <3>3
      <4>2. keys = Prefixes(s, E)
        BY <3>1, <4>1, PrefixesCut
      <4> QED BY <1>1, <3>3, <4>1, <4>2
    <3>4. f > 1 \/ f <= 1
      BY <1>1
    <3> HIDE DEF keys
    <3> QED BY <3>2, <3>3, <3>4
  <2> HIDE DEF keys
  <2> QED BY <1>4, <2>1, <2>3
<1> QED BY <1>5, <1>6 DEF s

(* Whatever is prefilled in chunks, shared, evicted, recomputed and packed *)
(* together, each row of each run stores its key in the slot that its      *)
(* block table names for it and attends to the keys of its own prefix, in  *)
(* every backend, until a request whose run raised is decoded all the      *)
(* same.                                                                   *)
THEOREM RowsAlwaysAttendPrefix == Spec => []RowsAttendPrefix
<1>1. IInv /\ (~ resumed => CacheInv) => RowsAttendPrefix
  BY StoreIsExact, PrefillIsExact, DecodeIsExact DEF RowsAttendPrefix
<1> QED BY <1>1, CacheInvariant, PTL

-----------------------------------------------------------------------------
(* The metadata of a prompt.                                               *)

(* The rounds of the loop over the images of a prompt.  The fold that      *)
(* places them is a function on sets of rounds.                            *)
Nothing == [cursor |-> 0, next |-> 0, positions |-> << >>, spans |-> << >>]
Folds(f, n, ids, images) ==
    f = [ s \in SUBSET (1..n) |->
            IF s = {} THEN Nothing
            ELSE PlaceImage(ids, f[s \ {SE!Max(s)}], images[SE!Max(s)]) ]

(* The fold is defined, round after round.                                 *)
LEMMA FoldsDefined ==
    ASSUME NEW n \in Nat, NEW ids, NEW images
    PROVE  \E f : Folds(f, n, ids, images)
<1> DEFINE S == { i \in 1..n + 1 : \E f : Folds(f, i - 1, ids, images) }
<1>1. 1 \in S
  <2> DEFINE g == [ s \in SUBSET (1..0) |-> Nothing ]
  <2>1. \A s \in SUBSET (1..0) : s = {}
    OBVIOUS
  <2>2. Folds(g, 0, ids, images)
    BY <2>1 DEF Folds
  <2> HIDE DEF g
  <2> QED BY <2>2
<1>2. ASSUME NEW i \in 1..n, i \in S PROVE i + 1 \in S
  <2>1. PICK f : Folds(f, i - 1, ids, images)
    BY <1>2
  <2> DEFINE Top(s) == SE!Max(s)
             g == [ s \in SUBSET (1..i) |->
                      IF i \in s THEN PlaceImage(ids, f[s \ {i}], images[i]) ELSE f[s] ]
  <2>2. \A s \in SUBSET (1..i - 1) : f[s] = IF s = {} THEN Nothing
                                        ELSE PlaceImage(ids, f[s \ {Top(s)}], images[Top(s)])
    <3> HIDE DEF Top
    <3> SUFFICES f = [ s \in SUBSET (1..i - 1) |->
                         IF s = {} THEN Nothing
                         ELSE PlaceImage(ids, f[s \ {Top(s)}], images[Top(s)]) ]
      BY Zenon
    <3> QED BY <2>1 DEF Folds, Top
  <2>3. \A s \in SUBSET (1..i) :
          /\ i \in s => Top(s) = i /\ s \ {i} \in SUBSET (1..i) /\ i \notin s \ {i}
          /\ i \notin s => s \in SUBSET (1..i - 1) /\ s \ {Top(s)} \in SUBSET (1..i)
                           /\ i \notin s \ {Top(s)}
    <3>1. ASSUME NEW s \in SUBSET (1..i), i \in s PROVE Top(s) = i
      <4>1. i \in Nat
        OBVIOUS
      <4> QED BY <3>1, <4>1, LastRound
    <3>2. \A s \in SUBSET (1..i) : i \notin s => s \in SUBSET (1..i - 1)
      OBVIOUS
    <3> HIDE DEF Top
    <3> QED BY <3>1, <3>2
  <2>4. ASSUME NEW s \in SUBSET (1..i)
        PROVE  g[s] = IF s = {} THEN Nothing
                      ELSE PlaceImage(ids, g[s \ {Top(s)}], images[Top(s)])
    <3>1. CASE i \in s
      <4>1. Top(s) = i /\ g[s \ {i}] = f[s \ {i}] /\ s # {}
        BY <2>3, <3>1
      <4> HIDE DEF Top
      <4> QED BY <3>1, <4>1
    <3>2. CASE i \notin s
      <4>1. g[s \ {Top(s)}] = f[s \ {Top(s)}] /\ g[s] = f[s] /\ s \in SUBSET (1..i - 1)
        BY <2>3, <3>2
      <4> HIDE DEF Top, g
      <4> QED BY <2>2, <4>1
    <3> QED BY <3>1, <3>2
  <2>5. Folds(g, i, ids, images)
    <3>1. g = [ s \in SUBSET (1..i) |-> g[s] ]
      OBVIOUS
    <3>2. g = [ s \in SUBSET (1..i) |->
                  IF s = {} THEN Nothing
                  ELSE PlaceImage(ids, g[s \ {Top(s)}], images[Top(s)]) ]
      <4> HIDE DEF g, Top
      <4> QED BY <2>4, <3>1
    <3> HIDE DEF g
    <3> QED BY <3>2 DEF Folds
  <2>6. i + 1 - 1 = i /\ i + 1 \in 1..n + 1
    OBVIOUS
  <2>7. \E h : Folds(h, i + 1 - 1, ids, images)
    <3> HIDE DEF g
    <3> QED BY <2>5, <2>6
  <2> QED BY <2>6, <2>7
<1>3. 1..n + 1 \subseteq S
  <2> DEFINE m == n + 1
  <2>1. \A i \in 1..m - 1 : i \in S => i + 1 \in S
    BY <1>2
  <2>2. m \in Nat
    OBVIOUS
  <2> HIDE DEF m, S
  <2>3. 1..m \subseteq S
    BY <1>1, <2>1, <2>2, UpToInduction
  <2> QED BY <2>3 DEF m
<1>4. n + 1 \in S
  BY <1>3
<1>5. n + 1 - 1 = n
  OBVIOUS
<1> QED BY <1>4, <1>5

(* What the loop has placed, image after image, and the prompt's metadata. *)
Loop(at, ids, images) ==
    /\ at = [ k \in 0..Len(images) |-> at[k] ]
    /\ at[0] = Nothing
    /\ \A k \in 1..Len(images) : at[k] = PlaceImage(ids, at[k - 1], images[k])

LEMMA MetadataLoop ==
    ASSUME NEW ids, NEW X, NEW images \in Seq(X)
    PROVE  \E at : LET placed == at[Len(images)]
                       end    == placed.next + Len(ids) - placed.cursor
                   IN  /\ Loop(at, ids, images)
                       /\ Metadata(ids, images) =
                            [positions |-> placed.positions \o Diagonal(placed.next, end),
                             delta     |-> end - Len(ids),
                             spans     |-> placed.spans]
<1> DEFINE n == Len(images)
           Top(s) == SE!Max(s)
           body(f, s) == IF s = {} THEN Nothing
                         ELSE PlaceImage(ids, f[s \ {Top(s)}], images[Top(s)])
           iter == CHOOSE f : f = [ s \in SUBSET (1..n) |-> body(f, s) ]
           at == [ k \in 0..n |-> iter[1..k] ]
<1>1. n \in Nat /\ DOMAIN images = 1..n
  OBVIOUS
<1>2. iter = [ s \in SUBSET (1..n) |-> body(iter, s) ]
  <2>1. PICK f : Folds(f, n, ids, images)
    BY <1>1, FoldsDefined
  <2>2. f = [ s \in SUBSET (1..n) |-> body(f, s) ]
    BY <2>1 DEF Folds
  <2> HIDE DEF body
  <2> QED BY <2>2
<1>3. \A s \in SUBSET (1..n) : iter[s] = body(iter, s)
  <2> HIDE DEF iter, body
  <2> QED BY <1>2, Zenon
<1>4. SE!FoldLeft(LAMBDA p, g : PlaceImage(ids, p, g), Nothing, images) = iter[1..n]
  BY <1>1 DEF SE!FoldLeft, SE!MapThenFoldSet
<1>5. at[0] = Nothing
  <2>1. 1..0 = {} /\ at[0] = iter[1..0] /\ 1..0 \in SUBSET (1..n)
    <3> HIDE DEF iter
    <3> QED BY <1>1
  <2> HIDE DEF iter
  <2> QED BY <1>3, <2>1
<1>6. ASSUME NEW k \in 1..n PROVE at[k] = PlaceImage(ids, at[k - 1], images[k])
  <2>1. Top(1..k) = k
    BY LastRound
  <2>2. 1..k \in SUBSET (1..n) /\ 1..k # {} /\ (1..k) \ {k} = 1..k - 1
    <3>1. k \in Nat /\ k >= 1 /\ k <= n
      BY <1>1
    <3> HIDE DEF n
    <3>2. k \in 1..k /\ 1..k \subseteq 1..n
      BY <1>1, <3>1
    <3>3. \A x : x \in (1..k) \ {k} <=> x \in 1..k - 1
      BY <3>1
    <3> QED BY <3>2, <3>3
  <2>3. at[k] = iter[1..k] /\ at[k - 1] = iter[1..k - 1]
    <3> HIDE DEF iter
    <3> QED BY <1>1
  <2>4. iter[1..k] = body(iter, 1..k)
    <3> HIDE DEF iter, body
    <3> QED BY <1>3, <2>2
  <2> HIDE DEF iter, at, Top
  <2> QED BY <2>1, <2>2, <2>3, <2>4
<1>7. at[n] = iter[1..n]
  <2> HIDE DEF iter
  <2> QED BY <1>1
<1>8. at = [ k \in 0..n |-> at[k] ]
  <2> HIDE DEF iter
  <2> QED OBVIOUS
<1>9. Metadata(ids, images) =
        LET placed == at[n]
            end    == placed.next + Len(ids) - placed.cursor
        IN  [positions |-> placed.positions \o Diagonal(placed.next, end),
             delta     |-> end - Len(ids),
             spans     |-> placed.spans]
  <2> HIDE DEF iter, at
  <2> QED BY <1>4, <1>7 DEF Metadata, Nothing
<1> HIDE DEF at
<1> QED BY <1>5, <1>6, <1>8, <1>9 DEF Loop

-----------------------------------------------------------------------------
(* An image the builders accept, and its grid of tokens.                   *)
Grid(g) ==
    /\ g.t \in Nat \ {0} /\ g.h \in Nat \ {0} /\ g.w \in Nat \ {0}
    /\ g.h % MergeSize = 0 /\ g.w % MergeSize = 0

LEMMA MergedSide ==
    ASSUME NEW n \in Nat \ {0}, n % MergeSize = 0
    PROVE  n \div MergeSize \in Nat \ {0}
<1>1. MergeSize \in Nat \ {0}
  BY MetadataAssumption
<1>2. n = MergeSize * (n \div MergeSize) + 0 /\ n \div MergeSize \in Nat
  BY <1>1, Quotient
<1> DEFINE q == n \div MergeSize
<1> HIDE DEF q
<1>3. q # 0
  BY <1>1, <1>2 DEF q
<1> QED BY <1>2, <1>3 DEF q

LEMMA GridSize ==
    ASSUME NEW g, Grid(g)
    PROVE  /\ Height(g) \in Nat \ {0} /\ Width(g) \in Nat \ {0}
           /\ Height(g) * Width(g) \in Nat \ {0}
           /\ TokenCount(g) \in Nat \ {0}
           /\ TokenCount(g) = g.t * (Height(g) * Width(g))
<1>1. Height(g) \in Nat \ {0} /\ Width(g) \in Nat \ {0}
  BY MergedSide DEF Grid, Height, Width
<1> DEFINE a == g.t
           b == Height(g)
           c == Width(g)
<1>2. a \in Nat \ {0} /\ b \in Nat \ {0} /\ c \in Nat \ {0}
  BY <1>1 DEF Grid
<1>3. TokenCount(g) = a * b * c
  BY DEF TokenCount
<1> HIDE DEF a, b, c
<1>4. \A x, y \in Nat \ {0} : x * y \in Nat \ {0}
  OBVIOUS
<1>5. b * c \in Nat \ {0} /\ a * (b * c) \in Nat \ {0} /\ a * b * c = a * (b * c)
  BY <1>2, <1>4
<1> QED BY <1>1, <1>3, <1>5 DEF a, b, c

(* An image reaches as far as its longest side.                            *)
LEMMA ExtentFacts ==
    ASSUME NEW g, Grid(g)
    PROVE  /\ Extent(g) \in Nat \ {0} /\ Extent(g) >= Height(g) /\ Extent(g) >= Width(g)
           /\ Family = "qwen3_vl" => Extent(g) >= g.t
           /\ \/ Extent(g) = Height(g) \/ Extent(g) = Width(g)
              \/ Family = "qwen3_vl" /\ Extent(g) = g.t
<1> DEFINE a == g.t
           b == Height(g)
           c == Width(g)
           S == {b, c} \cup (IF Family = "qwen3_vl" THEN {a} ELSE {})
<1>1. a \in Nat \ {0} /\ b \in Nat \ {0} /\ c \in Nat \ {0}
  BY GridSize DEF Grid
<1>2. Extent(g) = CHOOSE x \in S : \A y \in S : x >= y
  BY DEF Extent, SE!Max
<1>3. \E x \in S : \A y \in S : x >= y
  <2> HIDE DEF a, b, c
  <2>1. \E x \in {a, b, c} : \A y \in {a, b, c} : x >= y
    BY <1>1
  <2>2. \E x \in {b, c} : \A y \in {b, c} : x >= y
    BY <1>1
  <2>3. S = {a, b, c} \/ S = {b, c}
    OBVIOUS
  <2> HIDE DEF S
  <2> QED BY <2>1, <2>2, <2>3
<1> DEFINE e == Extent(g)
<1>4. e \in S /\ \A y \in S : e >= y
  <2> HIDE DEF S
  <2> QED BY <1>2, <1>3 DEF e
<1> HIDE DEF a, b, c, e
<1>5. e \in {a, b, c} /\ e >= b /\ e >= c /\ (Family = "qwen3_vl" => e >= a)
      /\ (e = b \/ e = c \/ (Family = "qwen3_vl" /\ e = a))
  BY <1>4
<1> QED BY <1>1, <1>5 DEF a, b, c, e

Triples == Nat \X Nat \X Nat

(* The tokens of an image at v spread over the cube of its extent, and one *)
(* of them reaches its far end.                                            *)
LEMMA GridPlaces ==
    ASSUME NEW g, Grid(g), NEW v \in Nat
    PROVE  LET cube == GridPositions(v, g) IN
           /\ cube \in Seq(Triples) /\ Len(cube) = TokenCount(g)
           /\ \A i \in 1..TokenCount(g) : \A x \in Axes(cube[i]) : x \in v..v + Extent(g) - 1
           /\ \E i \in 1..TokenCount(g) : v + Extent(g) - 1 \in Axes(cube[i])
<1> DEFINE cube == GridPositions(v, g)
           N == TokenCount(g)
           A == Height(g) * Width(g)
           H == Height(g)
           W == Width(g)
           T == g.t
           E == Extent(g)
           f(i) == (i - 1) \div A
           n(i) == (i - 1) % A
           r(i) == n(i) \div W
           c(i) == n(i) % W
<1>1. /\ N \in Nat \ {0} /\ A \in Nat \ {0} /\ H \in Nat \ {0} /\ W \in Nat \ {0}
      /\ T \in Nat \ {0} /\ N = T * A /\ A = H * W
  BY GridSize DEF Grid
<1>2. /\ E \in Nat \ {0} /\ E >= H /\ E >= W /\ (Family = "qwen3_vl" => E >= T)
      /\ E = H \/ E = W \/ (Family = "qwen3_vl" /\ E = T)
  BY ExtentFacts
<1>3. cube = [ i \in 1..N |-> <<v + FrameTime(f(i)), v + r(i), v + c(i)>> ]
  BY DEF GridPositions
<1>4. ASSUME NEW i \in 1..N
      PROVE  f(i) \in 0..T - 1 /\ r(i) \in 0..H - 1 /\ c(i) \in 0..W - 1
  <2> DEFINE k == i - 1
  <2>1. k \in Nat /\ k < T * A
    BY <1>1
  <2> HIDE DEF k, N, A, H, W, T
  <2>2. k \div A \in Nat /\ k \div A < T /\ k % A \in 0..A - 1
    BY <1>1, <2>1, Quotient
  <2> DEFINE m == k % A
  <2>3. m \in Nat /\ m < H * W
    BY <1>1, <2>2
  <2> HIDE DEF m
  <2>4. m \div W \in Nat /\ m \div W < H /\ m % W \in 0..W - 1
    BY <1>1, <2>3, Quotient
  <2> QED BY <1>1, <2>2, <2>4 DEF k, m
<1>5. \A i \in 1..N : FrameTime(f(i)) \in 0..E - 1
  <2> HIDE DEF f, N, A, T, E
  <2>1. CASE Family = "qwen3_vl"
    BY <1>1, <1>2, <1>4, <2>1 DEF FrameTime
  <2>2. CASE Family # "qwen3_vl"
    BY <1>2, <2>2 DEF FrameTime
  <2> QED BY <2>1, <2>2
<1> HIDE DEF cube, f, r, c, N, A, H, W, T, E
<1>6. \A i \in 1..N : cube[i] = <<v + FrameTime(f(i)), v + r(i), v + c(i)>>
  BY <1>3
<1>7. ASSUME NEW i \in 1..N
      PROVE  cube[i] \in Triples /\ \A x \in Axes(cube[i]) : x \in v..v + E - 1
  <2>1. FrameTime(f(i)) \in 0..E - 1 /\ r(i) \in 0..E - 1 /\ c(i) \in 0..E - 1
    BY <1>1, <1>2, <1>4, <1>5
  <2> DEFINE x == FrameTime(f(i))
             y == r(i)
             z == c(i)
  <2> HIDE DEF x, y, z
  <2>2. v + x \in v..v + E - 1 /\ v + y \in v..v + E - 1 /\ v + z \in v..v + E - 1
    BY <1>2, <2>1 DEF x, y, z
  <2>3. cube[i] = <<v + x, v + y, v + z>>
    BY <1>6 DEF x, y, z
  <2> QED BY <2>2, <2>3 DEF Triples, Axes
<1>8. cube \in Seq(Triples) /\ Len(cube) = N
  BY <1>1, <1>3, <1>7
<1>9. \E i \in 1..N : v + E - 1 \in Axes(cube[i])
  <2>1. \A i \in 1..N : f(i) = (i - 1) \div A /\ r(i) = ((i - 1) % A) \div W
                         /\ c(i) = ((i - 1) % A) % W
    BY DEF f, r, c
  <2>2. CASE E = H
    <3> DEFINE j == (H - 1) * W
    <3>1. j \in Nat /\ j + W = H * W /\ j = (H - 1) * W
      BY <1>1
    <3>2. A <= T * A
      BY <1>1
    <3> HIDE DEF j
    <3>3. j < A /\ j + 1 \in 1..N /\ j + 1 - 1 = j
      BY <1>1, <3>1, <3>2
    <3>4. j % A = j
      BY <1>1, <3>1, <3>3
    <3>5. j \div W = H - 1
      <4>1. H - 1 \in Nat /\ (H - 1) * W <= j /\ j < (H - 1 + 1) * W
        BY <1>1, <3>1
      <4> QED BY <1>1, <3>1, <4>1, Quotient
    <3>6. PICK i \in 1..N : i - 1 = j
      BY <3>1, <3>3
    <3>7. r(i) = H - 1
      BY <2>1, <3>4, <3>5, <3>6
    <3>8. v + r(i) = v + E - 1
      BY <1>1, <2>2, <3>7
    <3> QED BY <1>6, <3>8 DEF Axes
  <2>3. CASE E = W
    <3>1. W - 1 \in Nat /\ W - 1 < A /\ W \in 1..N
      <4>1. W <= H * W /\ A <= T * A
        BY <1>1
      <4> QED BY <1>1, <4>1
    <3>2. (W - 1) % A = W - 1 /\ (W - 1) % W = W - 1
      BY <1>1, <3>1
    <3>3. c(W) = W - 1
      BY <2>1, <3>1, <3>2
    <3>4. v + c(W) = v + E - 1
      BY <1>1, <2>3, <3>3
    <3> QED BY <1>6, <3>1, <3>4 DEF Axes
  <2>4. CASE Family = "qwen3_vl" /\ E = T
    <3> DEFINE j == (T - 1) * A
    <3>1. j \in Nat /\ j + A = T * A /\ T - 1 \in Nat /\ (T - 1) * A <= j /\ j < (T - 1 + 1) * A
      BY <1>1
    <3> HIDE DEF j
    <3>2. j \div A = T - 1
      <4>1. A \in Nat \ {0}
        BY <1>1
      <4>2. \A q \in Nat : q * A <= j /\ j < (q + 1) * A => j \div A = q
        BY <3>1, <4>1, Quotient
      <4> QED BY <3>1, <4>2
    <3>3. j + 1 \in 1..N /\ j + 1 - 1 = j
      BY <1>1, <3>1
    <3>4. PICK i \in 1..N : i - 1 = j
      BY <3>1, <3>3
    <3>5. FrameTime(f(i)) = T - 1
      BY <2>1, <2>4, <3>2, <3>4 DEF FrameTime
    <3>6. v + FrameTime(f(i)) = v + E - 1
      BY <1>1, <2>4, <3>5
    <3> QED BY <1>6, <3>6 DEF Axes
  <2> QED BY <1>2, <2>2, <2>3, <2>4
<1> QED BY <1>7, <1>8, <1>9 DEF cube, N, E

(* Text advances on all axes together.                                     *)
LEMMA DiagonalFacts ==
    ASSUME NEW a \in Nat, NEW b \in Nat, a <= b
    PROVE  /\ Diagonal(a, b) \in Seq(Triples) /\ Len(Diagonal(a, b)) = b - a
           /\ \A i \in 1..b - a : Diagonal(a, b)[i] = <<a + i - 1, a + i - 1, a + i - 1>>
  BY DEF Diagonal, Triples

-----------------------------------------------------------------------------
(* The first n positions stay below v, and one of them is just below it.   *)
Reaches(pos, n, v) ==
    /\ v \in Nat
    /\ \A i \in 1..n : \A x \in Axes(pos[i]) : x \in Nat /\ x < v
    /\ v = 0 \/ \E i \in 1..n : v - 1 \in Axes(pos[i])

LEMMA ReachesSame ==
    ASSUME NEW a, NEW b, NEW n \in Nat, NEW v, Reaches(a, n, v), \A i \in 1..n : b[i] = a[i]
    PROVE  Reaches(b, n, v)
  BY DEF Reaches

LEMMA ReachesText ==
    ASSUME NEW pos, NEW c \in Nat, NEW v, Reaches(pos, c, v), NEW n \in Nat,
           \A i \in 1..n : pos[c + i] = <<v + i - 1, v + i - 1, v + i - 1>>
    PROVE  Reaches(pos, c + n, v + n)
<1>1. v \in Nat
  BY DEF Reaches
<1>2. ASSUME NEW j \in 1..c + n, NEW x \in Axes(pos[j]) PROVE x \in Nat /\ x < v + n
  <2>1. CASE j <= c
    <3>1. x \in Nat /\ x < v
      BY <1>2, <2>1 DEF Reaches
    <3> QED BY <1>1, <3>1
  <2>2. CASE j > c
    <3>1. PICK i \in 1..n : j = c + i
      <4>1. j - c \in 1..n /\ j = c + (j - c)
        BY <2>2
      <4> QED BY <4>1
    <3>2. x = v + i - 1
      BY <1>2, <3>1 DEF Axes
    <3> QED BY <1>1, <3>2
  <2> QED BY <2>1, <2>2
<1>3. v + n = 0 \/ \E i \in 1..c + n : v + n - 1 \in Axes(pos[i])
  <2>1. CASE n = 0
    BY <1>1, <2>1 DEF Reaches
  <2>2. CASE n # 0
    <3>1. n \in 1..n /\ c + n \in 1..c + n
      BY <2>2
    <3>2. v + n - 1 \in Axes(pos[c + n])
      BY <3>1 DEF Axes
    <3> QED BY <3>1, <3>2
  <2> QED BY <2>1, <2>2
<1> QED BY <1>1, <1>2, <1>3 DEF Reaches

LEMMA ReachesImage ==
    ASSUME NEW pos, NEW c \in Nat, NEW v, Reaches(pos, c, v), NEW g, Grid(g),
           \A i \in 1..TokenCount(g) : pos[c + i] = GridPositions(v, g)[i]
    PROVE  Reaches(pos, c + TokenCount(g), v + Extent(g))
<1> DEFINE N == TokenCount(g)
           E == Extent(g)
           cube == GridPositions(v, g)
<1>1. v \in Nat
  BY DEF Reaches
<1>2. N \in Nat \ {0} /\ E \in Nat \ {0}
  BY GridSize, ExtentFacts
<1>3. /\ \A i \in 1..N : \A x \in Axes(cube[i]) : x \in v..v + E - 1
      /\ \E i \in 1..N : v + E - 1 \in Axes(cube[i])
  BY <1>1, GridPlaces
<1>4. \A i \in 1..N : pos[c + i] = cube[i]
  OBVIOUS
<1> HIDE DEF N, E, cube
<1>5. ASSUME NEW j \in 1..c + N, NEW x \in Axes(pos[j]) PROVE x \in Nat /\ x < v + E
  <2>1. CASE j <= c
    <3>1. x \in Nat /\ x < v
      BY <1>2, <1>5, <2>1 DEF Reaches
    <3> QED BY <1>1, <1>2, <3>1
  <2>2. CASE j > c
    <3>1. PICK i \in 1..N : j = c + i
      <4>1. j - c \in 1..N /\ j = c + (j - c)
        BY <1>2, <2>2
      <4> QED BY <4>1
    <3>2. x \in v..v + E - 1
      BY <1>3, <1>4, <1>5, <3>1
    <3> QED BY <1>1, <1>2, <3>2
  <2> QED BY <1>2, <2>1, <2>2
<1>6. \E j \in 1..c + N : v + E - 1 \in Axes(pos[j])
  <2>1. PICK i \in 1..N : v + E - 1 \in Axes(cube[i])
    BY <1>3
  <2>2. c + i \in 1..c + N /\ pos[c + i] = cube[i]
    BY <1>2, <1>4
  <2> QED BY <2>1, <2>2
<1> QED BY <1>1, <1>2, <1>5, <1>6 DEF Reaches, N, E

(* Where positions have been placed up to n, the next text is at v.        *)
LEMMA ReachedAfter ==
    ASSUME NEW pos, NEW n \in Nat, NEW v, Reaches(pos, n, v),
           NEW F, \A q \in 0..n - 1 : F[q] = pos[q + 1]
    PROVE  After(F, n) = v
<1> DEFINE S == {-1} \cup UNION { Axes(F[q]) : q \in 0..n - 1 }
<1>1. v \in Nat
  BY DEF Reaches
<1>2. \A x \in S : x \in Int /\ x <= v - 1
  <2> SUFFICES ASSUME NEW q \in 0..n - 1, NEW x \in Axes(F[q]) PROVE x \in Int /\ x <= v - 1
    BY <1>1
  <2>1. q + 1 \in 1..n /\ F[q] = pos[q + 1]
    OBVIOUS
  <2> QED BY <1>1, <2>1 DEF Reaches
<1>3. v - 1 \in S
  <2>1. CASE v = 0
    BY <2>1
  <2>2. CASE v # 0
    <3>1. PICK i \in 1..n : v - 1 \in Axes(pos[i])
      BY <2>2 DEF Reaches
    <3>2. i - 1 \in 0..n - 1 /\ i - 1 + 1 = i
      OBVIOUS
    <3>3. F[i - 1] = pos[i]
      BY <3>2
    <3> QED BY <3>1, <3>2, <3>3
  <2> QED BY <2>1, <2>2
<1> HIDE DEF S
<1>4. \A x \in S : (\A y \in S : x >= y) => x = v - 1
  BY <1>1, <1>2, <1>3
<1>5. \A y \in S : v - 1 >= y
  BY <1>1, <1>2
<1>6. SE!Max(S) = v - 1
  BY <1>3, <1>4, <1>5 DEF SE!Max
<1> QED BY <1>1, <1>6 DEF After, S

-----------------------------------------------------------------------------
(* The placeholder an accepted image finds is the first.                   *)
FirstImage(ids, c, start) ==
    /\ start \in c..Len(ids) - 1 /\ ids[start + 1] = ImageTokenId
    /\ \A j \in c..start - 1 : ids[j + 1] # ImageTokenId

LEMMA NextImageFacts ==
    ASSUME NEW ids, Len(ids) \in Nat, NEW c \in Nat,
           NEW i \in c..Len(ids) - 1, ids[i + 1] = ImageTokenId
    PROVE  FirstImage(ids, c, NextImage(ids, c))
<1> DEFINE N == { j \in c..Len(ids) - 1 : ids[j + 1] = ImageTokenId }
<1>1. N \in SUBSET Nat /\ i \in N
  OBVIOUS
<1>2. PICK s \in N : \A m \in N : s <= m
  <2> HIDE DEF N
  <2> QED BY <1>1, LeastNatural
<1>3. \A j \in c..s - 1 : ids[j + 1] # ImageTokenId
  <2> SUFFICES ASSUME NEW j \in c..s - 1, ids[j + 1] = ImageTokenId PROVE FALSE
    OBVIOUS
  <2>1. j \in N
    BY <1>2
  <2> QED BY <1>1, <1>2, <2>1
<1>4. s \in c..Len(ids) - 1 /\ ids[s + 1] = ImageTokenId
  BY <1>2
<1> HIDE DEF N
<1> QED BY <1>3, <1>4 DEF FirstImage, NextImage

(* Two sequences in a row.                                                 *)
InARow(x, a, b, m, n) ==
    /\ Len(x) = m + n
    /\ \A i \in 1..m : x[i] = a[i]
    /\ \A i \in 1..n : x[m + i] = b[i]

LEMMA JoinTwo ==
    ASSUME NEW T, NEW a \in Seq(T), NEW b \in Seq(T)
    PROVE  a \o b \in Seq(T) /\ InARow(a \o b, a, b, Len(a), Len(b))
<1> DEFINE m == Len(a)
           n == Len(b)
<1>1. m \in Nat /\ n \in Nat
  OBVIOUS
<1>2. \A i \in 1..n : m + i \in 1..m + n /\ m + i > m /\ m + i - m = i
  BY <1>1
<1> QED BY <1>1, <1>2 DEF InARow

(* One round of the loop.                                                  *)
PlacedOK(ids, x) ==
    /\ x.cursor \in 0..Len(ids) /\ x.next \in Nat
    /\ x.positions \in Seq(Triples) /\ Len(x.positions) = x.cursor
    /\ Reaches(x.positions, x.cursor, x.next)

Rounds(ids, x, g, y, start) ==
    LET v == x.next + start - x.cursor
    IN  /\ start \in x.cursor..Len(ids) - TokenCount(g)
        /\ y.cursor = start + TokenCount(g) /\ y.next = v + Extent(g)
        /\ v \in Nat /\ Reaches(y.positions, start, v)
        /\ \A i \in 1..x.cursor : y.positions[i] = x.positions[i]
        /\ \A i \in 0..start - x.cursor - 1 :
              /\ y.positions[x.cursor + i + 1] = <<x.next + i, x.next + i, x.next + i>>
              /\ Reaches(y.positions, x.cursor + i, x.next + i)
        /\ \A i \in 1..TokenCount(g) : y.positions[start + i] = GridPositions(v, g)[i]

LEMMA PlaceFacts ==
    ASSUME NEW ids, Len(ids) \in Nat, NEW x, PlacedOK(ids, x), NEW g, Grid(g),
           NextImage(ids, x.cursor) \in x.cursor..Len(ids) - TokenCount(g)
    PROVE  /\ PlacedOK(ids, PlaceImage(ids, x, g))
           /\ Rounds(ids, x, g, PlaceImage(ids, x, g), NextImage(ids, x.cursor))
<1> DEFINE y == PlaceImage(ids, x, g)
           start == NextImage(ids, x.cursor)
           c == x.cursor
           n == x.next
           L == Len(ids)
           N == TokenCount(g)
           v == n + start - c
           a == x.positions
           d == Diagonal(n, v)
           cube == GridPositions(v, g)
           pos == y.positions
<1>1. N \in Nat \ {0} /\ Extent(g) \in Nat \ {0}
  BY GridSize, ExtentFacts
<1>2. L \in Nat /\ c \in 0..L /\ n \in Nat /\ a \in Seq(Triples) /\ Len(a) = c /\ Reaches(a, c, n)
  BY DEF PlacedOK
<1>3. start \in c..L - N
  OBVIOUS
<1>4. /\ y.cursor = start + N /\ y.next = v + Extent(g) /\ pos = a \o d \o cube
  BY DEF PlaceImage
<1>0. v = n + start - c
  OBVIOUS
<1> HIDE DEF y, start, c, n, L, N, v, a, d, cube, pos
<1>5. start \in Nat /\ v \in Nat /\ n <= v /\ v - n = start - c /\ start + N \in 0..L
  BY <1>0, <1>1, <1>2, <1>3
<1>6. /\ d \in Seq(Triples) /\ Len(d) = start - c
      /\ \A i \in 1..start - c : d[i] = <<n + i - 1, n + i - 1, n + i - 1>>
  <2>1. d = Diagonal(n, v)
    BY DEF d
  <2>2. /\ Diagonal(n, v) \in Seq(Triples) /\ Len(Diagonal(n, v)) = v - n
        /\ \A i \in 1..v - n : Diagonal(n, v)[i] = <<n + i - 1, n + i - 1, n + i - 1>>
    BY <1>2, <1>5, DiagonalFacts
  <2>3. v - n = start - c
    BY <1>5
  <2> HIDE DEF d
  <2> QED BY <2>1, <2>2, <2>3, Zenon
<1>7. cube \in Seq(Triples) /\ Len(cube) = N
  BY <1>5, GridPlaces DEF cube, N
<1>8. PICK b \in Seq(Triples) : b = a \o d /\ InARow(b, a, d, c, start - c)
  <2>1. a \o d \in Seq(Triples) /\ InARow(a \o d, a, d, Len(a), Len(d))
    BY <1>2, <1>6, JoinTwo
  <2> QED BY <1>2, <1>6, <2>1
<1>9. /\ pos \in Seq(Triples) /\ Len(pos) = start + N
      /\ \A i \in 1..c : pos[i] = a[i]
      /\ \A i \in 1..start - c : pos[c + i] = d[i]
      /\ \A i \in 1..N : pos[start + i] = cube[i]
  <2>1. Len(b) = start
    <3>1. c + (start - c) = start
      BY <1>2, <1>5
    <3> QED BY <1>8, <3>1 DEF InARow
  <2>2. pos = b \o cube
    BY <1>4, <1>8
  <2>3. pos \in Seq(Triples) /\ InARow(pos, b, cube, start, N)
    <3>1. b \o cube \in Seq(Triples) /\ InARow(b \o cube, b, cube, Len(b), Len(cube))
      BY <1>7, JoinTwo
    <3> QED BY <1>7, <2>1, <2>2, <3>1
  <2>4. (\A i \in 1..c : i \in 1..start) /\ \A i \in 1..start - c : c + i \in 1..start
    BY <1>2, <1>3, <1>5
  <2> QED BY <1>8, <2>3, <2>4 DEF InARow
<1>10. \A i \in 1..start - c : pos[c + i] = <<n + i - 1, n + i - 1, n + i - 1>>
  BY <1>6, <1>9
<1>11. Reaches(pos, c, n)
  <2>1. c \in Nat
    BY <1>2
  <2> QED BY <1>2, <1>9, <2>1, ReachesSame
<1>12. ASSUME NEW i \in 0..start - c
       PROVE  Reaches(pos, c + i, n + i)
  <2>1. \A j \in 1..i : pos[c + j] = <<n + j - 1, n + j - 1, n + j - 1>>
    <3> SUFFICES ASSUME NEW j \in 1..i PROVE j \in 1..start - c
      BY <1>10
    <3> QED BY <1>2, <1>5
  <2>2. i \in Nat /\ c \in Nat
    BY <1>2
  <2> QED BY <1>11, <2>1, <2>2, ReachesText
<1>13. Reaches(pos, start, v)
  <2>1. start - c \in 0..start - c /\ c + (start - c) = start /\ n + (start - c) = v
    BY <1>2, <1>3, <1>5
  <2>2. Reaches(pos, c + (start - c), n + (start - c))
    BY <1>12, <2>1
  <2> QED BY <2>1, <2>2
<1>14. Reaches(pos, start + N, v + Extent(g))
  BY <1>5, <1>9, <1>13, ReachesImage DEF N, cube
<1>15. \A i \in 0..start - c - 1 :
         pos[c + i + 1] = <<n + i, n + i, n + i>> /\ Reaches(pos, c + i, n + i)
  <2> SUFFICES ASSUME NEW i \in 0..start - c - 1
               PROVE  pos[c + i + 1] = <<n + i, n + i, n + i>> /\ Reaches(pos, c + i, n + i)
    OBVIOUS
  <2>1. i + 1 \in 1..start - c /\ c + (i + 1) = c + i + 1 /\ n + (i + 1) - 1 = n + i
        /\ i \in 0..start - c
    BY <1>2, <1>3, <1>5
  <2>2. pos[c + (i + 1)] = <<n + (i + 1) - 1, n + (i + 1) - 1, n + (i + 1) - 1>>
    BY <1>10, <2>1
  <2> QED BY <1>12, <2>1, <2>2
<1>16. PlacedOK(ids, y)
  <2>1. y.cursor \in 0..L /\ y.next \in Nat
    BY <1>1, <1>4, <1>5
  <2> QED BY <1>4, <1>9, <1>14, <2>1 DEF PlacedOK, L, pos
<1>17. Rounds(ids, x, g, y, start)
  BY <1>3, <1>4, <1>5, <1>9, <1>13, <1>15 DEF Rounds, L, N, c, n, v, a, pos, cube
<1> QED BY <1>16, <1>17 DEF y, start

-----------------------------------------------------------------------------
(* An accepted prompt, image after image: where each is, and the positions *)
(* of the text before it and of its tokens.                                *)
SpanOf(at, ids, images, k) ==
    [start  |-> NextImage(ids, at[k - 1].cursor),
     length |-> TokenCount(images[k]),
     key    |-> images[k].key]

LEMMA LoopSpans ==
    ASSUME NEW at, NEW ids, NEW X, NEW images \in Seq(X), Loop(at, ids, images),
           NEW k \in 0..Len(images)
    PROVE  at[k].spans = [ j \in 1..k |-> SpanOf(at, ids, images, j) ]
<1> DEFINE n == Len(images) + 1
           sp(j) == SpanOf(at, ids, images, j)
           S == { i \in 1..n : at[i - 1].spans = [ j \in 1..i - 1 |-> sp(j) ] }
<1>0. n \in Nat /\ n = Len(images) + 1
  OBVIOUS
<1>1. 1 \in S
  <2>1. at[1 - 1].spans = << >>
    BY DEF Loop, Nothing
  <2>2. [ j \in 1..1 - 1 |-> sp(j) ] = << >>
    OBVIOUS
  <2> QED BY <1>0, <2>1, <2>2
<1>2. ASSUME NEW i \in 1..n - 1, i \in S PROVE i + 1 \in S
  <2> DEFINE old == [ j \in 1..i - 1 |-> sp(j) ]
             new == [ j \in 1..i |-> sp(j) ]
  <2>1. at[i] = PlaceImage(ids, at[i - 1], images[i])
    BY <1>0 DEF Loop
  <2>2. at[i].spans = Append(at[i - 1].spans, sp(i))
    BY <2>1 DEF PlaceImage, SpanOf
  <2>3. at[i - 1].spans = old
    BY <1>2
  <2>4. Append(old, sp(i)) = new
    <3> HIDE DEF sp
    <3> DEFINE V == { sp(j) : j \in 1..i }
    <3>1. old \in Seq(V) /\ Len(old) = i - 1 /\ sp(i) \in V
      OBVIOUS
    <3>2. Append(old, sp(i)) \in Seq(V) /\ Len(Append(old, sp(i))) = i
      BY <3>1
    <3>3. new \in Seq(V) /\ Len(new) = i
      <4>1. i \in Nat /\ \A j \in 1..i : sp(j) \in V
        OBVIOUS
      <4> HIDE DEF V
      <4> QED BY <4>1
    <3>4. \A j \in 1..i : Append(old, sp(i))[j] = new[j]
      BY <3>1
    <3> HIDE DEF V, old, new
    <3> QED BY <3>2, <3>3, <3>4
  <2>5. i + 1 \in 1..n /\ i + 1 - 1 = i
    BY <1>0
  <2>6. at[i + 1 - 1].spans = [ j \in 1..i + 1 - 1 |-> sp(j) ]
    BY <2>2, <2>3, <2>4, <2>5
  <2> QED BY <2>5, <2>6
<1>3. 1..n \subseteq S
  <2> HIDE DEF n, S
  <2> QED BY <1>0, <1>1, <1>2, UpToInduction
<1>4. k + 1 \in 1..n /\ k + 1 - 1 = k
  BY <1>0
<1>5. k + 1 \in S
  BY <1>3, <1>4
<1>6. at[k + 1 - 1].spans = [ j \in 1..k + 1 - 1 |-> sp(j) ]
  <2> HIDE DEF n, sp
  <2> QED BY <1>5
<1> HIDE DEF n, S
<1> QED BY <1>4, <1>6

(* Every image of an accepted prompt finds its placeholders.               *)
LEMMA LoopFinds ==
    ASSUME NEW at, NEW ids, Len(ids) \in Nat, NEW X, NEW images \in Seq(X),
           Loop(at, ids, images), Accepted(ids, images),
           Metadata(ids, images).spans = at[Len(images)].spans,
           NEW k \in 1..Len(images)
    PROVE  LET c     == at[k - 1].cursor
               start == NextImage(ids, c)
           IN  /\ Grid(images[k]) /\ start \in c..Len(ids) - TokenCount(images[k])
               /\ c \in Nat => FirstImage(ids, c, start)
               /\ \A i \in 1..TokenCount(images[k]) : ids[start + i] = ImageTokenId
<1> DEFINE c     == at[k - 1].cursor
           start == NextImage(ids, c)
           N     == TokenCount(images[k])
           spans == Metadata(ids, images).spans
<1>1. Grid(images[k])
  <2>1. images[k] \in SE!ToSet(images)
    BY DEF SE!ToSet
  <2> QED BY <2>1 DEF Accepted, Grid
<1>2. N \in Nat \ {0}
  BY <1>1, GridSize
<1>3. \A j \in 1..Len(images) : spans[j] = SpanOf(at, ids, images, j)
  <2>1. Len(images) \in 0..Len(images)
    OBVIOUS
  <2>2. spans = [ j \in 1..Len(images) |-> SpanOf(at, ids, images, j) ]
    BY <2>1, LoopSpans
  <2> HIDE DEF spans
  <2> QED BY <2>2
<1>4. spans[k].start = start /\ spans[k].length = N
  <2>1. spans[k] = SpanOf(at, ids, images, k)
    BY <1>3
  <2> HIDE DEF spans
  <2> QED BY <2>1 DEF SpanOf
<1>5. SearchedFrom(spans, k) = c
  <2>1. CASE k = 1
    BY <2>1 DEF SearchedFrom, Loop, Nothing
  <2>2. CASE k # 1
    <3>1. k - 1 \in 1..Len(images)
      BY <2>2
    <3>2. at[k - 1] = PlaceImage(ids, at[k - 1 - 1], images[k - 1])
      BY <3>1 DEF Loop
    <3>3. spans[k - 1] = SpanOf(at, ids, images, k - 1)
      BY <1>3, <3>1
    <3> HIDE DEF spans
    <3> QED BY <2>2, <3>2, <3>3 DEF SearchedFrom, SpanOf, PlaceImage
  <2> QED BY <2>1, <2>2
<1>6. /\ spans[k].start \in SearchedFrom(spans, k)..Len(ids) - spans[k].length
      /\ \A i \in 1..spans[k].length : ids[spans[k].start + i] = ImageTokenId
  BY DEF Accepted
<1> HIDE DEF c, start, N, spans
<1>7. start \in c..Len(ids) - N /\ \A i \in 1..N : ids[start + i] = ImageTokenId
  BY <1>4, <1>5, <1>6
<1>8. ASSUME c \in Nat PROVE FirstImage(ids, c, start)
  <2>1. start \in c..Len(ids) - 1 /\ ids[start + 1] = ImageTokenId
    BY <1>2, <1>7, <1>8
  <2> QED BY <1>8, <2>1, NextImageFacts DEF start
<1> QED BY <1>1, <1>7, <1>8 DEF c, start, N

(* What the loop has placed after each image is right, and stays.          *)
Prefix(x, y) ==
    x.cursor <= y.cursor /\ \A i \in 1..x.cursor : y.positions[i] = x.positions[i]

LEMMA LoopPlaced ==
    ASSUME NEW at, NEW ids, Len(ids) \in Nat, NEW X, NEW images \in Seq(X),
           Loop(at, ids, images), Accepted(ids, images),
           Metadata(ids, images).spans = at[Len(images)].spans
    PROVE  /\ \A k \in 0..Len(images) : PlacedOK(ids, at[k])
           /\ \A k \in 1..Len(images) : Rounds(ids, at[k - 1], images[k], at[k],
                                               NextImage(ids, at[k - 1].cursor))
           /\ \A k \in 0..Len(images) : \A j \in 0..k : Prefix(at[j], at[k])
<1> DEFINE m == Len(images)
           n == m + 1
           start(k) == NextImage(ids, at[k - 1].cursor)
           OK(k) == /\ \A j \in 0..k : PlacedOK(ids, at[j])
                    /\ \A j \in 1..k : Rounds(ids, at[j - 1], images[j], at[j], start(j))
                    /\ \A j \in 0..k : Prefix(at[j], at[k])
           S == { i \in 1..n : OK(i - 1) }
<1>0. m \in Nat /\ n \in Nat /\ n = m + 1 /\ n - 1 = m /\ n \in 1..n
  OBVIOUS
<1>1. 1 \in S
  <2>1. at[0] = Nothing
    BY DEF Loop
  <2>2. PlacedOK(ids, at[0])
    BY <2>1 DEF PlacedOK, Nothing, Reaches
  <2>3. Prefix(at[0], at[0])
    BY <2>1 DEF Prefix, Nothing
  <2>4. OK(0)
    <3>1. 0..0 = {0} /\ 1..0 = {}
      OBVIOUS
    <3> QED BY <2>2, <2>3, <3>1
  <2>5. 1 \in 1..n /\ 1 - 1 = 0
    BY <1>0
  <2> HIDE DEF OK
  <2> QED BY <2>4, <2>5
<1>2. ASSUME NEW i \in 1..n - 1, i \in S PROVE i + 1 \in S
  <2>1. OK(i - 1) /\ i \in 1..m
    BY <1>0, <1>2
  <2>2. PlacedOK(ids, at[i - 1]) /\ at[i] = PlaceImage(ids, at[i - 1], images[i])
    BY <2>1 DEF Loop
  <2>3. Grid(images[i])
        /\ start(i) \in at[i - 1].cursor..Len(ids) - TokenCount(images[i])
    BY <2>1, LoopFinds
  <2>4. PlacedOK(ids, at[i]) /\ Rounds(ids, at[i - 1], images[i], at[i], start(i))
    BY <2>2, <2>3, PlaceFacts
  <2>5. Prefix(at[i - 1], at[i]) /\ Prefix(at[i], at[i])
    <3>1. /\ at[i].cursor = start(i) + TokenCount(images[i])
          /\ start(i) \in at[i - 1].cursor..Len(ids) - TokenCount(images[i])
          /\ \A j \in 1..at[i - 1].cursor : at[i].positions[j] = at[i - 1].positions[j]
      BY <2>4 DEF Rounds
    <3>2. TokenCount(images[i]) \in Nat
      BY <2>3, GridSize
    <3>3. at[i - 1].cursor \in Nat /\ at[i].cursor \in Nat
      BY <2>2, <2>4 DEF PlacedOK
    <3>4. at[i - 1].cursor <= at[i].cursor
      BY <3>1, <3>2, <3>3
    <3> QED BY <3>1, <3>3, <3>4 DEF Prefix
  <2>6. ASSUME NEW j \in 0..i PROVE Prefix(at[j], at[i])
    <3>1. CASE j = i
      BY <2>5, <3>1
    <3>2. CASE j # i
      <4>1. j \in 0..i - 1
        BY <3>2
      <4>2. Prefix(at[j], at[i - 1])
        BY <2>1, <4>1
      <4>3. at[i - 1].cursor \in Nat /\ at[i].cursor \in Nat
        BY <2>2, <2>4 DEF PlacedOK
      <4>4. at[j].cursor \in Nat
        BY <2>1, <4>1 DEF PlacedOK
      <4> QED BY <2>5, <4>2, <4>3, <4>4 DEF Prefix
    <3> QED BY <3>1, <3>2
  <2>7. ASSUME NEW j \in 1..i PROVE Rounds(ids, at[j - 1], images[j], at[j], start(j))
    <3>1. CASE j = i
      BY <2>4, <3>1
    <3>2. CASE j # i
      <4>1. j \in 1..i - 1
        BY <3>2
      <4> QED BY <2>1, <4>1
    <3> QED BY <3>1, <3>2
  <2>8. OK(i)
    <3>1. \A j \in 0..i : j \in 0..i - 1 \/ j = i
      OBVIOUS
    <3>2. \A j \in 0..i : PlacedOK(ids, at[j])
      BY <2>1, <2>4, <3>1
    <3> QED BY <2>6, <2>7, <3>2
  <2>9. i + 1 \in 1..n /\ i + 1 - 1 = i
    BY <1>0
  <2> HIDE DEF OK
  <2> QED BY <2>8, <2>9
<1>3. 1..n \subseteq S
  <2> HIDE DEF n, S
  <2> QED BY <1>0, <1>1, <1>2, UpToInduction
<1>4. \A k \in 0..m : OK(k)
  <2> SUFFICES ASSUME NEW k \in 0..m PROVE OK(k)
    OBVIOUS
  <2>1. k + 1 \in 1..n /\ k + 1 - 1 = k
    BY <1>0
  <2>2. k + 1 \in S
    BY <1>3, <2>1
  <2> HIDE DEF OK
  <2> QED BY <2>1, <2>2
<1> QED BY <1>4

(* The prompt's own positions: where each stretch of text and each image   *)
(* starts, up to where the positions before it reach.                      *)
TextAt(pos, c, v, n) ==
    \A i \in 0..n - 1 :
        pos[c + i + 1] = <<v + i, v + i, v + i>> /\ Reaches(pos, c + i, v + i)
ImageLaid(pos, start, v, g) ==
    /\ v \in Nat /\ Reaches(pos, start, v)
    /\ \A i \in 1..TokenCount(g) : pos[start + i] = GridPositions(v, g)[i]

Laid(at, ids, images, pos) ==
    /\ pos \in Seq(Triples) /\ Len(pos) = Len(ids) /\ at[0].cursor = 0
    /\ \A k \in 0..Len(images) :
          /\ at[k].cursor \in 0..Len(ids) /\ at[k].next \in Nat
          /\ \A j \in 0..k : at[j].cursor <= at[k].cursor
    /\ \A k \in 1..Len(images) :
          LET x == at[k - 1]
              g == images[k]
              start == NextImage(ids, x.cursor)
          IN  /\ Grid(g) /\ FirstImage(ids, x.cursor, start)
              /\ start \in x.cursor..Len(ids) - TokenCount(g)
              /\ at[k].cursor = start + TokenCount(g)
              /\ TextAt(pos, x.cursor, x.next, start - x.cursor)
              /\ ImageLaid(pos, start, x.next + start - x.cursor, g)
              /\ \A i \in 1..TokenCount(g) : ids[start + i] = ImageTokenId
    /\ LET end == at[Len(images)]
       IN  /\ TextAt(pos, end.cursor, end.next, Len(ids) - end.cursor)
           /\ Reaches(pos, Len(ids), end.next + Len(ids) - end.cursor)

LEMMA PromptLaid ==
    ASSUME NEW ids, Len(ids) \in Nat, NEW X, NEW images \in Seq(X), Accepted(ids, images)
    PROVE  \E at : LET M == Metadata(ids, images)
                       m == Len(images) IN
             /\ Laid(at, ids, images, M.positions)
             /\ M.delta = at[m].next - at[m].cursor
             /\ M.spans = [ k \in 1..m |-> SpanOf(at, ids, images, k) ]
<1> DEFINE M == Metadata(ids, images)
           m == Len(images)
           L == Len(ids)
<1>1. PICK at : LET placed == at[Len(images)]
                    end    == placed.next + Len(ids) - placed.cursor
                IN  /\ Loop(at, ids, images)
                    /\ Metadata(ids, images) =
                         [positions |-> placed.positions \o Diagonal(placed.next, end),
                          delta     |-> end - Len(ids),
                          spans     |-> placed.spans]
  BY MetadataLoop
<1> DEFINE x == at[m]
           c == x.cursor
           v == x.next
           end == v + L - c
           d == Diagonal(v, end)
           a == x.positions
           pos == M.positions
<1>2. Loop(at, ids, images) /\ M.spans = x.spans /\ M.delta = end - L /\ pos = a \o d
  <2>1. M = [positions |-> a \o d, delta |-> end - L, spans |-> x.spans]
    BY <1>1
  <2>2. Loop(at, ids, images)
    BY <1>1
  <2> HIDE DEF M, L, x, end, d, a
  <2> QED BY <2>1, <2>2
<1>3. m \in Nat /\ m \in 0..m
  OBVIOUS
<1>4. /\ \A k \in 0..m : PlacedOK(ids, at[k])
      /\ \A k \in 1..m : Rounds(ids, at[k - 1], images[k], at[k], NextImage(ids, at[k - 1].cursor))
      /\ \A k \in 0..m : \A j \in 0..k : Prefix(at[j], at[k])
  BY <1>2, LoopPlaced
<1>5. L \in Nat /\ c \in 0..L /\ v \in Nat /\ a \in Seq(Triples) /\ Len(a) = c /\ Reaches(a, c, v)
  BY <1>3, <1>4 DEF PlacedOK
<1>6. x.spans = [ k \in 1..m |-> SpanOf(at, ids, images, k) ]
  BY <1>2, <1>3, LoopSpans
<1>7. \A k \in 1..m :
        LET y == at[k - 1]
            g == images[k]
            start == NextImage(ids, y.cursor)
        IN  /\ Grid(g) /\ start \in y.cursor..Len(ids) - TokenCount(g)
            /\ y.cursor \in Nat => FirstImage(ids, y.cursor, start)
            /\ \A i \in 1..TokenCount(g) : ids[start + i] = ImageTokenId
  BY <1>2, LoopFinds
<1>8. at[0].cursor = 0
  BY <1>2 DEF Loop, Nothing
<1>e. end = v + L - c
  OBVIOUS
<1> HIDE DEF M, m, L, x, c, v, end, d, a, pos
<1>9. end \in Nat /\ v <= end /\ end - v = L - c /\ c + (L - c) = L /\ v + (L - c) = end
      /\ end - L = v - c
  BY <1>5, <1>e
<1>10. /\ d \in Seq(Triples) /\ Len(d) = L - c
       /\ \A i \in 1..L - c : d[i] = <<v + i - 1, v + i - 1, v + i - 1>>
  <2>1. d = Diagonal(v, end)
    BY DEF d
  <2>2. /\ Diagonal(v, end) \in Seq(Triples) /\ Len(Diagonal(v, end)) = end - v
        /\ \A i \in 1..end - v : Diagonal(v, end)[i] = <<v + i - 1, v + i - 1, v + i - 1>>
    BY <1>5, <1>9, DiagonalFacts
  <2>3. end - v = L - c
    BY <1>9
  <2> QED BY <2>1, <2>2, <2>3, Zenon
<1>11. pos \in Seq(Triples) /\ InARow(pos, a, d, c, L - c) /\ Len(pos) = L
  <2>1. a \o d \in Seq(Triples) /\ InARow(a \o d, a, d, Len(a), Len(d))
    BY <1>5, <1>10, JoinTwo
  <2>2. pos \in Seq(Triples) /\ InARow(pos, a, d, c, L - c)
    BY <1>2, <1>5, <1>10, <2>1
  <2> QED BY <1>9, <2>2 DEF InARow
<1>12. ASSUME NEW n \in 0..L - c PROVE Reaches(pos, c + n, v + n)
  <2>1. c \in Nat /\ n \in Nat
    BY <1>5
  <2>2. Reaches(pos, c, v)
    BY <1>5, <1>11, <2>1, ReachesSame DEF InARow
  <2>3. ASSUME NEW i \in 1..n PROVE pos[c + i] = <<v + i - 1, v + i - 1, v + i - 1>>
    <3>1. i \in 1..L - c
      BY <1>5
    <3> QED BY <1>10, <1>11, <3>1 DEF InARow
  <2> QED BY <2>1, <2>2, <2>3, ReachesText
<1>13. TextAt(pos, c, v, L - c)
  <2> SUFFICES ASSUME NEW i \in 0..L - c - 1
               PROVE  pos[c + i + 1] = <<v + i, v + i, v + i>> /\ Reaches(pos, c + i, v + i)
    BY DEF TextAt
  <2>1. i + 1 \in 1..L - c /\ c + (i + 1) = c + i + 1 /\ v + (i + 1) - 1 = v + i
        /\ i \in 0..L - c
    BY <1>5
  <2>2. pos[c + (i + 1)] = d[i + 1]
    BY <1>11, <2>1 DEF InARow
  <2>3. d[i + 1] = <<v + (i + 1) - 1, v + (i + 1) - 1, v + (i + 1) - 1>>
    BY <1>10, <2>1
  <2> QED BY <1>12, <2>1, <2>2, <2>3
<1>14. Reaches(pos, L, end)
  <2>1. L - c \in 0..L - c
    BY <1>5
  <2> QED BY <1>9, <1>12, <2>1
<1>15. ASSUME NEW k \in 1..m
       PROVE  LET y == at[k - 1]
                  g == images[k]
                  start == NextImage(ids, y.cursor)
              IN  /\ at[k].cursor = start + TokenCount(g)
                  /\ TextAt(pos, y.cursor, y.next, start - y.cursor)
                  /\ ImageLaid(pos, start, y.next + start - y.cursor, g)
  <2> DEFINE y == at[k - 1]
             z == at[k]
             g == images[k]
             start == NextImage(ids, y.cursor)
             b == y.cursor
             w == y.next
             N == TokenCount(g)
  <2>1. Rounds(ids, y, g, z, start) /\ Prefix(z, x) /\ PlacedOK(ids, y) /\ PlacedOK(ids, z)
    <3>1. k \in 0..m /\ k - 1 \in 0..m /\ m \in 0..m
      BY <1>3
    <3> QED BY <1>4, <3>1 DEF x
  <2>2. Grid(g) /\ start \in b..L - N
    BY <1>7 DEF L
  <2>3. N \in Nat
    BY <2>2, GridSize
  <2>4. /\ z.cursor = start + N /\ w + start - b \in Nat
        /\ Reaches(z.positions, start, w + start - b)
        /\ \A i \in 0..start - b - 1 :
              /\ z.positions[b + i + 1] = <<w + i, w + i, w + i>>
              /\ Reaches(z.positions, b + i, w + i)
        /\ \A i \in 1..N : z.positions[start + i] = GridPositions(w + start - b, g)[i]
    BY <2>1 DEF Rounds
  <2>5. b \in Nat /\ w \in Nat /\ z.cursor \in 0..L
    BY <2>1 DEF PlacedOK, L
  <2> HIDE DEF y, z, g, start, b, w, N
  <2>6. \A i \in 1..start + N : pos[i] = z.positions[i]
    <3> SUFFICES ASSUME NEW i \in 1..start + N PROVE pos[i] = z.positions[i]
      OBVIOUS
    <3>1. i \in 1..z.cursor
      BY <2>4
    <3>2. a[i] = z.positions[i] /\ z.cursor <= c
      BY <2>1, <3>1 DEF Prefix, a, c
    <3>3. i \in 1..c
      BY <1>5, <2>5, <3>1, <3>2
    <3> QED BY <1>11, <3>2, <3>3 DEF InARow
  <2>7. start \in Nat /\ \A i \in 1..N : start + i \in 1..start + N
    BY <1>5, <2>2, <2>3, <2>5
  <2>8. ImageLaid(pos, start, w + start - b, g)
    <3>1. \A i \in 1..start : i \in 1..start + N
      BY <2>3, <2>7
    <3>2. Reaches(pos, start, w + start - b)
      BY <2>4, <2>6, <2>7, <3>1, ReachesSame
    <3>3. \A i \in 1..N : pos[start + i] = GridPositions(w + start - b, g)[i]
      BY <2>4, <2>6, <2>7
    <3> QED BY <2>4, <3>2, <3>3 DEF ImageLaid, N
  <2>9. TextAt(pos, b, w, start - b)
    <3> SUFFICES ASSUME NEW i \in 0..start - b - 1
                 PROVE  pos[b + i + 1] = <<w + i, w + i, w + i>> /\ Reaches(pos, b + i, w + i)
      BY DEF TextAt
    <3>1. b + i \in Nat /\ b + i + 1 \in 1..start + N /\ \A j \in 1..b + i : j \in 1..start + N
      BY <2>3, <2>5, <2>7
    <3>2. z.positions[b + i + 1] = <<w + i, w + i, w + i>> /\ Reaches(z.positions, b + i, w + i)
      BY <2>4
    <3>3. Reaches(pos, b + i, w + i)
      BY <2>6, <3>1, <3>2, ReachesSame
    <3> QED BY <2>6, <3>1, <3>2, <3>3
  <2> QED BY <2>4, <2>8, <2>9 DEF y, z, g, start, b, w, N
<1>16. \A k \in 0..m : /\ at[k].cursor \in 0..L /\ at[k].next \in Nat
                       /\ \A j \in 0..k : at[j].cursor <= at[k].cursor
  BY <1>4 DEF PlacedOK, Prefix, L
<1>17. \A k \in 1..m : FirstImage(ids, at[k - 1].cursor, NextImage(ids, at[k - 1].cursor))
  <2> SUFFICES ASSUME NEW k \in 1..m
               PROVE  FirstImage(ids, at[k - 1].cursor, NextImage(ids, at[k - 1].cursor))
    OBVIOUS
  <2>1. k - 1 \in 0..m
    BY <1>3
  <2>2. at[k - 1].cursor \in Nat
    BY <1>16, <2>1
  <2> QED BY <1>7, <2>2
<1>18. Laid(at, ids, images, pos)
  BY <1>7, <1>8, <1>11, <1>13, <1>14, <1>15, <1>16, <1>17, <1>e DEF Laid, L, m, x, c, v
<1>19. M.delta = v - c
  BY <1>2, <1>9
<1> QED BY <1>2, <1>6, <1>18, <1>19 DEF M, m, pos, x, c, v

(* Every token of an accepted prompt is text or belongs to one image.      *)
LEMMA TokenPlace ==
    ASSUME NEW at, NEW ids, Len(ids) \in Nat, NEW images, Len(images) \in Nat,
           NEW pos, Laid(at, ids, images, pos), NEW q \in 0..Len(ids) - 1
    PROVE  \/ \E k \in 1..Len(images) :
                LET start == NextImage(ids, at[k - 1].cursor) IN
                \/ q \in at[k - 1].cursor..start - 1
                \/ q \in start..start + TokenCount(images[k]) - 1
           \/ q >= at[Len(images)].cursor
<1> DEFINE m == Len(images)
           N == { k \in 0..m : q < at[k].cursor }
<1>1. \A k \in 0..m : at[k].cursor \in Nat
  BY DEF Laid
<1>2. CASE N = {}
  <2>1. m \in 0..m
    OBVIOUS
  <2>2. ~ (q < at[m].cursor) /\ at[m].cursor \in Nat
    BY <1>1, <1>2, <2>1
  <2> HIDE DEF m
  <2>3. q >= at[m].cursor
    BY <2>2
  <2> QED BY <2>3 DEF m
<1>3. CASE N # {}
  <2>1. N \in SUBSET Nat
    OBVIOUS
  <2>2. PICK k \in N : \A j \in N : k <= j
    <3> HIDE DEF N
    <3> QED BY <1>3, <2>1, LeastNatural
  <2>3. k # 0
    BY <2>2 DEF Laid
  <2>4. k \in 1..m /\ k - 1 \in 0..m
    BY <2>2, <2>3
  <2>5. k - 1 \notin N
    BY <2>2, <2>4
  <2> DEFINE c == at[k - 1].cursor
             start == NextImage(ids, c)
             t == TokenCount(images[k])
  <2>6. ~ (q < c) /\ c \in Nat /\ q < at[k].cursor
    BY <1>1, <2>2, <2>4, <2>5
  <2>7. at[k].cursor = start + t /\ start \in c..Len(ids) - t /\ Grid(images[k])
    BY <2>4 DEF Laid
  <2>8. t \in Nat
    BY <2>7, GridSize
  <2> HIDE DEF c, start, t
  <2>9. q \in c..start - 1 \/ q \in start..start + t - 1
    BY <2>6, <2>7, <2>8
  <2> QED BY <2>4, <2>9 DEF c, start, t
<1> QED BY <1>2, <1>3

(* The tokens of an image come after those of the images before it.        *)
LEMMA ImagesApart ==
    ASSUME NEW at, NEW ids, Len(ids) \in Nat, NEW images, Len(images) \in Nat,
           NEW pos, Laid(at, ids, images, pos), NEW k \in 1..Len(images)
    PROVE  LET start(j) == NextImage(ids, at[j - 1].cursor)
               end(j)   == start(j) + TokenCount(images[j])
           IN  /\ start(k) \in Nat /\ TokenCount(images[k]) \in Nat \ {0} /\ end(k) \in Nat
               /\ end(k) <= at[Len(images)].cursor
               /\ \A j \in 1..k - 1 : end(j) <= start(k)
               /\ \A i \in start(k)..end(k) - 1 : ids[i + 1] = ImageTokenId
<1> DEFINE m == Len(images)
           start(j) == NextImage(ids, at[j - 1].cursor)
           t(j)     == TokenCount(images[j])
           end(j)   == start(j) + t(j)
<1>1. \A j \in 1..m : /\ Grid(images[j]) /\ at[j].cursor = end(j)
                      /\ start(j) \in at[j - 1].cursor..Len(ids) - t(j)
                      /\ \A i \in 1..t(j) : ids[start(j) + i] = ImageTokenId
  BY DEF Laid
<1>2. \A j \in 1..m : t(j) \in Nat \ {0}
  BY <1>1, GridSize
<1>3. \A j \in 0..m : at[j].cursor \in Nat /\ \A i \in 0..j : at[i].cursor <= at[j].cursor
  BY DEF Laid
<1>4. k \in 0..m /\ k - 1 \in 0..m /\ m \in 0..m
  OBVIOUS
<1> HIDE DEF m, start, t
<1>5. start(k) \in Nat /\ t(k) \in Nat \ {0} /\ end(k) \in Nat
  <2>1. start(k) \in at[k - 1].cursor..Len(ids) - t(k)
    BY <1>1 DEF m
  <2>2. at[k - 1].cursor \in Nat /\ t(k) \in Nat \ {0}
    BY <1>2, <1>3, <1>4 DEF m
  <2> QED BY <2>1, <2>2
<1>6. end(k) <= at[m].cursor
  BY <1>1, <1>3, <1>4 DEF m
<1>7. ASSUME NEW j \in 1..k - 1 PROVE end(j) <= start(k)
  <2>1. j \in 0..k - 1 /\ j \in 1..m
    BY <1>4 DEF m
  <2>2. at[j].cursor <= at[k - 1].cursor /\ at[j].cursor = end(j)
    BY <1>1, <1>3, <1>4, <2>1
  <2>3. at[k - 1].cursor <= start(k)
    BY <1>1 DEF m
  <2>4. at[j].cursor \in Nat /\ at[k - 1].cursor \in Nat
    BY <1>3, <1>4, <2>1
  <2> QED BY <1>5, <2>2, <2>3, <2>4
<1>8. ASSUME NEW i \in start(k)..end(k) - 1 PROVE ids[i + 1] = ImageTokenId
  <2>1. i - start(k) + 1 \in 1..t(k) /\ start(k) + (i - start(k) + 1) = i + 1
    BY <1>5
  <2>2. ids[start(k) + (i - start(k) + 1)] = ImageTokenId
    BY <1>1, <2>1 DEF m
  <2> QED BY <2>1, <2>2
<1> QED BY <1>5, <1>6, <1>7, <1>8 DEF m, start, t

-----------------------------------------------------------------------------
(* The prompts clients submit: image k of p has the tokens ImageFrom(at, p,*)
(* k) to ImageTo(at, p, k) - 1, with their identities; the others are text.*)
PromptAt(at, p) ==
    LET M == MetadataOf[p]
        m == Len(ImagesOf[p])
    IN  /\ Laid(at, Ids(p), ImagesOf[p], M.positions)
        /\ M.delta = at[m].next - at[m].cursor
        /\ M.spans = [ k \in 1..m |-> SpanOf(at, Ids(p), ImagesOf[p], k) ]

ImageFrom(at, p, k) == NextImage(Ids(p), at[k - 1].cursor)
ImageTo(at, p, k)   == ImageFrom(at, p, k) + TokenCount(ImagesOf[p][k])

TextToken(at, p, q) ==
    /\ p[q + 1].mm = NoVisual
    /\ \A k \in 1..Len(ImagesOf[p]) : q \notin ImageFrom(at, p, k)..ImageTo(at, p, k) - 1
    /\ \E v \in Nat : /\ Reaches(MetadataOf[p].positions, q, v)
                      /\ MetadataOf[p].positions[q + 1] = <<v, v, v>>
ImageToken(at, p, q, k) ==
    /\ q \in ImageFrom(at, p, k)..ImageTo(at, p, k) - 1
    /\ p[q + 1].mm = <<ImagesOf[p][k].key, q - ImageFrom(at, p, k)>>
    /\ p[q + 1].mm # NoVisual

LEMMA PromptFacts ==
    ASSUME NEW p \in Prompts
    PROVE  /\ p \in Seq(Token) /\ Len(p) \in Nat \ {0} /\ Len(Ids(p)) = Len(p)
           /\ ImagesOf[p] \in Seq(Images) /\ Len(ImagesOf[p]) \in Nat
           /\ Accepted(Ids(p), ImagesOf[p])
           /\ MetadataOf[p] = Metadata(Ids(p), ImagesOf[p])
           /\ \A q \in 0..Len(p) - 1 :
                 p[q + 1].mm = VisualIdentityAt(MetadataOf[p], q, NoVisual)
           /\ \E at : PromptAt(at, p)
<1>1. p \in Seq(Token) /\ p # << >>
  BY SchedulerAssumption
<1>2. Len(p) \in Nat \ {0} /\ Len(Ids(p)) = Len(p)
  BY <1>1 DEF Ids
<1>3. /\ ImagesOf[p] \in Seq(Images) /\ Accepted(Ids(p), ImagesOf[p])
      /\ p = Materialized(Ids(p), ImagesOf[p], NoVisual)
  BY PromptsAssumption
<1>4. MetadataOf[p] = Metadata(Ids(p), ImagesOf[p])
  BY DEF MetadataOf
<1>5. ASSUME NEW q \in 0..Len(p) - 1
      PROVE  p[q + 1].mm = VisualIdentityAt(MetadataOf[p], q, NoVisual)
  <2>1. q + 1 \in 1..Len(Ids(p)) /\ q + 1 - 1 = q
    BY <1>2
  <2>2. Materialized(Ids(p), ImagesOf[p], NoVisual)[q + 1] =
          [id |-> Ids(p)[q + 1], mm |-> VisualIdentityAt(MetadataOf[p], q + 1 - 1, NoVisual)]
    BY <1>4, <2>1 DEF Materialized
  <2>3. p[q + 1] =
          [id |-> Ids(p)[q + 1], mm |-> VisualIdentityAt(MetadataOf[p], q + 1 - 1, NoVisual)]
    BY <1>3, <2>2
  <2> QED BY <2>1, <2>3
<1>6. \E at : PromptAt(at, p)
  <2> DEFINE ids == Ids(p)
             images == ImagesOf[p]
             M == Metadata(ids, images)
  <2>1. Len(ids) \in Nat /\ images \in Seq(Images) /\ Accepted(ids, images)
    BY <1>2, <1>3
  <2>2. PICK at : /\ Laid(at, ids, images, M.positions)
                  /\ M.delta = at[Len(images)].next - at[Len(images)].cursor
                  /\ M.spans = [ k \in 1..Len(images) |-> SpanOf(at, ids, images, k) ]
    <3> HIDE DEF ids, images
    <3> QED BY <2>1, PromptLaid
  <2>3. PromptAt(at, p)
    BY <1>4, <2>2 DEF PromptAt
  <2> QED BY <2>3
<1>7. Len(ImagesOf[p]) \in Nat
  BY <1>3
<1> QED BY <1>1, <1>2, <1>3, <1>4, <1>5, <1>6, <1>7

LEMMA PromptImages ==
    ASSUME NEW p \in Prompts, NEW at, PromptAt(at, p), NEW k \in 1..Len(ImagesOf[p])
    PROVE  /\ ImageFrom(at, p, k) \in Nat /\ ImageTo(at, p, k) \in Nat
           /\ ImageFrom(at, p, k) < ImageTo(at, p, k)
           /\ TokenCount(ImagesOf[p][k]) \in Nat \ {0} /\ Grid(ImagesOf[p][k])
           /\ ImageTo(at, p, k) <= at[Len(ImagesOf[p])].cursor
           /\ ImageTo(at, p, k) <= Len(p)
           /\ \A j \in 1..k - 1 : ImageTo(at, p, j) <= ImageFrom(at, p, k)
           /\ \A i \in ImageFrom(at, p, k)..ImageTo(at, p, k) - 1 : Ids(p)[i + 1] = ImageTokenId
<1>1. /\ Len(Ids(p)) = Len(p) /\ Len(p) \in Nat /\ Len(ImagesOf[p]) \in Nat
      /\ Laid(at, Ids(p), ImagesOf[p], MetadataOf[p].positions)
  BY PromptFacts DEF PromptAt
<1>2. /\ ImageFrom(at, p, k) \in Nat /\ TokenCount(ImagesOf[p][k]) \in Nat \ {0}
      /\ ImageTo(at, p, k) \in Nat
      /\ ImageTo(at, p, k) <= at[Len(ImagesOf[p])].cursor
      /\ \A j \in 1..k - 1 : ImageTo(at, p, j) <= ImageFrom(at, p, k)
      /\ \A i \in ImageFrom(at, p, k)..ImageTo(at, p, k) - 1 : Ids(p)[i + 1] = ImageTokenId
  <2>1. Len(Ids(p)) \in Nat
    BY <1>1
  <2> QED BY <1>1, <2>1, ImagesApart, SMTT(30) DEF ImageFrom, ImageTo
<1>3. at[Len(ImagesOf[p])].cursor \in 0..Len(p) /\ Grid(ImagesOf[p][k])
  <2>1. Len(ImagesOf[p]) \in 0..Len(ImagesOf[p])
    BY <1>1
  <2> QED BY <1>1, <2>1 DEF Laid
<1>4. ImageFrom(at, p, k) < ImageTo(at, p, k)
  BY <1>2 DEF ImageTo
<1> DEFINE x == ImageTo(at, p, k)
           y == at[Len(ImagesOf[p])].cursor
<1>5. x <= Len(p)
  <2>1. x \in Nat /\ x <= y /\ y \in 0..Len(p)
    BY <1>2, <1>3
  <2> HIDE DEF x, y
  <2> QED BY <1>1, <2>1
<1> QED BY <1>2, <1>3, <1>4, <1>5

(* Every token of a prompt is one or the other.                            *)
LEMMA PromptToken ==
    ASSUME NEW p \in Prompts, NEW at, PromptAt(at, p), NEW q \in 0..Len(p) - 1
    PROVE  \/ TextToken(at, p, q)
           \/ \E k \in 1..Len(ImagesOf[p]) : ImageToken(at, p, q, k)
<1> DEFINE ids == Ids(p)
           images == ImagesOf[p]
           m == Len(images)
           M == MetadataOf[p]
           pos == M.positions
           from(k) == ImageFrom(at, p, k)
           to(k) == ImageTo(at, p, k)
<1>1. /\ Len(ids) = Len(p) /\ Len(p) \in Nat /\ m \in Nat
      /\ p[q + 1].mm = VisualIdentityAt(M, q, NoVisual)
      /\ Laid(at, ids, images, pos)
      /\ M.spans = [ k \in 1..m |-> SpanOf(at, ids, images, k) ]
  BY PromptFacts DEF PromptAt
<1>2. DOMAIN M.spans = 1..m
      /\ \A k \in 1..m : /\ M.spans[k].start = from(k) /\ M.spans[k].key = images[k].key
                         /\ M.spans[k].length = TokenCount(images[k])
  <2> HIDE DEF M, ids, images, m
  <2> QED BY <1>1 DEF SpanOf, ImageFrom, ids, images
<1>3. \A k \in 1..m : from(k) \in Nat /\ to(k) = from(k) + TokenCount(images[k])
                      /\ TokenCount(images[k]) \in Nat \ {0} /\ to(k) <= at[m].cursor
                      /\ \A j \in 1..k - 1 : to(j) <= from(k)
  BY PromptImages DEF ImageTo
<1> HIDE DEF m, M, pos, from, to
<1>4. ASSUME NEW k \in 1..m, q \in from(k)..to(k) - 1
      PROVE  \A j \in 1..m : q \in from(j)..to(j) - 1 => j = k
  <2> SUFFICES ASSUME NEW j \in 1..m, q \in from(j)..to(j) - 1, j # k PROVE FALSE
    OBVIOUS
  <2>1. j \in 1..k - 1 \/ k \in 1..j - 1
    BY <1>1
  <2>2. to(j) <= from(k) \/ to(k) <= from(j)
    BY <1>3, <2>1
  <2>3. /\ from(j) \in Nat /\ from(k) \in Nat /\ to(j) \in Nat /\ to(k) \in Nat
    BY <1>3
  <2> QED BY <1>4, <2>2, <2>3
<1>5. \A k \in 1..m : M.spans[k].start <= q /\ q < M.spans[k].start + M.spans[k].length
                        <=> q \in from(k)..to(k) - 1
  <2> SUFFICES ASSUME NEW k \in 1..m
               PROVE  M.spans[k].start <= q /\ q < M.spans[k].start + M.spans[k].length
                        <=> q \in from(k)..to(k) - 1
    OBVIOUS
  <2>1. M.spans[k].start = from(k) /\ from(k) \in Nat /\ M.spans[k].length \in Nat
        /\ to(k) = from(k) + M.spans[k].length
    BY <1>2, <1>3
  <2> QED BY <2>1
<1>6. CASE \A k \in 1..m : q \notin from(k)..to(k) - 1
  <2>1. p[q + 1].mm = NoVisual
    BY <1>1, <1>2, <1>5, <1>6 DEF VisualIdentityAt
  <2>2. \/ \E k \in 1..m : q \in at[k - 1].cursor..from(k) - 1
        \/ q >= at[m].cursor
    <3>1. \/ \E k \in 1..m : \/ q \in at[k - 1].cursor..from(k) - 1
                             \/ q \in from(k)..from(k) + TokenCount(images[k]) - 1
          \/ q >= at[m].cursor
      BY <1>1, TokenPlace DEF from, ImageFrom, m
    <3> QED BY <1>3, <1>6, <3>1
  <2>3. ASSUME NEW c \in Nat, NEW v \in Nat, NEW n \in Int, TextAt(pos, c, v, n), q \in c..c + n - 1
        PROVE  \E w \in Nat : Reaches(pos, q, w) /\ pos[q + 1] = <<w, w, w>>
    <3> DEFINE i == q - c
    <3>1. i \in 0..n - 1 /\ c + i = q /\ v + i \in Nat
      BY <2>3
    <3>2. pos[c + i + 1] = <<v + i, v + i, v + i>> /\ Reaches(pos, c + i, v + i)
      <4> HIDE DEF i
      <4> QED BY <2>3, <3>1 DEF TextAt
    <3> HIDE DEF i
    <3> QED BY <3>1, <3>2
  <2>4. \E w \in Nat : Reaches(pos, q, w) /\ pos[q + 1] = <<w, w, w>>
    <3>1. CASE \E k \in 1..m : q \in at[k - 1].cursor..from(k) - 1
      <4>1. PICK k \in 1..m : q \in at[k - 1].cursor..from(k) - 1
        BY <3>1
      <4>2. k - 1 \in 0..m
        BY <1>1
      <4> DEFINE c == at[k - 1].cursor
                 v == at[k - 1].next
                 n == from(k) - c
      <4>3. c \in Nat /\ v \in Nat /\ from(k) \in Nat
        <5>1. c \in Nat /\ v \in Nat
          BY <1>1, <4>2 DEF Laid, m
        <5>2. from(k) \in Nat
          BY <1>3
        <5> QED BY <5>1, <5>2
      <4>4. TextAt(pos, c, v, n)
        BY <1>1 DEF Laid, m, from, ImageFrom
      <4> HIDE DEF c, v
      <4>5. n \in Int /\ c + n = from(k)
        BY <4>3
      <4>6. q \in c..from(k) - 1
        BY <4>1 DEF c
      <4> HIDE DEF n
      <4> QED BY <2>3, <4>3, <4>4, <4>5, <4>6
    <3>2. CASE q >= at[m].cursor
      <4>1. m \in 0..m
        BY <1>1
      <4> DEFINE c == at[m].cursor
                 v == at[m].next
                 n == Len(ids) - c
      <4>2. c \in Nat /\ v \in Nat
        BY <1>1, <4>1 DEF Laid, m
      <4>3. TextAt(pos, c, v, n)
        BY <1>1 DEF Laid, m
      <4>4. q >= c
        BY <3>2
      <4> HIDE DEF c, v
      <4>5. n \in Int /\ q \in c..c + n - 1
        BY <1>1, <4>2, <4>4
      <4> HIDE DEF n
      <4> QED BY <2>3, <4>2, <4>3, <4>5
    <3> QED BY <2>2, <3>1, <3>2
  <2>5. TextToken(at, p, q)
    BY <1>6, <2>1, <2>4 DEF TextToken, m, M, pos, from, to
  <2> QED BY <2>5
<1>7. CASE \E k \in 1..m : q \in from(k)..to(k) - 1
  <2>1. PICK k \in 1..m : q \in from(k)..to(k) - 1
    BY <1>7
  <2> DEFINE covers(j) == M.spans[j].start <= q /\ q < M.spans[j].start + M.spans[j].length
             chosen == CHOOSE j \in DOMAIN M.spans : covers(j)
  <2>2. covers(k) /\ k \in DOMAIN M.spans
    BY <1>2, <1>5, <2>1
  <2>3. chosen \in 1..m /\ covers(chosen)
    <3> HIDE DEF covers
    <3> QED BY <1>2, <2>2
  <2>4. chosen = k
    <3>1. q \in from(chosen)..to(chosen) - 1
      <4> HIDE DEF chosen
      <4> QED BY <1>5, <2>3
    <3> HIDE DEF chosen
    <3> QED BY <1>4, <2>1, <2>3, <3>1
  <2>5. p[q + 1].mm = <<M.spans[chosen].key, q - M.spans[chosen].start>>
    <3>1. \E j \in DOMAIN M.spans : covers(j)
      BY <2>2
    <3> QED BY <1>1, <3>1 DEF VisualIdentityAt
  <2>6. p[q + 1].mm = <<images[k].key, q - from(k)>>
    <3> HIDE DEF chosen
    <3> QED BY <1>2, <2>4, <2>5
  <2>7. <<images[k].key, q - from(k)>> \in Visual
    <3>1. images[k] \in Images /\ q - from(k) \in 0..TokenCount(images[k]) - 1
      <4>1. images[k] \in Images
        BY PromptFacts DEF m
      <4>2. from(k) \in Nat /\ to(k) = from(k) + TokenCount(images[k])
            /\ TokenCount(images[k]) \in Nat
        BY <1>3
      <4> QED BY <2>1, <4>1, <4>2
    <3> QED BY <3>1, PromptsAssumption
  <2>8. ImageToken(at, p, q, k)
    BY <2>1, <2>6, <2>7, PoolAssumption DEF ImageToken, from, to
  <2> QED BY <2>8 DEF m
<1> QED BY <1>6, <1>7

-----------------------------------------------------------------------------
(* What clients submitted is kept: a request starts with its prompt, and   *)
(* the tokens it has generated have no visual identity.                    *)
Kept(s) ==
    /\ nprompt[s] \in Nat /\ nprompt[s] <= NumTokens(s) /\ Prompt(s) \in Prompts
    /\ \A j \in nprompt[s] + 1..NumTokens(s) : tokens[s][j].mm = NoVisual
PromptsKept == \A s \in SeqId : Live(s) => Kept(s)

LEMMA KeptPrompt ==
    ASSUME NEW s \in SeqId, tokens[s] \in Seq(Token), Kept(s)
    PROVE  /\ NumTokens(s) \in Nat /\ nprompt[s] \in Nat /\ nprompt[s] <= NumTokens(s)
           /\ Prompt(s) \in Prompts /\ Len(Prompt(s)) = nprompt[s]
           /\ \A q \in 0..nprompt[s] - 1 : tokens[s][q + 1] = Prompt(s)[q + 1]
           /\ \A q \in nprompt[s]..NumTokens(s) - 1 : tokens[s][q + 1].mm = NoVisual
<1>1. /\ NumTokens(s) \in Nat /\ nprompt[s] \in Nat /\ nprompt[s] <= NumTokens(s)
      /\ Prompt(s) \in Prompts
  BY DEF Kept, NumTokens
<1> DEFINE n == nprompt[s]
           L == NumTokens(s)
<1>2. Len(Prompt(s)) = n /\ \A q \in 1..n : Prompt(s)[q] = tokens[s][q]
  <2>1. Len(tokens[s]) = L
    BY DEF NumTokens
  <2> QED BY <1>1, <2>1 DEF Prompt
<1>3. \A q \in 0..n - 1 : q + 1 \in 1..n
  BY <1>1
<1>4. \A q \in n..L - 1 : q + 1 \in n + 1..L
  BY <1>1
<1>5. \A q \in n..L - 1 : tokens[s][q + 1].mm = NoVisual
  BY <1>4 DEF Kept
<1> QED BY <1>1, <1>2, <1>3, <1>5

(* The position of token q of s in its prompt, or as generated.            *)
PositionAt(s, q) ==
    IF q < nprompt[s] THEN MetadataOf[Prompt(s)].positions[q + 1]
    ELSE <<q + RopeDelta(s), q + RopeDelta(s), q + RopeDelta(s)>>
Positions3(s) == [ q \in 0..NumTokens(s) - 1 |-> PositionAt(s, q) ]

(* These are the positions M-RoPE defines, token after token.              *)
LEMMA PositionsPlaced ==
    ASSUME NEW s \in SeqId, tokens[s] \in Seq(Token), Kept(s),
           NEW q \in 0..NumTokens(s) - 1
    PROVE  PositionAt(s, q) = Placed(s, q, Positions3(s))
<1> DEFINE p == Prompt(s)
           n == nprompt[s]
           N == NumTokens(s)
           F == Positions3(s)
           M == MetadataOf[p]
           d == RopeDelta(s)
           images == ImagesOf[p]
           all == [ i \in 1..N |-> F[i - 1] ]
<1>1. /\ p \in Prompts /\ N \in Nat /\ n \in Nat /\ n <= N /\ Len(p) = n
      /\ \A i \in 0..n - 1 : tokens[s][i + 1] = p[i + 1]
      /\ \A i \in n..N - 1 : tokens[s][i + 1].mm = NoVisual
  BY KeptPrompt
<1>2. PICK at : PromptAt(at, p)
  BY <1>1, PromptFacts
<1>3. /\ Len(Ids(p)) = n /\ images \in Seq(Images) /\ Len(images) \in Nat
      /\ Laid(at, Ids(p), images, M.positions)
      /\ M.delta = at[Len(images)].next - at[Len(images)].cursor
  BY <1>1, <1>2, PromptFacts DEF PromptAt
<1>4. d = M.delta /\ F = [ i \in 0..N - 1 |-> PositionAt(s, i) ]
  BY DEF RopeDelta, Positions3
<1>5. d \in Int /\ n + d \in Nat /\ Reaches(M.positions, n, n + d)
  <2> DEFINE m == Len(images)
             v == at[m].next
             c == at[m].cursor
  <2>1. v \in Nat /\ c \in 0..n
    BY <1>3 DEF Laid
  <2>2. Reaches(M.positions, n, v + n - c)
    BY <1>3 DEF Laid
  <2> HIDE DEF M, v, c
  <2>3. d = v - c
    BY <1>3, <1>4 DEF v, c
  <2>4. n \in Nat
    BY <1>1
  <2> HIDE DEF d, n
  <2>5. d \in Int /\ n + d = v + n - c /\ v + n - c \in Nat
    BY <2>1, <2>3, <2>4
  <2> QED BY <2>2, <2>5
<1> HIDE DEF p, n, N, F, M, d, images
<1>6. /\ \A i \in 0..n - 1 : F[i] = M.positions[i + 1]
      /\ \A i \in n..N - 1 : F[i] = <<i + d, i + d, i + d>>
  <2>1. \A i \in 0..N - 1 : F[i] = PositionAt(s, i)
    BY <1>4
  <2>2. \A i \in 0..n - 1 : PositionAt(s, i) = M.positions[i + 1]
    BY <1>1 DEF PositionAt, M, p, n
  <2>3. \A i \in n..N - 1 : PositionAt(s, i) = <<i + d, i + d, i + d>>
    BY <1>1 DEF PositionAt, d, n
  <2>4. ASSUME NEW i \in 0..n - 1 PROVE F[i] = M.positions[i + 1]
    <3>1. i \in 0..N - 1
      BY <1>1
    <3> QED BY <2>1, <2>2, <3>1
  <2>5. ASSUME NEW i \in n..N - 1 PROVE F[i] = <<i + d, i + d, i + d>>
    <3>1. i \in 0..N - 1
      BY <1>1
    <3> QED BY <2>1, <2>3, <3>1
  <2> QED BY <2>4, <2>5
<1>7. (\A i \in 1..n : all[i] = M.positions[i]) /\ \A i \in 0..N - 1 : all[i + 1] = F[i]
  <2>1. \A i \in 1..n : i \in 1..N /\ i - 1 \in 0..n - 1 /\ i - 1 + 1 = i
    BY <1>1
  <2>2. \A i \in 0..N - 1 : i + 1 \in 1..N /\ i + 1 - 1 = i
    BY <1>1
  <2> QED BY <1>6, <2>1, <2>2
<1> HIDE DEF all
<1>8. ASSUME NEW i \in 0..N - 1, NEW v, Reaches(all, i, v) PROVE After(F, i) = v
  <2>1. \A j \in 0..i - 1 : F[j] = all[j + 1]
    <3> SUFFICES ASSUME NEW j \in 0..i - 1 PROVE j \in 0..N - 1
      BY <1>7
    <3> QED BY <1>1
  <2>2. i \in Nat
    BY <1>1
  <2> QED BY <1>8, <2>1, <2>2, ReachedAfter
<1>9. ASSUME NEW i \in 0..n, NEW v, Reaches(M.positions, i, v) PROVE Reaches(all, i, v)
  <2>1. \A j \in 1..i : j \in 1..n
    BY <1>1
  <2>2. i \in Nat
    BY <1>1
  <2> QED BY <1>7, <1>9, <2>1, <2>2, ReachesSame
<1>10. q \in 0..N - 1 /\ F[q] = PositionAt(s, q)
  BY <1>4 DEF N
<1>11. CASE q >= n
  <2>1. PICK j \in Nat : q = n + j /\ j <= N - n
    <3>1. q - n \in Nat /\ q = n + (q - n) /\ q - n <= N - n
      BY <1>1, <1>10, <1>11
    <3> QED BY <3>1
  <2>2. Reaches(all, n, n + d)
    <3>1. n \in 0..n
      BY <1>1
    <3> QED BY <1>5, <1>9, <3>1
  <2>3. ASSUME NEW i \in 1..j
        PROVE  all[n + i] = <<n + d + i - 1, n + d + i - 1, n + d + i - 1>>
    <3>1. n + i - 1 \in n..N - 1 /\ n + i - 1 \in 0..N - 1 /\ n + i - 1 + 1 = n + i
          /\ n + i - 1 + d = n + d + i - 1
      BY <1>1, <1>5, <1>10, <2>1
    <3>2. F[n + i - 1] = <<n + i - 1 + d, n + i - 1 + d, n + i - 1 + d>>
      BY <1>6, <3>1
    <3>3. all[n + i - 1 + 1] = F[n + i - 1]
      BY <1>7, <3>1
    <3> QED BY <3>1, <3>2, <3>3
  <2>4. Reaches(all, n + j, n + d + j)
    BY <1>1, <2>2, <2>3, ReachesText
  <2>5. After(F, q) = q + d
    <3>1. n + d + j = q + d
      BY <1>1, <1>5, <2>1
    <3> QED BY <1>8, <1>10, <2>1, <2>4, <3>1
  <2>6. F[q] = <<q + d, q + d, q + d>> /\ TokenOf(s, q).mm = NoVisual
    <3>1. q \in n..N - 1
      BY <1>1, <1>10, <1>11
    <3> QED BY <1>1, <1>6, <3>1 DEF TokenOf
  <2> QED BY <1>10, <2>5, <2>6 DEF Placed, F
<1>12. CASE q < n
  <2>1. q \in 0..n - 1
    BY <1>1, <1>10, <1>12
  <2>2. TokenOf(s, q) = p[q + 1] /\ F[q] = M.positions[q + 1]
    BY <1>1, <1>6, <2>1 DEF TokenOf
  <2>3. CASE TextToken(at, p, q)
    <3>1. PICK v \in Nat : Reaches(M.positions, q, v) /\ M.positions[q + 1] = <<v, v, v>>
      BY <2>3 DEF TextToken, M
    <3>2. After(F, q) = v
      <4>1. q \in 0..n
        BY <1>1, <2>1
      <4> QED BY <1>8, <1>9, <1>10, <3>1, <4>1
    <3>3. TokenOf(s, q).mm = NoVisual
      BY <2>2, <2>3 DEF TextToken
    <3> QED BY <1>10, <2>2, <3>1, <3>2, <3>3 DEF Placed, F
  <2>4. ASSUME NEW k \in 1..Len(images), ImageToken(at, p, q, k)
        PROVE  PositionAt(s, q) = Placed(s, q, F)
    <3> DEFINE g == images[k]
               from == ImageFrom(at, p, k)
               x == at[k - 1]
               v == x.next + from - x.cursor
               i == q - from
    <3>3. from \in Nat /\ TokenCount(g) \in Nat \ {0} /\ from + TokenCount(g) <= n
      <4>1. /\ from \in Nat /\ TokenCount(g) \in Nat \ {0} /\ ImageTo(at, p, k) <= Len(p)
        BY <1>1, <1>2, PromptImages DEF images
      <4>2. ImageTo(at, p, k) = from + TokenCount(g)
        BY DEF ImageTo, images
      <4> QED BY <1>1, <4>1, <4>2
    <3>1. /\ q \in from..from + TokenCount(g) - 1
          /\ TokenOf(s, q).mm = <<g.key, i>> /\ TokenOf(s, q).mm # NoVisual
      <4> DEFINE t == p[q + 1]
      <4>1. /\ q \in from..ImageTo(at, p, k) - 1
            /\ t.mm = <<g.key, i>> /\ t.mm # NoVisual
        BY <2>4 DEF ImageToken, images
      <4>2. ImageTo(at, p, k) = from + TokenCount(g)
        BY DEF ImageTo, images
      <4>3. TokenOf(s, q) = t
        BY <2>2
      <4> HIDE DEF from, g, i, t, v
      <4>4. q \in from..from + TokenCount(g) - 1
        BY <3>3, <4>1, <4>2
      <4>5. TokenOf(s, q).mm = <<g.key, i>> /\ TokenOf(s, q).mm # NoVisual
        BY <4>1, <4>3, Zenon
      <4> QED BY <4>4, <4>5
    <3>2. ImageLaid(M.positions, from, v, g)
      BY <1>3 DEF Laid, ImageFrom, images
    <3>4. ImageAt(s, TokenOf(s, q).mm) = g
      <4>1. g \in Range(images)
        BY <1>3 DEF Range
      <4>2. \A h \in Range(images) : h \in Images
        BY <1>3 DEF Range
      <4>3. \A h \in Range(images) : h.key = g.key => h = g
        BY <4>1, <4>2, PromptsAssumption
      <4>4. TokenOf(s, q).mm[1] = g.key
        BY <3>1
      <4>5. ImageAt(s, TokenOf(s, q).mm) = CHOOSE h \in Range(images) : h.key = g.key
        BY <4>4 DEF ImageAt, images, p
      <4> HIDE DEF g
      <4> QED BY <4>1, <4>3, <4>5
    <3> HIDE DEF g, from, v, x
    <3>5. i \in 0..TokenCount(g) - 1 /\ i + 1 \in 1..TokenCount(g) /\ from + (i + 1) = q + 1
          /\ q - i = from /\ i + 1 - 1 = i
      <4>1. q \in Int /\ from \in Int /\ TokenCount(g) \in Int
        BY <3>1, <3>3
      <4>2. q \in from..from + TokenCount(g) - 1
        BY <3>1
      <4>3. i = q - from
        BY <1>10
      <4> QED BY <4>1, <4>2, <4>3
    <3> HIDE DEF i
    <3>6. After(F, q - TokenOf(s, q).mm[2]) = v
      <4>1. TokenOf(s, q).mm[2] = i
        BY <3>1
      <4>2. Reaches(M.positions, from, v)
        BY <3>2 DEF ImageLaid
      <4>3. from \in 0..n /\ from \in 0..N - 1
        BY <1>1, <3>3
      <4> QED BY <1>8, <1>9, <3>5, <4>1, <4>2, <4>3
    <3>7. M.positions[q + 1] = GridPositions(v, g)[i + 1]
      BY <3>2, <3>5 DEF ImageLaid
    <3>8. GridPositions(v, g)[i + 1] =
            <<v + FrameTime(i \div (Height(g) * Width(g))),
              v + (i % (Height(g) * Width(g))) \div Width(g),
              v + ((i % (Height(g) * Width(g))) % Width(g))>>
      BY <3>5 DEF GridPositions
    <3>9. Placed(s, q, F) = 
            <<v + FrameTime(i \div (Height(g) * Width(g))),
              v + (i % (Height(g) * Width(g))) \div Width(g),
              v + ((i % (Height(g) * Width(g))) % Width(g))>>
      <4>1. TokenOf(s, q).mm[2] = i
        BY <3>1
      <4> QED BY <3>1, <3>4, <3>6, <4>1 DEF Placed
    <3> QED BY <1>10, <2>2, <3>7, <3>8, <3>9
  <2> QED BY <1>1, <1>2, <2>1, <2>3, <2>4, PromptToken DEF F, images
<1> QED BY <1>1, <1>10, <1>11, <1>12 DEF F

(* The recursion has one solution.                                         *)
LEMMA ReferenceIs ==
    ASSUME NEW s \in SeqId, tokens[s] \in Seq(Token), Kept(s)
    PROVE  Reference(s) = Positions3(s)
<1> DEFINE N == NumTokens(s)
           F == Positions3(s)
           Pos == CHOOSE f : f = [ q \in 0..N - 1 |-> Placed(s, q, f) ]
<1>1. N \in Nat
  BY KeptPrompt
<1>2. F = [ q \in 0..N - 1 |-> Placed(s, q, F) ]
  <2>1. F = [ q \in 0..N - 1 |-> PositionAt(s, q) ]
    BY DEF Positions3
  <2>2. \A q \in 0..N - 1 : PositionAt(s, q) = Placed(s, q, F)
    BY PositionsPlaced
  <2> HIDE DEF F
  <2> QED BY <2>1, <2>2
<1>3. Pos = [ q \in 0..N - 1 |-> Placed(s, q, Pos) ]
  <2> HIDE DEF F, N
  <2> QED BY <1>2
<1>4. Reference(s) = Pos
  BY DEF Reference
<1> HIDE DEF N, F, Pos
<1>5. /\ \A q \in 0..N - 1 : Pos[q] = Placed(s, q, Pos)
      /\ \A q \in 0..N - 1 : F[q] = Placed(s, q, F)
  BY <1>2, <1>3, Zenon
<1>6. ASSUME NEW q \in 0..N - 1, \A i \in 0..q - 1 : Pos[i] = F[i] PROVE Pos[q] = F[q]
  <2>1. \A n \in Int : n <= q => After(Pos, n) = After(F, n)
    <3> SUFFICES ASSUME NEW n \in Int, n <= q PROVE After(Pos, n) = After(F, n)
      OBVIOUS
    <3>1. \A i \in 0..n - 1 : Pos[i] = F[i]
      BY <1>1, <1>6
    <3>2. UNION { Axes(Pos[i]) : i \in 0..n - 1 } = UNION { Axes(F[i]) : i \in 0..n - 1 }
      BY <3>1
    <3> QED BY <3>2 DEF After
  <2>2. TokenOf(s, q).mm # NoVisual => q - TokenOf(s, q).mm[2] \in Int
                                       /\ q - TokenOf(s, q).mm[2] <= q
    <3> DEFINE p == Prompt(s)
    <3>1. /\ p \in Prompts /\ Len(p) = nprompt[s] /\ nprompt[s] \in Nat
          /\ \A i \in 0..nprompt[s] - 1 : tokens[s][i + 1] = p[i + 1]
          /\ \A i \in nprompt[s]..NumTokens(s) - 1 : tokens[s][i + 1].mm = NoVisual
      BY KeptPrompt
    <3> SUFFICES ASSUME TokenOf(s, q).mm # NoVisual
                 PROVE  q - TokenOf(s, q).mm[2] \in Int /\ q - TokenOf(s, q).mm[2] <= q
      OBVIOUS
    <3>2. q \in 0..nprompt[s] - 1
      BY <1>1, <3>1 DEF TokenOf, N
    <3>3. TokenOf(s, q) = p[q + 1]
      BY <3>1, <3>2 DEF TokenOf
    <3>4. PICK at : PromptAt(at, p)
      BY <3>1, PromptFacts
    <3>5. PICK k \in 1..Len(ImagesOf[p]) : ImageToken(at, p, q, k)
      <4>1. TextToken(at, p, q) \/ \E k \in 1..Len(ImagesOf[p]) : ImageToken(at, p, q, k)
        BY <3>1, <3>2, <3>4, PromptToken
      <4> QED BY <3>3, <4>1 DEF TextToken
    <3>6. ImageFrom(at, p, k) \in Nat
      BY <3>1, <3>4, PromptImages
    <3>7. TokenOf(s, q).mm[2] = q - ImageFrom(at, p, k) /\ ImageFrom(at, p, k) <= q
      BY <3>3, <3>5, <3>6 DEF ImageToken
    <3> DEFINE from == ImageFrom(at, p, k)
               x == TokenOf(s, q).mm[2]
    <3> HIDE DEF from, x
    <3>8. x = q - from /\ from \in Nat /\ from <= q
      BY <3>6, <3>7 DEF from, x
    <3>9. q - x \in Int /\ q - x <= q
      BY <1>1, <3>8
    <3> QED BY <3>9 DEF x
  <2>3. After(Pos, q) = After(F, q)
    BY <1>1, <2>1
  <2>4. TokenOf(s, q).mm # NoVisual =>
          After(Pos, q - TokenOf(s, q).mm[2]) = After(F, q - TokenOf(s, q).mm[2])
    BY <2>1, <2>2
  <2>5. Placed(s, q, Pos) = Placed(s, q, F)
    BY <2>3, <2>4 DEF Placed
  <2> QED BY <1>5, <2>5
<1> DEFINE S == { i \in 1..N : \A j \in 0..i - 1 : Pos[j] = F[j] }
<1>7. ASSUME N # 0 PROVE 1..N \subseteq S
  <2>1. 1 \in S
    <3>1. 0 \in 0..N - 1 /\ 1 \in 1..N
      BY <1>1, <1>7
    <3>2. Pos[0] = F[0]
      BY <1>6, <3>1
    <3> QED BY <3>1, <3>2
  <2>2. ASSUME NEW i \in 1..N - 1, i \in S PROVE i + 1 \in S
    <3>1. i \in 0..N - 1 /\ \A j \in 0..i - 1 : Pos[j] = F[j]
      BY <2>2
    <3>2. Pos[i] = F[i]
      BY <1>6, <3>1
    <3> QED BY <1>1, <3>1, <3>2
  <2> HIDE DEF S
  <2> QED BY <1>1, <2>1, <2>2, UpToInduction
<1>8. \A q \in 0..N - 1 : Pos[q] = F[q]
  <2> SUFFICES ASSUME NEW q \in 0..N - 1 PROVE Pos[q] = F[q]
    OBVIOUS
  <2>1. N # 0 /\ N \in 1..N /\ q \in 0..N - 1
    BY <1>1
  <2>2. N \in S
    BY <1>7, <2>1
  <2> QED BY <2>1, <2>2
<1> QED BY <1>2, <1>3, <1>4, <1>8 DEF F

(* How the tokens of a live request come about: submitted as a prompt,     *)
(* kept, or followed by a generated token.                                 *)
SubmittedNow(s) == \E p \in Prompts : tokens'[s] = p /\ nprompt'[s] = Len(p)
ExtendedNow(s)  ==
    /\ Live(s) /\ nprompt'[s] = nprompt[s] /\ NumTokens(s) + 1 - nprompt[s] # MaxTokens
    /\ \E t \in Sampled : tokens'[s] = Append(tokens[s], [id |-> t, mm |-> NoVisual])
SameTokens(s)   == Live(s) /\ tokens'[s] = tokens[s] /\ nprompt'[s] = nprompt[s]

LEMMA TokensMove ==
    ASSUME IInv, [Next]_vars, NEW s \in SeqId, Live(s)'
    PROVE  SameTokens(s) \/ ExtendedNow(s) \/ SubmittedNow(s)
<1>1. /\ EngineTypeOK /\ QueuesOK /\ BatchCovered
      /\ waiting \in Seq(SeqId) /\ running \in Seq(SeqId) /\ batch \in Seq(SeqId)
      /\ status \in [SeqId -> {"new", "waiting", "running"} \cup Finished]
      /\ nprompt \in [SeqId -> Nat] /\ tokens \in [SeqId -> Seq(Token)]
  BY IInvParts DEF EngineTypeOK, PoolTypeOK
<1>2. /\ \A r \in Range(waiting) \cup Range(running) : r \in SeqId => Live(r)
      /\ cur \in SeqId => Live(cur)
  BY <1>1 DEF QueuesOK, OnePlaceEach, LiveSet
<1>3. CASE \/ StartStep \/ EndPrefill \/ Execute \/ ExecuteRaises
           \/ DecodeHead \/ ScheduleDecode \/ EndDecode \/ UNCHANGED vars
  <2>1. tokens' = tokens /\ nprompt' = nprompt /\ status' = status
    BY <1>3 DEF StartStep, EndPrefill, Execute, ExecuteRaises, Run, RunRaises,
                DecodeHead, ScheduleDecode, EndDecode, vars, schedVars, bmVars, queueVars
  <2> QED BY <2>1 DEF SameTokens, Live
<1>4. CASE PreemptTail \/ PreemptSelf
  <2>1. PICK v \in SeqId : /\ Live(v) /\ status' = [status EXCEPT ![v] = "waiting"]
                           /\ tokens' = tokens /\ nprompt' = nprompt
    <3>1. CASE PreemptTail
      <4>1. Last(running) \in Range(running) /\ Last(running) \in SeqId
        BY <1>1, <3>1, EndFacts DEF PreemptTail
      <4> QED BY <1>2, <3>1, <4>1 DEF PreemptTail, Preempt
    <3>2. CASE PreemptSelf
      <4>1. cur \in SeqId
        BY <1>1, <3>2 DEF PreemptSelf, BatchCovered, EngineTypeOK
      <4> QED BY <1>2, <3>2, <4>1 DEF PreemptSelf, Preempt
    <3> QED BY <1>4, <3>1, <3>2
  <2>2. s # v => status'[s] = status[s]
    BY <1>1, <2>1
  <2> QED BY <2>1, <2>2 DEF SameTokens, Live
<1>5. CASE PrefillHead
  <2>1. /\ tokens' = tokens /\ nprompt' = nprompt
        /\ status' = status \/ status' = [status EXCEPT ![Head(waiting)] = "running"]
    BY <1>5 DEF PrefillHead
  <2>2. Head(waiting) \in Range(waiting) /\ Head(waiting) \in SeqId
    BY <1>1, <1>5, EndFacts DEF PrefillHead, CanPrefillHead
  <2>3. PICK h \in SeqId : h = Head(waiting) /\ Live(h)
    BY <1>2, <2>2
  <2>4. s # h => status'[s] = status[s]
    BY <1>1, <2>1, <2>3
  <2> QED BY <2>1, <2>3, <2>4 DEF SameTokens, Live
<1>6. CASE PostChunk
  BY <1>6 DEF PostChunk, SameTokens, Live
<1>7. ASSUME NEW t \in Sampled, PostToken(t) PROVE SameTokens(s) \/ ExtendedNow(s)
  <2>1. PICK h \in SeqId : h = Head(batch) /\ h \in Range(batch)
    BY <1>7, NextPostFacts DEF PostToken
  <2>2. /\ nprompt' = nprompt
        /\ tokens' = [tokens EXCEPT ![h] = Append(@, [id |-> t, mm |-> NoVisual])]
        /\ IF Reason(h, t) = "none" THEN status' = status
           ELSE status' = [status EXCEPT ![h] = Reason(h, t)]
    BY <1>7, <2>1 DEF PostToken
  <2>3. Live(h)
    BY <1>1, <1>2, <1>7, <2>1 DEF PostToken, BatchCovered, RunPhases
  <2>4. CASE s = h
    <3>1. Reason(h, t) = "none"
      <4>1. Reason(h, t) \in {"stop", "length", "none"}
        BY DEF Reason
      <4> QED BY <1>1, <2>2, <2>4, <4>1 DEF Live
    <3>2. NumTokens(h) + 1 - nprompt[h] # MaxTokens
      BY <3>1 DEF Reason
    <3> QED BY <1>1, <2>2, <2>3, <2>4, <3>2 DEF ExtendedNow
  <2>5. CASE s # h
    <3>1. tokens'[s] = tokens[s] /\ status'[s] = status[s]
      BY <1>1, <2>2, <2>5
    <3> QED BY <2>2, <3>1 DEF SameTokens, Live
  <2> QED BY <2>4, <2>5
<1>8. ASSUME NEW r \in SeqId, Abort(r) PROVE SameTokens(s)
  <2>1. /\ tokens' = tokens /\ nprompt' = nprompt /\ Live(r)
        /\ status' = [status EXCEPT ![r] = "abort"]
    BY <1>8 DEF Abort, Cancel
  <2>2. s # r => status'[s] = status[s]
    BY <1>1, <2>1
  <2> QED BY <2>1, <2>2 DEF SameTokens, Live
<1>9. ASSUME NEW r \in SeqId, NEW p \in Prompts, Add(r, p)
      PROVE  SameTokens(s) \/ SubmittedNow(s)
  <2>1. /\ tokens' = [tokens EXCEPT ![r] = p] /\ nprompt' = [nprompt EXCEPT ![r] = Len(p)]
        /\ status' = [status EXCEPT ![r] = "waiting"]
    BY <1>9 DEF Add
  <2>2. CASE s = r
    BY <1>1, <2>1, <2>2 DEF SubmittedNow
  <2>3. CASE s # r
    <3>1. tokens'[s] = tokens[s] /\ nprompt'[s] = nprompt[s] /\ status'[s] = status[s]
      BY <1>1, <2>1, <2>3
    <3> QED BY <3>1 DEF SameTokens, Live
  <2> QED BY <2>2, <2>3
<1> QED BY <1>3, <1>4, <1>5, <1>6, <1>7, <1>8, <1>9 DEF Next, EngineStep

(* A prompt stays what was submitted, whatever becomes of its request.     *)
LEMMA NextKept ==
    ASSUME IInv, IInv', PromptsKept, [Next]_vars
    PROVE  PromptsKept'
<1> SUFFICES ASSUME NEW s \in SeqId, Live(s)' PROVE Kept(s)'
  BY DEF PromptsKept
<1>1. /\ tokens[s] \in Seq(Token) /\ NumTokens(s) \in Nat /\ Len(tokens[s]) = NumTokens(s)
  BY IInvParts DEF NumTokens
<1>2. CASE SameTokens(s)
  BY <1>2 DEF SameTokens, PromptsKept, Kept, NumTokens, Prompt
<1>3. CASE ExtendedNow(s)
  <2>1. PICK t \in Sampled : tokens'[s] = Append(tokens[s], [id |-> t, mm |-> NoVisual])
    BY <1>3 DEF ExtendedNow
  <2>2. Kept(s) /\ nprompt'[s] = nprompt[s]
    BY <1>3 DEF ExtendedNow, PromptsKept
  <2>3. /\ NumTokens(s)' = NumTokens(s) + 1
        /\ \A j \in 1..NumTokens(s) : tokens'[s][j] = tokens[s][j]
        /\ tokens'[s][NumTokens(s) + 1].mm = NoVisual
    BY <1>1, <2>1 DEF NumTokens
  <2>4. nprompt[s] \in Nat /\ nprompt[s] <= NumTokens(s)
    BY <2>2 DEF Kept
  <2>5. Prompt(s)' = Prompt(s)
    <3>1. \A j \in 1..nprompt[s] : j \in 1..NumTokens(s)
      BY <1>1, <2>4
    <3>2. /\ Prompt(s) = [ j \in 1..nprompt[s] |-> tokens[s][j] ]
          /\ Prompt(s)' = [ j \in 1..nprompt[s] |-> tokens'[s][j] ]
      BY <1>1, <2>2, <2>4 DEF Prompt
    <3> QED BY <2>3, <3>1, <3>2
  <2>6. ASSUME NEW j \in nprompt[s] + 1..NumTokens(s) + 1 PROVE tokens'[s][j].mm = NoVisual
    <3>1. \/ j \in nprompt[s] + 1..NumTokens(s) /\ j \in 1..NumTokens(s)
          \/ j = NumTokens(s) + 1
      BY <1>1, <2>4
    <3> QED BY <2>2, <2>3, <3>1 DEF Kept
  <2>7. nprompt[s] <= NumTokens(s) + 1
    BY <1>1, <2>4
  <2> QED BY <2>2, <2>3, <2>4, <2>5, <2>6, <2>7 DEF Kept
<1>4. CASE SubmittedNow(s)
  <2>1. PICK p \in Prompts : tokens'[s] = p /\ nprompt'[s] = Len(p)
    BY <1>4 DEF SubmittedNow
  <2>2. p \in Seq(Token) /\ Len(p) \in Nat
    BY SchedulerAssumption
  <2>3. SubSeq(p, 1, Len(p)) = p
    BY <2>2
  <2>4. NumTokens(s)' = Len(p) /\ Prompt(s)' = p /\ Len(p) + 1..Len(p) = {}
    BY <2>1, <2>2, <2>3 DEF NumTokens, Prompt
  <2> QED BY <2>1, <2>2, <2>4 DEF Kept
<1> QED BY <1>2, <1>3, <1>4, TokensMove

LEMMA InitKept == Init => PromptsKept
  BY DEF Init, InitScheduler, PromptsKept, Live

(* What runs has generated a token, unless its prompt is being computed or *)
(* its run raised: such a request is not in the batch before one of them   *)
(* is decoded.                                                             *)
Generated(s) == nprompt[s] < NumTokens(s)
BeingPrefilled(s) == phase \in PrefillPhases /\ s \in Range(batch)
DecodesGenerated ==
    /\ interrupted \cap Range(batch) = {}
    /\ \A s \in SeqId : s \in Active =>
          s \in interrupted \/ Generated(s) \/ BeingPrefilled(s)

(* A prompt that has been computed has its first token appended before its *)
(* request is decoded.                                                     *)
LEMMA NextGenerated ==
    ASSUME IInv, IInv', StatusOK', CacheInv, PromptsKept, DecodesGenerated, ~ resumed',
           [Next]_vars
    PROVE  DecodesGenerated'
<1>1. /\ EngineTypeOK /\ QueuesOK /\ BatchCovered /\ NoSeq \notin SeqId
      /\ waiting \in Seq(SeqId) /\ running \in Seq(SeqId) /\ batch \in Seq(SeqId)
      /\ Range(<< >>) = {} /\ nprompt \in [SeqId -> Nat] /\ tokens \in [SeqId -> Seq(Token)]
  BY IInvParts, SchedulerAssumption DEF Range, EngineTypeOK, PoolTypeOK
<1>2. \A s \in SeqId : s \in Active => Live(s)
  <2>1. Scheduled = batch \/ Scheduled = << >>
    BY DEF Scheduled
  <2> QED BY <1>1 DEF Active, QueuesOK, OnePlaceEach, LiveSet
<1>12. \/ UNCHANGED vars
       \/ ExecuteRaises /\ Remember(Range(batch)) /\ batch' = << >>
       \/ ~ ExecuteRaises /\ Remember({})
  BY DEF Next, EngineStep, Execute, ExecuteRaises, RunRaises, CacheKept
<1>13. interrupted' \cap Range(batch') = {}
  <2>1. CASE UNCHANGED vars
    BY <2>1 DEF vars, schedVars, stepVars, DecodesGenerated
  <2>2. CASE ExecuteRaises /\ Remember(Range(batch)) /\ batch' = << >>
    BY <1>1, <2>2
  <2>3. CASE Remember({})
    BY <2>3, NoneResumed DEF Remember
  <2> QED BY <1>12, <2>1, <2>2, <2>3
<1> SUFFICES ASSUME NEW s \in SeqId, s \in Active', s \notin interrupted'
             PROVE  (Generated(s) \/ BeingPrefilled(s))'
  BY <1>13 DEF DecodesGenerated
<1>14. s \notin interrupted
  <2>1. status'[s] = "running"
    BY DEF StatusOK
  <2> QED BY <1>12, <2>1 DEF Remember, vars
<1>3. tokens'[s] = tokens[s] /\ nprompt'[s] = nprompt[s] => (Generated(s)' <=> Generated(s))
  BY DEF Generated, NumTokens
<1>4. s \in Active => Generated(s) \/ BeingPrefilled(s)
  BY <1>14 DEF DecodesGenerated
<1>5. CASE StartStep \/ EndPrefill \/ Execute \/ UNCHANGED vars
  <2>1. /\ running' = running /\ cur' = cur /\ tokens' = tokens /\ nprompt' = nprompt
        /\ Scheduled' = << >> \/ Scheduled' = Scheduled
    BY <1>5 DEF StartStep, EndPrefill, Execute, Run, bmVars, queueVars, vars, schedVars,
                stepVars, Scheduled
  <2>2. s \in Active
    BY <1>1, <2>1 DEF Active
  <2>3. BeingPrefilled(s) => BeingPrefilled(s)'
    <3>1. CASE StartStep
      BY <3>1 DEF StartStep, BeingPrefilled, PrefillPhases
    <3>2. CASE EndPrefill
      BY <1>1, <3>2 DEF EndPrefill, BeingPrefilled, PrefillPhases
    <3>3. CASE Execute
      BY <3>3 DEF Execute, Run, BeingPrefilled, PrefillPhases
    <3>4. CASE UNCHANGED vars
      BY <3>4 DEF vars, schedVars, stepVars, BeingPrefilled
    <3> QED BY <1>5, <3>1, <3>2, <3>3, <3>4
  <2> QED BY <1>3, <1>4, <2>1, <2>2, <2>3
<1>6. CASE ExecuteRaises
  <2>1. /\ running' = running /\ cur' = cur /\ tokens' = tokens /\ nprompt' = nprompt
        /\ Scheduled' = << >>
    BY <1>6 DEF ExecuteRaises, RunRaises, queueVars, bmVars, Scheduled
  <2>2. s \in Active
    BY <1>1, <2>1 DEF Active
  <2>3. ~ BeingPrefilled(s)
    <3>1. status'[s] = "running"
      BY DEF StatusOK
    <3>2. s \notin Range(batch)
      BY <1>6, <3>1 DEF ExecuteRaises, Remember
    <3> QED BY <3>2 DEF BeingPrefilled
  <2> QED BY <1>3, <1>4, <2>1, <2>2, <2>3
<1>7. CASE DecodeHead \/ ScheduleDecode \/ EndDecode \/ PreemptTail \/ PreemptSelf
  <2>1. /\ phase \in {"decode", "append"} /\ tokens' = tokens /\ nprompt' = nprompt
    BY <1>7 DEF DecodeHead, ScheduleDecode, EndDecode, PreemptTail, PreemptSelf, Preempt, bmVars
  <2>2. ~ BeingPrefilled(s)
    BY <2>1 DEF BeingPrefilled, PrefillPhases
  <2>3. s \in Active
    <3>1. CASE DecodeHead
      <4>1. /\ running # << >> /\ cur' = Head(running) /\ running' = Tail(running)
            /\ Scheduled' = Scheduled
        BY <3>1 DEF DecodeHead, CanDecodeMore, Scheduled
      <4>2. Head(running) \in Range(running) /\ Range(running) = Range(Tail(running)) \cup {Head(running)}
        BY <1>1, <4>1, EndFacts
      <4> QED BY <4>1, <4>2 DEF Active
    <3>2. CASE ScheduleDecode
      <4>1. /\ running' = running /\ cur' = NoSeq /\ cur \in SeqId
            /\ Scheduled' = Append(batch, cur) /\ Scheduled = batch
        BY <1>1, <3>2 DEF ScheduleDecode, RunningAfterSlot, Scheduled, BatchCovered, EngineTypeOK
      <4>2. Range(Append(batch, cur)) = Range(batch) \cup {cur}
        BY <1>1, <4>1, PushBack
      <4> QED BY <1>1, <4>1, <4>2 DEF Active
    <3>3. CASE EndDecode
      <4>1. /\ running' = batch \o running /\ cur' = cur
            /\ Scheduled' = << >> /\ Scheduled = batch
        BY <3>3 DEF EndDecode, BackToRunning, Scheduled
      <4>2. Range(batch \o running) = Range(batch) \cup Range(running)
        BY <1>1, ConcatFacts
      <4> QED BY <1>1, <4>1, <4>2 DEF Active
    <3>4. CASE PreemptTail
      <4>1. /\ running # << >> /\ running' = Front(running) /\ cur' = cur
            /\ Scheduled' = Scheduled
        BY <3>4 DEF PreemptTail, stepVars, Scheduled
      <4>2. Range(Front(running)) = Range(running) \ {Last(running)}
        BY <1>1, <4>1, EndFacts DEF QueuesOK, OnePlaceEach
      <4> QED BY <4>1, <4>2 DEF Active
    <3>5. CASE PreemptSelf
      <4>1. running' = running /\ cur' = NoSeq /\ Scheduled' = Scheduled
        BY <3>5 DEF PreemptSelf, Scheduled
      <4> QED BY <1>1, <4>1 DEF Active
    <3> QED BY <1>7, <3>1, <3>2, <3>3, <3>4, <3>5
  <2> QED BY <1>3, <1>4, <2>1, <2>2, <2>3
<1>8. CASE PrefillHead
  <2>1. PICK h \in SeqId :
          /\ phase = "prefill" /\ phase' = "prefill" /\ cur' = NoSeq /\ tokens' = tokens
          /\ Range(batch') = Range(batch) \cup {h}
          /\ running' = running \/ Range(running') = Range(running) \cup {h}
    BY <1>8, PrefillFacts
  <2>2. nprompt' = nprompt /\ Scheduled' = << >>
    BY <1>8, <2>1 DEF PrefillHead, Scheduled
  <2>3. s = h => BeingPrefilled(s)'
    BY <2>1 DEF BeingPrefilled, PrefillPhases
  <2>4. s # h => s \in Active
    BY <1>1, <2>1, <2>2 DEF Active
  <2>5. BeingPrefilled(s) => BeingPrefilled(s)'
    BY <2>1 DEF BeingPrefilled
  <2> QED BY <1>3, <1>4, <2>1, <2>2, <2>3, <2>4, <2>5
<1>9. CASE PostChunk \/ \E t \in Sampled : PostToken(t)
  <2>1. PICK h \in SeqId :
          /\ h = Head(batch) /\ h \in Range(batch) /\ Range(batch') = Range(batch) \ {h}
          /\ phase \in {"postPrefill", "postDecode"}
          /\ phase' \in {phase, "idle"} /\ (phase' = "idle" => Range(batch') = {})
    BY <1>9, PostFacts
  <2>2. cur' = cur /\ Scheduled = << >> /\ Scheduled' = << >>
    BY <1>9, NextPostFacts DEF PostChunk, PostToken
  <2>3. running' = running \/ \E r : running' = Without(running, r)
    BY <1>9 DEF PostChunk, PostToken
  <2>4. s \in Active
    <3>1. \A r : Range(Without(running, r)) = Range(running) \ {r}
      BY <1>1, WithoutProperties
    <3>2. Range(running') \subseteq Range(running)
      BY <2>3, <3>1
    <3> QED BY <2>2, <3>2 DEF Active
  <2>5. s # h /\ BeingPrefilled(s) => BeingPrefilled(s)'
    BY <2>1 DEF BeingPrefilled
  <2>6. s # h => tokens'[s] = tokens[s] /\ nprompt'[s] = nprompt[s]
    BY <1>1, <1>9, <2>1 DEF PostChunk, PostToken
  <2>7. CASE s # h
    BY <1>3, <1>4, <2>1, <2>4, <2>5, <2>6, <2>7
  <2>8. CASE s = h /\ PostChunk
    <3>1. phase = "postPrefill" /\ ncached[s] + nsched[s] < NumTokens(s)
      BY <2>1, <2>8 DEF PostChunk, PromptIncomplete
    <3>2. s \notin Range(running)
      <4>1. s \in Range(running) => ncached[s] + nsched[s] = NumTokens(s)
        BY <2>1, <2>8, <3>1 DEF CacheInv, Progress, PrefillPhases
      <4>2. ncached[s] + nsched[s] \in Nat /\ NumTokens(s) \in Nat
        BY IInvParts
      <4> QED BY <3>1, <4>1, <4>2
    <3>3. cur = NoSeq
      BY <1>1, <3>1 DEF BatchCovered
    <3> QED BY <1>1, <2>2, <2>4, <3>2, <3>3 DEF Active
  <2>9. ASSUME NEW t \in Sampled, PostToken(t), s = h PROVE Generated(s)'
    <3>1. tokens'[s] = Append(tokens[s], [id |-> t, mm |-> NoVisual]) /\ nprompt'[s] = nprompt[s]
      BY <1>1, <2>1, <2>9 DEF PostToken
    <3>2. NumTokens(s)' = NumTokens(s) + 1 /\ NumTokens(s) \in Nat
      BY <1>1, <3>1 DEF NumTokens
    <3>3. nprompt[s] \in Nat /\ nprompt[s] <= NumTokens(s)
      BY <1>2, <2>4 DEF PromptsKept, Kept
    <3> QED BY <3>1, <3>2, <3>3 DEF Generated
  <2> QED BY <1>9, <2>7, <2>8, <2>9
<1>10. ASSUME NEW r \in SeqId, Abort(r) PROVE Generated(s)'
  <2>1. /\ Cancel(r) /\ UNCHANGED stepVars /\ phase = "idle"
        /\ tokens' = tokens /\ nprompt' = nprompt
    BY <1>10 DEF Abort, Cancel
  <2>2. /\ running' = (IF r \in Range(waiting) THEN running ELSE Without(running, r))
        /\ cur' = cur /\ Scheduled' = << >> /\ phase' = phase
    BY <2>1 DEF Cancel, stepVars, Scheduled
  <2>3. Range(running') \subseteq Range(running)
    BY <1>1, <2>2, WithoutProperties
  <2>4. s \in Active /\ ~ BeingPrefilled(s)
    BY <1>1, <2>1, <2>2, <2>3 DEF Active, BeingPrefilled, PrefillPhases
  <2> QED BY <1>3, <1>4, <2>1, <2>2, <2>4
<1>11. ASSUME NEW r \in SeqId, NEW p \in Prompts, Add(r, p) PROVE Generated(s)'
  <2>1. /\ status[r] = "new" /\ running' = running /\ cur' = cur /\ Scheduled' = Scheduled
        /\ phase = "idle" /\ tokens' = [tokens EXCEPT ![r] = p]
        /\ nprompt' = [nprompt EXCEPT ![r] = Len(p)]
    BY <1>11 DEF Add, stepVars, Scheduled
  <2>2. s \in Active /\ s # r
    <3>1. s \in Active
      BY <2>1 DEF Active
    <3> QED BY <1>2, <2>1, <3>1 DEF Live
  <2>3. tokens'[s] = tokens[s] /\ nprompt'[s] = nprompt[s] /\ ~ BeingPrefilled(s)
    BY <1>1, <2>1, <2>2 DEF BeingPrefilled, PrefillPhases
  <2> QED BY <1>3, <1>4, <2>1, <2>2, <2>3
<1> QED BY <1>5, <1>6, <1>7, <1>8, <1>9, <1>10, <1>11 DEF Next, EngineStep

LEMMA InitGenerated == Init => DecodesGenerated
<1> SUFFICES ASSUME Init PROVE DecodesGenerated
  OBVIOUS
<1>1. /\ running = << >> /\ Scheduled = << >> /\ cur = NoSeq /\ Range(<< >>) = {}
      /\ interrupted = {}
  BY DEF Init, InitScheduler, Scheduled, Range
<1> QED BY <1>1, SchedulerAssumption DEF DecodesGenerated, Active

-----------------------------------------------------------------------------
(* Rows of a prefill, packed request by request: whatever has one element  *)
(* per scheduled token finds it at the token's row.                        *)
LEMMA Packed ==
    ASSUME IInv, NEW T, NEW ws \in Seq(Seq(T)), Len(ws) = Len(batch),
           \A i \in 1..Len(batch) : Len(ws[i]) = nsched[batch[i]]
    PROVE  /\ SE!FlattenSeq(ws) \in Seq(T) /\ Len(SE!FlattenSeq(ws)) = RowCount
           /\ \A i \in 1..Len(batch) : \A o \in 1..nsched[batch[i]] :
                /\ RowStart(i) \in Nat /\ RowStart(i) + o \in 1..RowCount
                /\ SE!FlattenSeq(ws)[RowStart(i) + o] = ws[i][o]
<1> DEFINE n == Len(batch)
           off == [ i \in 1..n + 1 |-> Before(nsched, batch, i) ]
           x == SE!FlattenSeq(ws)
<1>1. n \in Nat
  BY IInvParts
<1> HIDE DEF n
<1>2. Offsets(off, ws)
  <2>1. Len(ws) = n /\ \A i \in 1..Len(ws) : nsched[batch[i]] = Len(ws[i])
    BY DEF n
  <2> QED BY <2>1, TotalIsOffset
<1>3. \A i \in 1..n + 1 : off[i] = RowStart(i)
  BY DEF Before, RowStart
<1>4. off[n + 1] = RowCount
  BY <1>1, <1>3 DEF RowCount, n
<1> HIDE DEF off
<1>5. JoinOf(x, ws, off, T)
  BY <1>2, FlattenFacts
<1> HIDE DEF x
<1>6. x \in Seq(T) /\ Len(x) = RowCount
  BY <1>4, <1>5 DEF JoinOf, n
<1>7. ASSUME NEW i \in 1..n, NEW o \in 1..nsched[batch[i]]
      PROVE  RowStart(i) \in Nat /\ RowStart(i) + o \in 1..RowCount /\ x[RowStart(i) + o] = ws[i][o]
  <2>1. i \in 1..Len(ws) /\ o \in 1..Len(ws[i]) /\ i \in 1..n + 1
    BY <1>1 DEF n
  <2>2. off[i] + o \in 1..Len(x) /\ x[off[i] + o] = ws[i][o]
    BY <1>5, <2>1 DEF JoinOf
  <2>3. off[i] \in Nat
    <3>1. off \in [1..n + 1 -> Nat]
      BY <1>2 DEF Offsets, n
    <3> QED BY <2>1, <3>1
  <2> QED BY <1>3, <1>6, <2>1, <2>2, <2>3
<1> QED BY <1>6, <1>7 DEF x, n

(* The position rows of one request: from its prompt, then as generated.   *)
LEMMA PositionsOfFacts ==
    ASSUME NEW s \in SeqId, tokens[s] \in Seq(Token), Kept(s), ncached[s] \in Nat,
           nsched[s] \in Nat, End(s) <= NumTokens(s),
           NEW T, \A q \in Nat : PositionAt(s, q) \in T
    PROVE  /\ PositionsOf(s) \in Seq(T) /\ Len(PositionsOf(s)) = nsched[s]
           /\ \A o \in 1..nsched[s] : PositionsOf(s)[o] = PositionAt(s, Start(s) + o - 1)
<1> DEFINE p == Prompt(s)
           n == nprompt[s]
           pos == MetadataOf[p].positions
           d == RopeDelta(s)
           S == Start(s)
           E == End(s)
<1>1. /\ p \in Prompts /\ n \in Nat /\ Len(p) = n /\ S \in Nat /\ E \in Nat /\ E = S + nsched[s]
      /\ nsched[s] \in Nat
  BY KeptPrompt DEF Start, End
<1>2. PICK at : PromptAt(at, p)
  BY <1>1, PromptFacts
<1>3. /\ Len(Ids(p)) = n /\ Len(ImagesOf[p]) \in Nat
      /\ Laid(at, Ids(p), ImagesOf[p], pos)
      /\ MetadataOf[p].delta = at[Len(ImagesOf[p])].next - at[Len(ImagesOf[p])].cursor
  BY <1>1, <1>2, PromptFacts DEF PromptAt
<1>4. pos \in Seq(Triples) /\ Len(pos) = n /\ d \in Int
  <2>1. at[Len(ImagesOf[p])].cursor \in 0..Len(Ids(p)) /\ at[Len(ImagesOf[p])].next \in Nat
    BY <1>3 DEF Laid
  <2> HIDE DEF p, n
  <2> QED BY <1>1, <1>3, <2>1 DEF Laid, RopeDelta, p
<1>5. /\ \A q \in 0..n - 1 : PositionAt(s, q) = pos[q + 1]
      /\ \A q \in Nat : q >= n => PositionAt(s, q) = <<q + d, q + d, q + d>>
  <2>1. n \in Nat
    BY <1>1
  <2>2. \A q : PositionAt(s, q) = IF q < n THEN pos[q + 1] ELSE <<q + d, q + d, q + d>>
    BY DEF PositionAt
  <2> HIDE DEF n, d, pos, p
  <2>3. (\A q \in 0..n - 1 : q < n) /\ \A q \in Nat : q >= n => ~ (q < n)
    BY <2>1
  <2> QED BY <2>2, <2>3
<1> DEFINE a == Min2(E, n)
           b == Max2(S, n)
           A == SubSeq(pos, S + 1, a)
           B == IF b < E THEN Diagonal(b + d, E + d) ELSE << >>
           k == IF S < n THEN a - S ELSE 0
           m == IF b < E THEN E - b ELSE 0
<1>6. PositionsOf(s) = A \o B
  BY DEF PositionsOf
<1> HIDE DEF p, pos, d, S, E, n
<1>7. /\ k \in Nat /\ m \in Nat /\ k + m = nsched[s]
      /\ k > 0 => S < n /\ k = a - S /\ S + k <= n
      /\ m > 0 => b < E /\ S + k = b /\ b \in Nat /\ b >= n
  <2>1. CASE S < n /\ E < n
    BY <1>1, <2>1 DEF Min2, Max2
  <2>2. CASE S < n /\ ~ (E < n)
    BY <1>1, <2>2 DEF Min2, Max2
  <2>3. CASE ~ (S < n)
    BY <1>1, <2>3 DEF Min2, Max2
  <2> QED BY <2>1, <2>2, <2>3
<1>8. /\ A \in Seq(T) /\ Len(A) = k /\ \A o \in 1..k : A[o] = PositionAt(s, S + o - 1)
  <2>1. a \in Int /\ (S < n => a <= n) /\ (S >= n => a < S + 1)
    BY <1>1 DEF Min2
  <2>2. CASE k = 0
    <3>1. a < S + 1
      BY <1>1, <2>1, <2>2
    <3>2. A = << >>
      BY <1>1, <1>4, <2>1, <3>1
    <3> HIDE DEF A, k
    <3> QED BY <2>2, <3>2
  <2>3. CASE k > 0
    <3>1. S < n /\ k = a - S /\ S + k <= n /\ k \in Nat
      BY <1>7, <2>3
    <3> HIDE DEF k
    <3>2. A = [ o \in 1..k |-> pos[S + o] ]
      <4>1. S + 1 \in 1..Len(pos) /\ a \in 1..Len(pos) /\ a - (S + 1) + 1 = k
        BY <1>1, <1>4, <2>1, <2>3, <3>1
      <4>2. A = [ o \in 1..(a - (S + 1) + 1) |-> pos[(S + 1) + o - 1] ]
        BY <1>4, <4>1
      <4>3. \A o \in 1..k : (S + 1) + o - 1 = S + o
        BY <1>1, <3>1
      <4> QED BY <4>1, <4>2, <4>3
    <3>3. ASSUME NEW o \in 1..k PROVE pos[S + o] = PositionAt(s, S + o - 1) /\ S + o - 1 \in Nat
      <4>1. S + o - 1 \in 0..n - 1 /\ S + o - 1 + 1 = S + o
        BY <1>1, <3>1
      <4> QED BY <1>5, <4>1
    <3>4. \A o \in 1..k : pos[S + o] = PositionAt(s, S + o - 1) /\ pos[S + o] \in T
      BY <3>3
    <3> HIDE DEF A, k
    <3>5. A \in Seq(T) /\ Len(A) = k
      BY <3>1, <3>2, <3>4
    <3>6. \A o \in 1..k : A[o] = PositionAt(s, S + o - 1)
      BY <3>2, <3>4
    <3> QED BY <3>5, <3>6
  <2> QED BY <1>7, <2>2, <2>3
<1>9. /\ B \in Seq(T) /\ Len(B) = m /\ \A o \in 1..m : B[o] = PositionAt(s, b + o - 1)
  <2>1. CASE m = 0
    <3>1. ~ (b < E)
      BY <1>1, <1>7, <2>1 DEF Max2
    <3>2. B = << >>
      BY <3>1
    <3> HIDE DEF B, m
    <3> QED BY <2>1, <3>2
  <2>2. CASE m > 0
    <3>1. b < E /\ m = E - b /\ b \in Nat /\ b >= n
      BY <1>7, <2>2
    <3>2. B = Diagonal(b + d, E + d) /\ (E + d) - (b + d) = m
      BY <1>1, <1>4, <3>1
    <3> HIDE DEF B, b, m
    <3>3. B = [ o \in 1..m |-> <<b + d + o - 1, b + d + o - 1, b + d + o - 1>> ]
      BY <3>2 DEF Diagonal
    <3>4. ASSUME NEW o \in 1..m
          PROVE  B[o] = PositionAt(s, b + o - 1) /\ b + o - 1 \in Nat
      <4>1. b + o - 1 \in Nat /\ b + o - 1 >= n /\ b + o - 1 + d = b + d + o - 1
        <5>1. b \in Nat /\ n \in Nat /\ d \in Int /\ b >= n /\ o \in Int /\ o >= 1
          BY <1>1, <1>4, <3>1
        <5> HIDE DEF d, n
        <5> QED BY <5>1
      <4>2. PositionAt(s, b + o - 1) = <<b + o - 1 + d, b + o - 1 + d, b + o - 1 + d>>
        BY <1>5, <4>1
      <4> QED BY <3>3, <4>1, <4>2
    <3>5. m \in Nat
      BY <1>7
    <3> DEFINE V == [ o \in 1..m |-> PositionAt(s, b + o - 1) ]
    <3>6. B = V
      BY <3>3, <3>4
    <3>7. V \in Seq(T) /\ Len(V) = m /\ \A o \in 1..m : V[o] = PositionAt(s, b + o - 1)
      <4>1. \A o \in 1..m : PositionAt(s, b + o - 1) \in T
        BY <3>4
      <4> QED BY <3>5, <4>1
    <3> HIDE DEF V
    <3> QED BY <3>6, <3>7
  <2> QED BY <1>7, <2>1, <2>2
<1> HIDE DEF A, B, k, m, b, a
<1>10. A \o B \in Seq(T) /\ InARow(A \o B, A, B, k, m)
  BY <1>8, <1>9, JoinTwo
<1>11. ASSUME NEW o \in 1..nsched[s] PROVE (A \o B)[o] = PositionAt(s, S + o - 1)
  <2>1. CASE o <= k
    <3>1. o \in 1..k
      BY <1>7, <2>1
    <3> QED BY <1>8, <1>10, <3>1 DEF InARow
  <2>2. CASE ~ (o <= k)
    <3>1. PICK j \in 1..m : o = k + j
      <4>1. o - k \in 1..m /\ o = k + (o - k)
        BY <1>7, <2>2
      <4> QED BY <4>1
    <3>2. S + k = b /\ b \in Nat
      <4>1. m > 0
        BY <1>7
      <4> QED BY <1>7, <4>1
    <3>3. S + o - 1 = b + j - 1
      BY <1>1, <1>7, <3>1, <3>2
    <3> QED BY <1>9, <1>10, <3>1, <3>3 DEF InARow
  <2> QED BY <2>1, <2>2
<1> QED BY <1>6, <1>7, <1>10, <1>11 DEF InARow, S

(* What is in a batch is live, with its prompt kept.                       *)
LEMMA BatchKept ==
    ASSUME IInv, PromptsKept, phase \in {"runPrefill", "runDecode"}, NEW s \in Range(batch)
    PROVE  /\ s \in SeqId /\ tokens[s] \in Seq(Token) /\ Kept(s)
           /\ ncached[s] \in Nat /\ nsched[s] \in Nat /\ End(s) <= NumTokens(s)
<1>1. /\ QueuesOK /\ BatchCovered /\ s \in SeqId /\ tokens[s] \in Seq(Token)
      /\ ncached[s] \in Nat /\ nsched[s] \in Nat
  BY IInvParts
<1>2. Live(s)
  BY <1>1 DEF BatchCovered, RunPhases, QueuesOK, OnePlaceEach, LiveSet
<1> QED BY <1>1, <1>2 DEF PromptsKept, BatchCovered, End

LEMMA PrefillPositioned ==
    ASSUME IInv, PromptsKept, phase = "runPrefill"
    PROVE  /\ Len(PrefillPositions) = RowCount
           /\ \A i \in 1..Len(batch) : \A o \in 1..nsched[batch[i]] :
                PrefillPositions[RowStart(i) + o] = PositionAt(batch[i], Start(batch[i]) + o - 1)
<1> DEFINE T == { PositionAt(r[1], r[2]) : r \in Range(batch) \X Nat }
           ws == [ i \in 1..Len(batch) |-> PositionsOf(batch[i]) ]
<1>1. /\ Len(batch) \in Nat /\ \A i \in 1..Len(batch) : batch[i] \in Range(batch)
  BY IInvParts DEF Range
<1>2. ASSUME NEW s \in Range(batch)
      PROVE  /\ PositionsOf(s) \in Seq(T) /\ Len(PositionsOf(s)) = nsched[s]
             /\ \A o \in 1..nsched[s] : PositionsOf(s)[o] = PositionAt(s, Start(s) + o - 1)
  <2>1. \A q \in Nat : PositionAt(s, q) \in T
    <3> SUFFICES ASSUME NEW q \in Nat PROVE PositionAt(s, q) \in T
      OBVIOUS
    <3>1. <<s, q>> \in Range(batch) \X Nat /\ <<s, q>>[1] = s /\ <<s, q>>[2] = q
      OBVIOUS
    <3> QED BY <3>1
  <2> HIDE DEF T
  <2> QED BY <2>1, BatchKept, PositionsOfFacts
<1> HIDE DEF T
<1>3. /\ ws \in Seq(Seq(T)) /\ Len(ws) = Len(batch)
      /\ \A i \in 1..Len(batch) : ws[i] = PositionsOf(batch[i]) /\ Len(ws[i]) = nsched[batch[i]]
  BY <1>1, <1>2
<1>4. PrefillPositions = SE!FlattenSeq(ws)
  BY DEF PrefillPositions
<1> HIDE DEF ws
<1>5. /\ Len(SE!FlattenSeq(ws)) = RowCount
      /\ \A i \in 1..Len(batch) : \A o \in 1..nsched[batch[i]] :
            SE!FlattenSeq(ws)[RowStart(i) + o] = ws[i][o]
  <2>1. /\ SE!FlattenSeq(ws) \in Seq(T) /\ Len(SE!FlattenSeq(ws)) = RowCount
        /\ \A i \in 1..Len(batch) : \A o \in 1..nsched[batch[i]] :
             /\ RowStart(i) \in Nat /\ RowStart(i) + o \in 1..RowCount
             /\ SE!FlattenSeq(ws)[RowStart(i) + o] = ws[i][o]
    BY <1>3, Packed
  <2> QED BY <2>1, Zenon
<1>6. ASSUME NEW i \in 1..Len(batch), NEW o \in 1..nsched[batch[i]]
      PROVE  PrefillPositions[RowStart(i) + o] = PositionAt(batch[i], Start(batch[i]) + o - 1)
  <2>1. ws[i] = PositionsOf(batch[i]) /\ batch[i] \in Range(batch)
    BY <1>1, <1>3
  <2>2. PrefillPositions[RowStart(i) + o] = ws[i][o]
    BY <1>4, <1>5
  <2> QED BY <1>2, <2>1, <2>2
<1> QED BY <1>4, <1>5, <1>6

(* The one new token of a request in a decode batch was generated.         *)
LEMMA DecodePositioned ==
    ASSUME IInv, PromptsKept, DecodesGenerated, phase = "runDecode", NEW s \in Range(batch)
    PROVE  /\ NumTokens(s) - 1 \in 0..NumTokens(s) - 1
           /\ DecodePosition(s) = PositionAt(s, NumTokens(s) - 1)
<1>1. BatchCovered /\ s \in SeqId /\ NumTokens(s) \in Nat /\ Kept(s)
  BY IInvParts, BatchKept
<1>2. s \in Active
  BY <1>1 DEF BatchCovered, Active, RunPhases, PrefillPhases
<1>3. nprompt[s] \in Nat /\ nprompt[s] < NumTokens(s)
  <2>1. s \notin interrupted /\ ~ BeingPrefilled(s)
    BY DEF DecodesGenerated, BeingPrefilled, PrefillPhases
  <2> QED BY <1>1, <1>2, <2>1 DEF DecodesGenerated, Generated, Kept
<1>4. NumTokens(s) - 1 \in 0..NumTokens(s) - 1 /\ ~ (NumTokens(s) - 1 < nprompt[s])
  BY <1>1, <1>3
<1> QED BY <1>4 DEF DecodePosition, PositionAt

LEMMA PositionsExact ==
    ASSUME IInv, PromptsKept, ~ resumed => DecodesGenerated
    PROVE  RowsPositioned
<1>1. ASSUME phase = "runPrefill", NEW i \in 1..Len(batch), NEW o \in 0..nsched[batch[i]] - 1
      PROVE  PrefillPositions[RowStart(i) + o + 1]
               = Reference(batch[i])[Start(batch[i]) + o]
  <2> DEFINE s == batch[i]
  <2>1. s \in Range(batch) /\ nsched[s] \in Nat /\ ncached[s] \in Nat
    BY <1>1, IInvParts DEF Range
  <2>2. /\ s \in SeqId /\ tokens[s] \in Seq(Token) /\ Kept(s) /\ End(s) <= NumTokens(s)
        /\ NumTokens(s) \in Nat
    BY <1>1, <2>1, BatchKept, IInvParts
  <2>3. Reference(s) = Positions3(s)
    BY <2>2, ReferenceIs
  <2>4. RowStart(i) \in Nat
    BY <1>1, PrefillRowsFacts
  <2>5. PICK j \in 1..nsched[s] : j - 1 = o
    <3>1. o + 1 \in 1..nsched[s] /\ o + 1 - 1 = o
      BY <1>1, <2>1
    <3> QED BY <3>1
  <2>6. PrefillPositions[RowStart(i) + j] = PositionAt(s, Start(s) + j - 1)
    BY <1>1, PrefillPositioned
  <2> HIDE DEF s
  <2>7. RowStart(i) + o + 1 = RowStart(i) + j /\ Start(s) + j - 1 = Start(s) + o
        /\ Start(s) + o \in 0..NumTokens(s) - 1
    <3>1. o \in Int /\ j \in Int /\ o >= 0 /\ o < nsched[s] /\ j = o + 1
      <4>1. o \in 0..nsched[s] - 1
        BY <1>1 DEF s
      <4> QED BY <2>1, <2>5, <4>1
    <3>2. Start(s) \in Nat /\ Start(s) + nsched[s] <= NumTokens(s)
      BY <2>1, <2>2 DEF Start, End
    <3>3. NumTokens(s) \in Nat /\ nsched[s] \in Nat
      BY <2>1, <2>2
    <3> QED BY <2>4, <3>1, <3>2, <3>3
  <2>8. Positions3(s)[Start(s) + o] = PositionAt(s, Start(s) + o)
    BY <2>7 DEF Positions3
  <2> QED BY <2>3, <2>6, <2>7, <2>8 DEF s
<1>2. ASSUME ~ resumed, phase = "runDecode", NEW s \in Range(batch)
      PROVE  DecodePosition(s) = Reference(s)[NumTokens(s) - 1]
  <2>1. s \in SeqId /\ tokens[s] \in Seq(Token) /\ Kept(s)
    BY <1>2, BatchKept
  <2>2. Reference(s) = Positions3(s)
    BY <2>1, ReferenceIs
  <2>3. /\ NumTokens(s) - 1 \in 0..NumTokens(s) - 1
        /\ DecodePosition(s) = PositionAt(s, NumTokens(s) - 1)
    BY <1>2, DecodePositioned
  <2> QED BY <2>2, <2>3 DEF Positions3
<1> QED BY <1>1, <1>2 DEF RowsPositioned

(* A request keeps its prompt, and is decoded only after its first token:  *)
(* as long as no request whose run raised is decoded all the same, the     *)
(* cached tokens are computed too.                                         *)
THEOREM PromptsInvariant ==
    Spec => [](IInv /\ PromptsKept /\ (~ resumed => CacheInv /\ DecodesGenerated))
<1> DEFINE PInv == /\ IInv /\ StatusOK /\ PromptsKept
                   /\ ~ resumed => CacheInv /\ DecodesGenerated
<1>1. Init => PInv
  BY InitIInv, InitStatus, InitCache, InitKept, InitGenerated
<1>2. ASSUME PInv, [Next]_vars PROVE PInv'
  <2>1. IInv' /\ StatusOK' /\ PromptsKept'
    BY <1>2, NextIInv, NextStatus, NextKept
  <2>2. ASSUME ~ resumed' PROVE CacheInv' /\ DecodesGenerated'
    <3>1. ~ resumed
      BY <1>2, <2>2, RemembersSome DEF Remember, vars
    <3> QED BY <1>2, <2>1, <2>2, <3>1, NextCache, NextGenerated
  <2> QED BY <2>1, <2>2
<1> QED BY <1>1, <1>2, PTL DEF Spec

(* Every row of every batch is computed at its token's M-RoPE position:    *)
(* chunked, continued from the cache, decoded or recomputed; a decoded row *)
(* until a request whose run raised is decoded without its first token.    *)
THEOREM RowsAlwaysPositioned == Spec => []RowsPositioned
<1>1. IInv /\ PromptsKept /\ (~ resumed => CacheInv /\ DecodesGenerated) => RowsPositioned
  BY PositionsExact
<1> QED BY <1>1, PromptsInvariant, PTL

-----------------------------------------------------------------------------
(* Plans of visual replacements.                                           *)

LEMMA Monotone ==
    ASSUME NEW n \in Nat, NEW f, \A i \in 1..n : f[i] \in Nat /\ f[i + 1] \in Nat /\ f[i] <= f[i + 1],
           NEW a \in 1..n, NEW b \in 1..n + 1, a < b
    PROVE  f[a + 1] <= f[b]
<1> DEFINE S == { i \in 1..n : \A j \in 1..i : f[j + 1] <= f[i + 1] }
<1>1. n # 0 /\ n \in Nat
  OBVIOUS
<1>2. 1 \in S
  <2>1. 1 \in 1..n /\ f[2] \in Nat /\ 1 + 1 = 2
    BY <1>1
  <2> QED BY <2>1
<1>3. ASSUME NEW i \in 1..n - 1, i \in S PROVE i + 1 \in S
  <2>1. i + 1 \in 1..n /\ i \in 1..n
    OBVIOUS
  <2> SUFFICES ASSUME NEW j \in 1..i + 1 PROVE f[j + 1] <= f[(i + 1) + 1]
    BY <2>1
  <2>2. f[i + 1] \in Nat /\ f[(i + 1) + 1] \in Nat /\ f[i + 1] <= f[(i + 1) + 1]
    BY <2>1
  <2>3. CASE j = i + 1
    BY <2>2, <2>3
  <2>4. CASE j \in 1..i
    <3>1. f[j + 1] <= f[i + 1] /\ f[j + 1] \in Nat
      BY <1>3, <2>1, <2>4
    <3> QED BY <2>2, <3>1
  <2> QED BY <2>3, <2>4
<1> HIDE DEF S
<1>4. 1..n \subseteq S
  BY <1>1, <1>2, <1>3, UpToInduction
<1>5. PICK c \in 1..n : c + 1 = b
  <2>1. b - 1 \in 1..n /\ b - 1 + 1 = b
    OBVIOUS
  <2> QED BY <2>1
<1>6. a \in 1..c /\ c \in S
  BY <1>4, <1>5
<1> QED BY <1>5, <1>6 DEF S

(* The rows of one request end before those of the next begin.             *)
LEMMA RowsApart ==
    ASSUME IInv, phase = "runPrefill", NEW i \in 1..Len(batch), NEW j \in 1..Len(batch), i < j
    PROVE  /\ RowStart(i) \in Nat /\ RowStart(j) \in Nat /\ nsched[batch[i]] \in Nat
           /\ RowStart(i) + nsched[batch[i]] <= RowStart(j)
<1> DEFINE n == Len(batch)
           f == [ k \in 1..n + 1 |-> RowStart(k) ]
<1>1. n \in Nat /\ \A k \in 1..n : nsched[batch[k]] \in Nat
  <2>1. batch \in Seq(SeqId) /\ \A s \in SeqId : nsched[s] \in Nat
    BY IInvParts
  <2> QED BY <2>1
<1>2. \A k \in 1..n : RowStart(k) \in Nat /\ RowStart(k + 1) = RowStart(k) + nsched[batch[k]]
  BY PrefillRowsFacts
<1> HIDE DEF n
<1>3. ASSUME NEW k \in 1..n PROVE f[k] \in Nat /\ f[k + 1] \in Nat /\ f[k] <= f[k + 1]
  <2>1. k \in 1..n + 1 /\ k + 1 \in 1..n + 1
    BY <1>1
  <2>2. RowStart(k) \in Nat /\ RowStart(k + 1) = RowStart(k) + nsched[batch[k]]
        /\ nsched[batch[k]] \in Nat
    BY <1>1, <1>2
  <2> QED BY <2>1, <2>2
<1>4. i \in 1..n /\ j \in 1..n /\ j \in 1..n + 1 /\ i + 1 \in 1..n + 1
  BY <1>1 DEF n
<1>5. f[i + 1] <= f[j]
  <2> HIDE DEF f
  <2> QED BY <1>1, <1>3, <1>4, Monotone
<1> QED BY <1>1, <1>2, <1>4, <1>5

(* A row belongs to one token of one request.                              *)
LEMMA OneRow ==
    ASSUME IInv, phase = "runPrefill", NEW i \in 1..Len(batch), NEW j \in 1..Len(batch),
           NEW o \in 0..nsched[batch[i]] - 1, NEW x \in 0..nsched[batch[j]] - 1,
           RowStart(i) + o = RowStart(j) + x
    PROVE  i = j /\ o = x
<1>1. /\ RowStart(i) \in Nat /\ RowStart(j) \in Nat /\ Len(batch) \in Nat
      /\ nsched[batch[i]] \in Nat /\ nsched[batch[j]] \in Nat
  <2>1. batch \in Seq(SeqId) /\ \A s \in SeqId : nsched[s] \in Nat
    BY IInvParts
  <2>2. \A k \in 1..Len(batch) : RowStart(k) \in Nat
    BY PrefillRowsFacts
  <2> QED BY <2>1, <2>2
<1>2. i < j => RowStart(i) + nsched[batch[i]] <= RowStart(j)
  BY RowsApart
<1>3. j < i => RowStart(j) + nsched[batch[j]] <= RowStart(i)
  BY RowsApart
<1>4. o \in Nat /\ x \in Nat /\ o < nsched[batch[i]] /\ x < nsched[batch[j]]
  BY <1>1
<1>5. i = j
  <2>1. ~ (i < j)
    BY <1>1, <1>2, <1>4
  <2>2. ~ (j < i)
    BY <1>1, <1>3, <1>4
  <2> QED BY <2>1, <2>2
<1>6. o = x
  BY <1>1, <1>4, <1>5
<1> QED BY <1>5, <1>6

(* Replacements by increasing rows.                                        *)
Increasing(x)  == \A a, b \in 1..Len(x) : a < b => x[a].row < x[b].row
Follows(x, y)  == \A a \in 1..Len(x) : \A b \in 1..Len(y) : x[a].row < y[b].row

LEMMA Flattened ==
    ASSUME NEW T, NEW ss \in Seq(Seq(T)),
           \A i \in 1..Len(ss) : Increasing(ss[i]),
           \A i, j \in 1..Len(ss) : i < j => Follows(ss[i], ss[j])
    PROVE  LET x == SE!FlattenSeq(ss)
           IN  /\ x \in Seq(T) /\ Increasing(x)
               /\ \A a \in 1..Len(x) : \E i \in 1..Len(ss) : \E k \in 1..Len(ss[i]) : x[a] = ss[i][k]
               /\ \A i \in 1..Len(ss) : \A k \in 1..Len(ss[i]) : \E a \in 1..Len(x) : x[a] = ss[i][k]
<1> DEFINE x == SE!FlattenSeq(ss)
           n == Len(ss)
           weight == [ i \in 1..n |-> Len(ss[i]) ]
           q == [ i \in 1..n |-> i ]
           off == [ i \in 1..n + 1 |-> Before(weight, q, i) ]
<1>1. n \in Nat /\ \A i \in 1..n : ss[i] \in Seq(T) /\ Len(ss[i]) \in Nat
  OBVIOUS
<1>2. \A i \in 1..Len(ss) : weight[q[i]] = Len(ss[i])
  OBVIOUS
<1> HIDE DEF weight, q
<1>3. Offsets(off, ss)
  BY <1>2, TotalIsOffset
<1> HIDE DEF off
<1>4. JoinOf(x, ss, off, T)
  BY <1>3, FlattenFacts
<1> HIDE DEF x, n
<1>5. /\ \A i \in 1..n : off[i] \in Nat /\ off[i + 1] \in Nat /\ off[i] <= off[i + 1]
      /\ \A i \in 1..n : off[i + 1] = off[i] + Len(ss[i])
  <2>1. /\ off \in [1..n + 1 -> Nat] /\ \A i \in 1..n : off[i + 1] = off[i] + Len(ss[i])
    BY <1>3 DEF Offsets, n
  <2> SUFFICES ASSUME NEW i \in 1..n
               PROVE  off[i] \in Nat /\ off[i + 1] \in Nat /\ off[i] <= off[i + 1]
    BY <2>1
  <2>2. i \in 1..n + 1 /\ i + 1 \in 1..n + 1
    BY <1>1
  <2>3. off[i] \in Nat /\ off[i + 1] \in Nat /\ off[i + 1] = off[i] + Len(ss[i])
    BY <2>1, <2>2
  <2> QED BY <1>1, <2>3
<1>6. /\ x \in Seq(T) /\ Len(x) \in Nat
      /\ \A i \in 1..n : \A k \in 1..Len(ss[i]) :
            off[i] + k \in 1..Len(x) /\ x[off[i] + k] = ss[i][k]
      /\ \A r \in 1..Len(x) : \E i \in 1..n : \E k \in 1..Len(ss[i]) : r = off[i] + k
  BY <1>4 DEF JoinOf, n
<1>7. ASSUME NEW a \in 1..Len(x), NEW b \in 1..Len(x), a < b PROVE x[a].row < x[b].row
  <2>1. PICK i \in 1..n : \E k \in 1..Len(ss[i]) : a = off[i] + k
    BY <1>6
  <2>2. PICK k \in 1..Len(ss[i]) : a = off[i] + k
    BY <2>1
  <2>3. PICK j \in 1..n : \E l \in 1..Len(ss[j]) : b = off[j] + l
    BY <1>6
  <2>4. PICK l \in 1..Len(ss[j]) : b = off[j] + l
    BY <2>3
  <2>5. x[a] = ss[i][k] /\ x[b] = ss[j][l]
    BY <1>6, <2>2, <2>4
  <2>6. /\ off[i] \in Nat /\ off[j] \in Nat /\ Len(ss[i]) \in Nat /\ Len(ss[j]) \in Nat
        /\ k \in Nat /\ l \in Nat /\ k <= Len(ss[i]) /\ l <= Len(ss[j]) /\ k > 0
        /\ off[j + 1] = off[j] + Len(ss[j])
    BY <1>1, <1>5
  <2>7. CASE i < j
    <3>1. Follows(ss[i], ss[j])
      BY <2>7 DEF n
    <3> QED BY <2>5, <3>1 DEF Follows
  <2>8. CASE i = j
    <3>1. k < l
      BY <2>2, <2>4, <2>6, <2>8, <1>7
    <3>2. Increasing(ss[i])
      BY DEF n
    <3> QED BY <2>5, <2>8, <3>1, <3>2 DEF Increasing
  <2>9. ~ (j < i)
    <3> SUFFICES ASSUME j < i PROVE FALSE
      OBVIOUS
    <3>1. i \in 1..n + 1
      BY <1>1
    <3>2. off[j + 1] <= off[i]
      BY <1>1, <1>5, <3>1, Monotone
    <3> DEFINE u == off[i]
               v == off[j]
               w == off[j + 1]
               L == Len(ss[j])
    <3>3. u \in Nat /\ v \in Nat /\ L \in Nat /\ w = v + L /\ w <= u
          /\ k \in Nat /\ l \in Nat /\ l <= L /\ k > 0
      BY <2>6, <3>2
    <3> HIDE DEF u, v, w, L
    <3>4. v + l < u + k /\ v + l \in Nat /\ u + k \in Nat
      BY <3>3
    <3>5. u + k < v + l
      BY <1>7, <2>2, <2>4 DEF u, v
    <3> QED BY <3>4, <3>5
  <2>10. i < j \/ i = j \/ j < i
    BY <1>1
  <2> QED BY <2>7, <2>8, <2>9, <2>10
<1>8. \A a \in 1..Len(x) : \E i \in 1..n : \E k \in 1..Len(ss[i]) : x[a] = ss[i][k]
  <2> SUFFICES ASSUME NEW a \in 1..Len(x)
               PROVE  \E i \in 1..n : \E k \in 1..Len(ss[i]) : x[a] = ss[i][k]
    OBVIOUS
  <2>1. PICK i \in 1..n : \E k \in 1..Len(ss[i]) : a = off[i] + k
    BY <1>6
  <2>2. PICK k \in 1..Len(ss[i]) : a = off[i] + k
    BY <2>1
  <2>3. x[a] = ss[i][k]
    BY <1>6, <2>2
  <2> QED BY <2>3
<1>9. \A i \in 1..n : \A k \in 1..Len(ss[i]) : \E a \in 1..Len(x) : x[a] = ss[i][k]
  BY <1>6
<1>10. Increasing(x)
  BY <1>7 DEF Increasing
<1> QED BY <1>6, <1>8, <1>9, <1>10 DEF x, n

(* The visual spans of a request are disjoint, in order, and cover its     *)
(* visual tokens.                                                          *)
SpanEnd(span) == span.start + span.length
LEMMA SpanFacts ==
    ASSUME NEW s \in SeqId, tokens[s] \in Seq(Token), Kept(s)
    PROVE  /\ Len(Spans(s)) = Len(ImagesOf[Prompt(s)]) /\ Len(Spans(s)) \in Nat
           /\ ImagesOf[Prompt(s)] \in Seq(Images)
           /\ \A k \in 1..Len(Spans(s)) :
                LET span == Spans(s)[k]
                    g    == ImagesOf[Prompt(s)][k]
                IN  /\ g \in Images /\ span.key = g.key /\ span.length = TokenCount(g)
                    /\ span.start \in Nat /\ span.length \in Nat /\ SpanEnd(span) <= NumTokens(s)
                    /\ \A j \in 1..k - 1 : SpanEnd(Spans(s)[j]) <= span.start
                    /\ \A q \in span.start..SpanEnd(span) - 1 :
                          /\ TokenOf(s, q).mm = <<span.key, q - span.start>>
                          /\ TokenOf(s, q).mm # NoVisual
           /\ \A q \in 0..NumTokens(s) - 1 : TokenOf(s, q).mm # NoVisual =>
                \E k \in 1..Len(Spans(s)) : q \in Spans(s)[k].start..SpanEnd(Spans(s)[k]) - 1
<1> DEFINE p == Prompt(s)
           images == ImagesOf[p]
           m == Len(images)
<1>1. /\ p \in Prompts /\ NumTokens(s) \in Nat /\ nprompt[s] \in Nat
      /\ nprompt[s] <= NumTokens(s) /\ Len(p) = nprompt[s]
      /\ \A q \in 0..nprompt[s] - 1 : tokens[s][q + 1] = p[q + 1]
      /\ \A q \in nprompt[s]..NumTokens(s) - 1 : tokens[s][q + 1].mm = NoVisual
  BY KeptPrompt
<1>2. PICK at : PromptAt(at, p)
  BY <1>1, PromptFacts
<1> DEFINE from(k) == ImageFrom(at, p, k)
           to(k) == ImageTo(at, p, k)
<1>3. /\ images \in Seq(Images) /\ m \in Nat
      /\ Spans(s) = [ k \in 1..m |-> SpanOf(at, Ids(p), images, k) ]
  BY <1>1, <1>2, PromptFacts DEF PromptAt, Spans
<1> HIDE DEF m
<1>4. Len(Spans(s)) = m /\ \A k \in 1..m : images[k] \in Images
  BY <1>3 DEF m
<1>5. ASSUME NEW k \in 1..m
      PROVE  /\ Spans(s)[k].start = from(k) /\ Spans(s)[k].length = TokenCount(images[k])
             /\ Spans(s)[k].key = images[k].key /\ SpanEnd(Spans(s)[k]) = to(k)
  <2>1. Spans(s)[k] = SpanOf(at, Ids(p), images, k)
    BY <1>3
  <2> QED BY <2>1 DEF SpanOf, ImageFrom, ImageTo, SpanEnd
<1>6. ASSUME NEW k \in 1..m
      PROVE  /\ from(k) \in Nat /\ to(k) \in Nat /\ from(k) < to(k) /\ to(k) <= Len(p)
             /\ TokenCount(images[k]) \in Nat
             /\ \A j \in 1..k - 1 : to(j) <= from(k)
  BY <1>1, <1>2, PromptImages DEF m
<1>7. ASSUME NEW q \in 0..nprompt[s] - 1
      PROVE  TextToken(at, p, q) \/ \E k \in 1..m : ImageToken(at, p, q, k)
  BY <1>1, <1>2, PromptToken DEF m
<1>8. ASSUME NEW k \in 1..m, NEW q \in from(k)..to(k) - 1
      PROVE  TokenOf(s, q).mm = <<images[k].key, q - from(k)>> /\ TokenOf(s, q).mm # NoVisual
  <2>1. q \in 0..nprompt[s] - 1
    BY <1>1, <1>6
  <2>2. PICK j \in 1..m : ImageToken(at, p, q, j)
    <3>1. ~ TextToken(at, p, q)
      BY DEF TextToken, m
    <3> QED BY <1>7, <2>1, <3>1
  <2>3. q \in from(j)..to(j) - 1
    BY <2>2 DEF ImageToken
  <2>4. j = k
    <3>1. ~ (j < k)
      <4> SUFFICES ASSUME j < k PROVE FALSE
        OBVIOUS
      <4>1. j \in 1..k - 1
        BY <1>3
      <4>2. to(j) <= from(k) /\ to(j) \in Nat /\ from(k) \in Nat
        BY <1>6, <4>1
      <4> QED BY <2>1, <2>3, <4>2
    <3>2. ~ (k < j)
      <4> SUFFICES ASSUME k < j PROVE FALSE
        OBVIOUS
      <4>1. k \in 1..j - 1
        BY <1>3
      <4>2. to(k) <= from(j) /\ to(k) \in Nat /\ from(j) \in Nat
        BY <1>6, <4>1
      <4> QED BY <2>1, <2>3, <4>2
    <3> QED BY <1>3, <3>1, <3>2
  <2> QED BY <1>1, <2>1, <2>2, <2>4 DEF ImageToken, TokenOf
<1>9. ASSUME NEW q \in 0..NumTokens(s) - 1, TokenOf(s, q).mm # NoVisual
      PROVE  \E k \in 1..m : q \in from(k)..to(k) - 1
  <2>1. q \in 0..nprompt[s] - 1
    BY <1>1, <1>9 DEF TokenOf
  <2>2. ~ TextToken(at, p, q)
    BY <1>1, <1>9, <2>1 DEF TokenOf, TextToken
  <2> QED BY <1>7, <2>1, <2>2 DEF ImageToken
<1> HIDE DEF from, to, p, images
<1>10. ASSUME NEW k \in 1..m
       PROVE  LET span == Spans(s)[k]
                  g    == images[k]
              IN  /\ g \in Images /\ span.key = g.key /\ span.length = TokenCount(g)
                  /\ span.start \in Nat /\ span.length \in Nat /\ SpanEnd(span) <= NumTokens(s)
                  /\ \A j \in 1..k - 1 : SpanEnd(Spans(s)[j]) <= span.start
                  /\ \A q \in span.start..SpanEnd(span) - 1 :
                        /\ TokenOf(s, q).mm = <<span.key, q - span.start>>
                        /\ TokenOf(s, q).mm # NoVisual
  <2>1. \A j \in 1..k - 1 : j \in 1..m
    BY <1>3
  <2>2. \A j \in 1..k - 1 : SpanEnd(Spans(s)[j]) <= Spans(s)[k].start
    BY <1>5, <1>6, <2>1
  <2>3. /\ from(k) \in Nat /\ to(k) \in Nat /\ to(k) <= NumTokens(s)
    BY <1>1, <1>6
  <2>4. \A q \in Spans(s)[k].start..SpanEnd(Spans(s)[k]) - 1 :
           /\ TokenOf(s, q).mm = <<Spans(s)[k].key, q - Spans(s)[k].start>>
           /\ TokenOf(s, q).mm # NoVisual
    BY <1>5, <1>8
  <2> QED BY <1>4, <1>5, <1>6, <2>2, <2>3, <2>4
<1>11. ASSUME NEW q \in 0..NumTokens(s) - 1, TokenOf(s, q).mm # NoVisual
       PROVE  \E k \in 1..m : q \in Spans(s)[k].start..SpanEnd(Spans(s)[k]) - 1
  BY <1>5, <1>9, <1>11
<1> QED BY <1>3, <1>4, <1>10, <1>11 DEF m, p, images

(* What is planned for token q of a span of the i-th request.              *)
Replacements == [row : Int, key : { g.key : g \in Images }, feature : Int]
Replacement(i, span, q) ==
    [row |-> RowStart(i) + (q - Start(batch[i])), key |-> span.key, feature |-> q - span.start]
SpanTokens(s, span) ==
    { q \in Start(s)..End(s) - 1 : q \in span.start..SpanEnd(span) - 1 }

LEMMA ReplacedIs ==
    ASSUME NEW i, NEW span, NEW from, NEW to,
           from = Max2(span.start, Start(batch[i])), to = Min2(SpanEnd(span), End(batch[i]))
    PROVE  /\ from >= to => Replaced(i, span) = << >>
           /\ ~ (from >= to) => Replaced(i, span) =
                [ x \in 1..to - from |->
                  [row |-> RowStart(i) + from + x - 1 - Start(batch[i]), key |-> span.key,
                   feature |-> FeatureRow(batch[i], span, from + x - 1)] ]
<1>1. to = Min2(span.start + span.length, End(batch[i]))
  BY DEF SpanEnd
<1>2. Replaced(i, span) =
        IF from >= to THEN << >>
        ELSE [ x \in 1..to - from |->
               [row |-> RowStart(i) + from + x - 1 - Start(batch[i]), key |-> span.key,
                feature |-> FeatureRow(batch[i], span, from + x - 1)] ]
  BY <1>1, Zenon DEF Replaced
<1> QED BY <1>2

LEMMA ReplacedFacts ==
    ASSUME IInv, PromptsKept, phase = "runPrefill", NEW i \in 1..Len(batch),
           NEW k \in 1..Len(Spans(batch[i]))
    PROVE  LET span == Spans(batch[i])[k]
               x    == Replaced(i, span)
           IN  /\ x \in Seq(Replacements) /\ Increasing(x)
               /\ \A a \in 1..Len(x) :
                    \E q \in SpanTokens(batch[i], span) : x[a] = Replacement(i, span, q)
               /\ \A q \in SpanTokens(batch[i], span) :
                    \E a \in 1..Len(x) : x[a] = Replacement(i, span, q)
<1> DEFINE s == batch[i]
           span == Spans(s)[k]
           x == Replaced(i, span)
           b == span.start
           e == SpanEnd(span)
           S == Start(s)
           E == End(s)
           R == RowStart(i)
           key == span.key
           from == Max2(b, S)
           to == Min2(e, E)
<1>1. s \in Range(batch) /\ R \in Nat
  <2>1. batch \in Seq(SeqId)
    BY IInvParts
  <2> QED BY <2>1, PrefillRowsFacts DEF Range
<1>2. s \in SeqId /\ tokens[s] \in Seq(Token) /\ Kept(s) /\ S \in Nat /\ E \in Nat
  <2>1. /\ s \in SeqId /\ tokens[s] \in Seq(Token) /\ Kept(s) /\ ncached[s] \in Nat
        /\ nsched[s] \in Nat
    BY <1>1, BatchKept
  <2> HIDE DEF s
  <2> QED BY <2>1 DEF Start, End
<1>3. b \in Nat /\ e \in Nat /\ key \in { g.key : g \in Images }
  <2>1. /\ ImagesOf[Prompt(s)][k] \in Images /\ key = ImagesOf[Prompt(s)][k].key
        /\ span.start \in Nat /\ span.length \in Nat
    BY <1>2, SpanFacts
  <2> HIDE DEF span, s
  <2> QED BY <2>1 DEF SpanEnd
<1>4. /\ from >= to => x = << >>
      /\ ~ (from >= to) => x =
            [ y \in 1..to - from |-> [row |-> R + from + y - 1 - S, key |-> key,
                                      feature |-> FeatureRow(s, span, from + y - 1)] ]
  <2>1. from = Max2(span.start, Start(batch[i])) /\ to = Min2(SpanEnd(span), End(batch[i]))
    OBVIOUS
  <2> HIDE DEF from, to, span
  <2> QED BY <2>1, ReplacedIs
<1>10. \A q : FeatureRow(s, span, q) = q - b
  BY DEF FeatureRow
<1>5. ASSUME NEW q
      PROVE  Replacement(i, span, q) = [row |-> R + (q - S), key |-> key, feature |-> q - b]
  BY DEF Replacement
<1>6. \A q : q \in SpanTokens(s, span) <=> q \in S..E - 1 /\ q \in b..e - 1
  BY DEF SpanTokens
<1> HIDE DEF s, span, x, b, e, S, E, R, key
<1>7. /\ from \in Nat /\ to \in Nat
      /\ \A q \in Int : q \in S..E - 1 /\ q \in b..e - 1 <=> from <= q /\ q <= to - 1
  BY <1>2, <1>3 DEF Max2, Min2
<1> HIDE DEF from, to
<1>8. CASE from >= to
  <2>1. x = << >> /\ \A q \in Int : ~ (q \in S..E - 1 /\ q \in b..e - 1)
    BY <1>4, <1>7, <1>8
  <2>2. SpanTokens(s, span) = {}
    <3>1. \A q \in S..E - 1 : q \in Int
      BY <1>2
    <3> QED BY <1>6, <2>1, <3>1
  <2>3. Len(x) = 0 /\ 1..0 = {} /\ x \in Seq(Replacements)
    BY <2>1
  <2> QED BY <2>2, <2>3 DEF Increasing, s, span, x
<1>9. CASE ~ (from >= to)
  <2> DEFINE n == to - from
             V(y) == [row |-> R + from + y - 1 - S, key |-> key,
                      feature |-> FeatureRow(s, span, from + y - 1)]
  <2>1. n \in Nat /\ x = [ y \in 1..n |-> V(y) ]
    BY <1>4, <1>7, <1>9
  <2>2. ASSUME NEW y \in 1..n
        PROVE  /\ V(y) \in Replacements /\ V(y).row = R + from + y - 1 - S
               /\ from + y - 1 \in SpanTokens(s, span)
               /\ V(y) = Replacement(i, span, from + y - 1)
    <3>1. /\ from + y - 1 \in Int /\ from <= from + y - 1 /\ from + y - 1 <= to - 1
          /\ R + from + y - 1 - S = R + (from + y - 1 - S) /\ y \in Int
      BY <1>1, <1>2, <1>7, <1>9, <2>1
    <3>2. V(y) \in Replacements
      BY <1>1, <1>2, <1>3, <1>10, <1>7, <3>1 DEF Replacements
    <3>3. from + y - 1 \in SpanTokens(s, span)
      BY <1>6, <1>7, <3>1
    <3>4. PICK q : q = from + y - 1
      OBVIOUS
    <3>5. V(y) = Replacement(i, span, from + y - 1)
      <4>1. Replacement(i, span, q) = [row |-> R + (q - S), key |-> key, feature |-> q - b]
        BY <1>5
      <4>2. FeatureRow(s, span, q) = q - b
        BY <1>10
      <4>3. FeatureRow(s, span, from + y - 1) = q - b
        BY <3>4, <4>2
      <4>4. R + from + y - 1 - S = R + (q - S)
        BY <1>1, <1>2, <1>7, <3>1, <3>4
      <4>5. V(y) = [row |-> R + (q - S), key |-> key, feature |-> q - b]
        BY <4>3, <4>4
      <4> QED BY <3>4, <4>1, <4>5
    <3>6. V(y).row = R + from + y - 1 - S
      OBVIOUS
    <3> HIDE DEF V
    <3> QED BY <3>2, <3>3, <3>5, <3>6
  <2>3. ASSUME NEW q \in SpanTokens(s, span) PROVE \E y \in 1..n : q = from + y - 1
    <3>1. q \in S..E - 1 /\ q \in b..e - 1
      BY <1>6
    <3>2. q \in Int
      BY <1>2, <3>1
    <3>3. from <= q /\ q <= to - 1
      BY <1>7, <3>1, <3>2
    <3>4. q - from + 1 \in 1..n /\ q = from + (q - from + 1) - 1
      BY <1>7, <3>2, <3>3
    <3> QED BY <3>4
  <2> HIDE DEF n
  <2>4. x \in Seq(Replacements) /\ Len(x) = n /\ \A y \in 1..n : x[y] = V(y)
    <3>1. \A y \in 1..n : V(y) \in Replacements
      BY <2>2
    <3> HIDE DEF V
    <3> QED BY <2>1, <3>1
  <2>5. Increasing(x)
    <3> SUFFICES ASSUME NEW a \in 1..n, NEW c \in 1..n, a < c PROVE x[a].row < x[c].row
      BY <2>4 DEF Increasing
    <3>1. x[a].row = R + from + a - 1 - S /\ x[c].row = R + from + c - 1 - S
      BY <2>2, <2>4
    <3> QED BY <1>1, <1>2, <1>7, <3>1
  <2> HIDE DEF V
  <2>6. \A a \in 1..Len(x) : \E q \in SpanTokens(s, span) : x[a] = Replacement(i, span, q)
    BY <2>2, <2>4
  <2>7. \A q \in SpanTokens(s, span) : \E a \in 1..Len(x) : x[a] = Replacement(i, span, q)
    <3> SUFFICES ASSUME NEW q \in SpanTokens(s, span)
                 PROVE  \E a \in 1..n : x[a] = Replacement(i, span, q)
      BY <2>4
    <3>1. PICK y \in 1..n : q = from + y - 1
      BY <2>3
    <3> QED BY <2>2, <2>4, <3>1
  <2> QED BY <2>4, <2>5, <2>6, <2>7 DEF s, span, x
<1> QED BY <1>8, <1>9

(* What is planned for the o-th scheduled token of the i-th request.       *)
Planned(r, i, o) ==
    /\ r.row = RowStart(i) + o
    /\ TokenOf(batch[i], Start(batch[i]) + o).mm = <<r.key, r.feature>>
    /\ TokenOf(batch[i], Start(batch[i]) + o).mm # NoVisual
    /\ \E k \in 1..Len(ImagesOf[Prompt(batch[i])]) :
          LET g == ImagesOf[Prompt(batch[i])][k]
          IN  r.key = g.key /\ r.feature \in 0..TokenCount(g) - 1

PlanOf(i) == SE!FlattenSeq([ k \in 1..Len(Spans(batch[i])) |->
                                Replaced(i, Spans(batch[i])[k]) ])

LEMMA SpanTokenPlanned ==
    ASSUME IInv, PromptsKept, phase = "runPrefill", NEW i \in 1..Len(batch),
           NEW k \in 1..Len(Spans(batch[i])), NEW q \in SpanTokens(batch[i], Spans(batch[i])[k]),
           NEW r, r = Replacement(i, Spans(batch[i])[k], q)
    PROVE  \E o \in 0..nsched[batch[i]] - 1 : q = Start(batch[i]) + o /\ Planned(r, i, o)
<1> DEFINE s == batch[i]
           span == Spans(s)[k]
           g == ImagesOf[Prompt(s)][k]
           o == q - Start(s)
<1>1. s \in Range(batch)
  <2>1. batch \in Seq(SeqId)
    BY IInvParts
  <2> QED BY <2>1 DEF Range
<1>2. /\ s \in SeqId /\ tokens[s] \in Seq(Token) /\ Kept(s) /\ Start(s) \in Nat
      /\ nsched[s] \in Nat /\ End(s) = Start(s) + nsched[s]
  <2>1. /\ s \in SeqId /\ tokens[s] \in Seq(Token) /\ Kept(s) /\ ncached[s] \in Nat
        /\ nsched[s] \in Nat
    BY <1>1, BatchKept
  <2> HIDE DEF s
  <2> QED BY <2>1 DEF Start, End
<1>3. /\ span.key = g.key /\ span.length = TokenCount(g) /\ span.start \in Nat
      /\ span.length \in Nat /\ k \in 1..Len(ImagesOf[Prompt(s)])
      /\ \A x \in span.start..SpanEnd(span) - 1 :
            /\ TokenOf(s, x).mm = <<span.key, x - span.start>>
            /\ TokenOf(s, x).mm # NoVisual
  BY <1>2, SpanFacts
<1>4. q \in Start(s)..End(s) - 1 /\ q \in span.start..SpanEnd(span) - 1
  BY DEF SpanTokens
<1>5. r.row = RowStart(i) + o /\ r.key = span.key /\ r.feature = q - span.start
  BY DEF Replacement
<1> HIDE DEF s, span, g
<1>6. o \in 0..nsched[s] - 1 /\ q = Start(s) + o
  BY <1>2, <1>4
<1>7. r.feature \in 0..TokenCount(g) - 1
  BY <1>3, <1>4, <1>5 DEF SpanEnd
<1>8. TokenOf(s, Start(s) + o).mm = <<r.key, r.feature>> /\ TokenOf(s, Start(s) + o).mm # NoVisual
  <2>1. TokenOf(s, q).mm = <<r.key, r.feature>> /\ TokenOf(s, q).mm # NoVisual
    BY <1>3, <1>4, <1>5
  <2> QED BY <1>6, <2>1
<1>9. Planned(r, i, o)
  <2> HIDE DEF o
  <2> QED BY <1>3, <1>5, <1>7, <1>8 DEF Planned, s, g
<1> HIDE DEF o
<1> QED BY <1>6, <1>9 DEF s

LEMMA PlanOfFacts ==
    ASSUME IInv, PromptsKept, phase = "runPrefill", NEW i \in 1..Len(batch)
    PROVE  LET x == PlanOf(i)
           IN  /\ x \in Seq(Replacements) /\ Increasing(x)
               /\ \A a \in 1..Len(x) : \E o \in 0..nsched[batch[i]] - 1 : Planned(x[a], i, o)
               /\ \A o \in 0..nsched[batch[i]] - 1 :
                    TokenOf(batch[i], Start(batch[i]) + o).mm # NoVisual =>
                        \E a \in 1..Len(x) : Planned(x[a], i, o)
<1> DEFINE s == batch[i]
           m == Len(Spans(s))
           ss == [ k \in 1..m |-> Replaced(i, Spans(s)[k]) ]
           x == SE!FlattenSeq(ss)
<1>1. s \in Range(batch) /\ RowStart(i) \in Nat
  <2>1. batch \in Seq(SeqId)
    BY IInvParts
  <2> QED BY <2>1, PrefillRowsFacts DEF Range
<1>2. /\ s \in SeqId /\ tokens[s] \in Seq(Token) /\ Kept(s) /\ Start(s) \in Nat
      /\ nsched[s] \in Nat /\ End(s) = Start(s) + nsched[s] /\ End(s) <= NumTokens(s)
      /\ NumTokens(s) \in Nat
  <2>1. /\ s \in SeqId /\ tokens[s] \in Seq(Token) /\ Kept(s) /\ ncached[s] \in Nat
        /\ nsched[s] \in Nat /\ End(s) <= NumTokens(s) /\ NumTokens(s) \in Nat
    BY <1>1, BatchKept, IInvParts
  <2> HIDE DEF s
  <2> QED BY <2>1 DEF Start, End
<1>3. m \in Nat
  BY <1>2, SpanFacts
<1>4. ASSUME NEW k \in 1..m
      PROVE  /\ Replaced(i, Spans(s)[k]) \in Seq(Replacements) /\ Increasing(Replaced(i, Spans(s)[k]))
             /\ \A a \in 1..Len(Replaced(i, Spans(s)[k])) : \E q \in SpanTokens(s, Spans(s)[k]) :
                    Replaced(i, Spans(s)[k])[a] = Replacement(i, Spans(s)[k], q)
             /\ \A q \in SpanTokens(s, Spans(s)[k]) : \E a \in 1..Len(Replaced(i, Spans(s)[k])) :
                    Replaced(i, Spans(s)[k])[a] = Replacement(i, Spans(s)[k], q)
  BY ReplacedFacts
<1>5. ASSUME NEW j \in 1..m, NEW k \in 1..m, j < k, NEW q \in SpanTokens(s, Spans(s)[j]),
             NEW y \in SpanTokens(s, Spans(s)[k])
      PROVE  Replacement(i, Spans(s)[j], q).row < Replacement(i, Spans(s)[k], y).row
  <2>1. j \in 1..k - 1
    BY <1>3, <1>5
  <2>2. /\ SpanEnd(Spans(s)[j]) <= Spans(s)[k].start /\ Spans(s)[k].start \in Nat
        /\ Spans(s)[j].start \in Nat /\ Spans(s)[j].length \in Nat
    BY <1>2, <2>1, SpanFacts
  <2> DEFINE e == SpanEnd(Spans(s)[j])
             b == Spans(s)[k].start
  <2>3. e \in Nat
    BY <2>2 DEF SpanEnd
  <2>4. /\ q \in Start(s)..End(s) - 1 /\ y \in Start(s)..End(s) - 1 /\ q <= e - 1 /\ b <= y
    BY <2>2, <2>3 DEF SpanTokens
  <2>5. /\ Replacement(i, Spans(s)[j], q).row = RowStart(i) + (q - Start(s))
        /\ Replacement(i, Spans(s)[k], y).row = RowStart(i) + (y - Start(s))
    BY DEF Replacement
  <2>6. q < y /\ q \in Int /\ y \in Int
    <3> HIDE DEF e, b, s
    <3>1. e <= b /\ b \in Nat
      BY <2>2 DEF e, b
    <3> QED BY <1>2, <2>3, <2>4, <3>1
  <2> HIDE DEF s
  <2> QED BY <1>1, <1>2, <2>5, <2>6
<1>6. PlanOf(i) = x
  BY DEF PlanOf
<1>7. /\ ss \in Seq(Seq(Replacements)) /\ Len(ss) = m
      /\ \A k \in 1..m : ss[k] = Replaced(i, Spans(s)[k])
  BY <1>3, <1>4
<1> HIDE DEF ss, m, x
<1>8. \A k \in 1..Len(ss) : Increasing(ss[k])
  BY <1>4, <1>7
<1>9. ASSUME NEW j \in 1..m, NEW k \in 1..m, j < k PROVE Follows(ss[j], ss[k])
  <2> SUFFICES ASSUME NEW a \in 1..Len(ss[j]), NEW c \in 1..Len(ss[k])
               PROVE  ss[j][a].row < ss[k][c].row
    BY DEF Follows
  <2>1. PICK q \in SpanTokens(s, Spans(s)[j]) : ss[j][a] = Replacement(i, Spans(s)[j], q)
    BY <1>4, <1>7
  <2>2. PICK y \in SpanTokens(s, Spans(s)[k]) : ss[k][c] = Replacement(i, Spans(s)[k], y)
    BY <1>4, <1>7
  <2> QED BY <1>5, <1>9, <2>1, <2>2
<1>10. /\ x \in Seq(Replacements) /\ Increasing(x)
       /\ \A a \in 1..Len(x) : \E k \in 1..m : \E c \in 1..Len(ss[k]) : x[a] = ss[k][c]
       /\ \A k \in 1..m : \A c \in 1..Len(ss[k]) : \E a \in 1..Len(x) : x[a] = ss[k][c]
  <2>1. \A j, k \in 1..Len(ss) : j < k => Follows(ss[j], ss[k])
    BY <1>7, <1>9
  <2>2. LET y == SE!FlattenSeq(ss)
        IN  /\ y \in Seq(Replacements) /\ Increasing(y)
            /\ \A a \in 1..Len(y) : \E k \in 1..Len(ss) : \E c \in 1..Len(ss[k]) : y[a] = ss[k][c]
            /\ \A k \in 1..Len(ss) : \A c \in 1..Len(ss[k]) : \E a \in 1..Len(y) : y[a] = ss[k][c]
    BY <1>7, <1>8, <2>1, Flattened
  <2> QED BY <1>7, <2>2 DEF x
<1>11. ASSUME NEW a \in 1..Len(x)
       PROVE  \E o \in 0..nsched[s] - 1 : Planned(x[a], i, o)
  <2>1. PICK k \in 1..m : \E c \in 1..Len(ss[k]) : x[a] = ss[k][c]
    BY <1>10
  <2>2. PICK q \in SpanTokens(s, Spans(s)[k]) : x[a] = Replacement(i, Spans(s)[k], q)
    BY <1>4, <1>7, <2>1
  <2> QED BY <2>2, SpanTokenPlanned DEF m
<1>12. ASSUME NEW o \in 0..nsched[s] - 1, TokenOf(s, Start(s) + o).mm # NoVisual
       PROVE  \E a \in 1..Len(x) : Planned(x[a], i, o)
  <2>1. PICK q : q = Start(s) + o /\ q \in Start(s)..End(s) - 1 /\ q \in 0..NumTokens(s) - 1
    <3> HIDE DEF s
    <3> QED BY <1>2
  <2>2. PICK k \in 1..m : q \in Spans(s)[k].start..SpanEnd(Spans(s)[k]) - 1
    <3>1. TokenOf(s, q).mm # NoVisual
      BY <1>12, <2>1
    <3> QED BY <1>2, <2>1, <3>1, SpanFacts DEF m
  <2>3. q \in SpanTokens(s, Spans(s)[k])
    BY <2>1, <2>2 DEF SpanTokens
  <2>4. PICK c \in 1..Len(ss[k]) : ss[k][c] = Replacement(i, Spans(s)[k], q)
    <3>1. PICK c \in 1..Len(Replaced(i, Spans(s)[k])) :
            Replaced(i, Spans(s)[k])[c] = Replacement(i, Spans(s)[k], q)
      BY <1>4, <2>3
    <3> QED BY <1>7, <3>1
  <2>5. PICK a \in 1..Len(x) : x[a] = Replacement(i, Spans(s)[k], q)
    BY <1>10, <2>4
  <2>6. PICK y \in 0..nsched[s] - 1 : q = Start(s) + y /\ Planned(x[a], i, y)
    BY <2>3, <2>5, SpanTokenPlanned DEF m
  <2>7. y = o
    <3> HIDE DEF s
    <3> QED BY <1>2, <2>1, <2>6
  <2> QED BY <2>6, <2>7
<1> QED BY <1>6, <1>10, <1>11, <1>12

(* The plan of a batch: its visual tokens and nothing else, row by row.    *)
LEMMA PlanFacts ==
    ASSUME IInv, PromptsKept, phase = "runPrefill"
    PROVE  /\ Plan \in Seq(Replacements) /\ Increasing(Plan)
           /\ \A a \in 1..Len(Plan) : \E i \in 1..Len(batch) : \E o \in 0..nsched[batch[i]] - 1 :
                 Planned(Plan[a], i, o)
           /\ \A i \in 1..Len(batch) : \A o \in 0..nsched[batch[i]] - 1 :
                 TokenOf(batch[i], Start(batch[i]) + o).mm # NoVisual =>
                    \E a \in 1..Len(Plan) : Planned(Plan[a], i, o)
<1> DEFINE n == Len(batch)
           ss == [ i \in 1..n |-> PlanOf(i) ]
<1>1. n \in Nat
  BY IInvParts
<1>2. Plan = SE!FlattenSeq(ss)
  BY DEF Plan, PlanOf
<1>3. ASSUME NEW i \in 1..n
      PROVE  /\ PlanOf(i) \in Seq(Replacements) /\ Increasing(PlanOf(i))
             /\ \A a \in 1..Len(PlanOf(i)) : \E o \in 0..nsched[batch[i]] - 1 :
                   Planned(PlanOf(i)[a], i, o)
             /\ \A o \in 0..nsched[batch[i]] - 1 :
                   TokenOf(batch[i], Start(batch[i]) + o).mm # NoVisual =>
                       \E a \in 1..Len(PlanOf(i)) : Planned(PlanOf(i)[a], i, o)
  BY PlanOfFacts
<1>4. ss \in Seq(Seq(Replacements)) /\ Len(ss) = n /\ \A i \in 1..n : ss[i] = PlanOf(i)
  <2> HIDE DEF n
  <2> QED BY <1>1, <1>3
<1> HIDE DEF ss
<1>5. ASSUME NEW i \in 1..n, NEW j \in 1..n, i < j PROVE Follows(ss[i], ss[j])
  <2> SUFFICES ASSUME NEW a \in 1..Len(ss[i]), NEW b \in 1..Len(ss[j])
               PROVE  ss[i][a].row < ss[j][b].row
    BY DEF Follows
  <2>1. PICK o \in 0..nsched[batch[i]] - 1 : Planned(ss[i][a], i, o)
    BY <1>3, <1>4
  <2>2. PICK y \in 0..nsched[batch[j]] - 1 : Planned(ss[j][b], j, y)
    BY <1>3, <1>4
  <2>3. ss[i][a].row = RowStart(i) + o /\ ss[j][b].row = RowStart(j) + y
    BY <2>1, <2>2 DEF Planned
  <2>4. /\ RowStart(i) \in Nat /\ RowStart(j) \in Nat /\ nsched[batch[i]] \in Nat
        /\ RowStart(i) + nsched[batch[i]] <= RowStart(j)
    BY <1>5, RowsApart
  <2>5. o \in Nat /\ y \in Int /\ 0 <= y /\ o < nsched[batch[i]]
    BY <2>4
  <2> QED BY <2>3, <2>4, <2>5
<1>6. LET x == SE!FlattenSeq(ss)
      IN  /\ x \in Seq(Replacements) /\ Increasing(x)
          /\ \A a \in 1..Len(x) : \E i \in 1..Len(ss) : \E k \in 1..Len(ss[i]) : x[a] = ss[i][k]
          /\ \A i \in 1..Len(ss) : \A k \in 1..Len(ss[i]) : \E a \in 1..Len(x) : x[a] = ss[i][k]
  <2>1. \A i \in 1..Len(ss) : Increasing(ss[i])
    BY <1>3, <1>4
  <2>2. \A i, j \in 1..Len(ss) : i < j => Follows(ss[i], ss[j])
    BY <1>4, <1>5
  <2> QED BY <1>4, <2>1, <2>2, Flattened
<1>7. ASSUME NEW a \in 1..Len(Plan)
      PROVE  \E i \in 1..n : \E o \in 0..nsched[batch[i]] - 1 : Planned(Plan[a], i, o)
  <2>1. PICK i \in 1..n : \E k \in 1..Len(ss[i]) : Plan[a] = ss[i][k]
    BY <1>2, <1>4, <1>6
  <2> QED BY <1>3, <1>4, <2>1
<1>8. ASSUME NEW i \in 1..n, NEW o \in 0..nsched[batch[i]] - 1,
             TokenOf(batch[i], Start(batch[i]) + o).mm # NoVisual
      PROVE  \E a \in 1..Len(Plan) : Planned(Plan[a], i, o)
  <2>1. PICK k \in 1..Len(ss[i]) : Planned(ss[i][k], i, o)
    BY <1>3, <1>4, <1>8
  <2>2. PICK a \in 1..Len(Plan) : Plan[a] = ss[i][k]
    BY <1>2, <1>4, <1>6
  <2> QED BY <2>1, <2>2
<1> QED BY <1>2, <1>6, <1>7, <1>8

(* The rows of a plan are rows of the batch, each once.                    *)
LEMMA PlanRows ==
    ASSUME IInv, PromptsKept, phase = "runPrefill"
    PROVE  /\ \A a \in 1..Len(Plan) : Plan[a].row \in 0..RowCount - 1
           /\ \A a, b \in 1..Len(Plan) : Plan[a].row = Plan[b].row => a = b
           /\ Len(Plan) \in Nat /\ RowCount \in Nat
<1>1. Plan \in Seq(Replacements) /\ Increasing(Plan) /\ Len(Plan) \in Nat
  BY PlanFacts
<1>2. RowCount \in Nat /\ batch \in Seq(SeqId) /\ \A s \in SeqId : nsched[s] \in Nat
  BY IInvParts, PrefillRowsFacts
<1>3. ASSUME NEW a \in 1..Len(Plan) PROVE Plan[a].row \in 0..RowCount - 1
  <2>1. PICK i \in 1..Len(batch) : \E o \in 0..nsched[batch[i]] - 1 : Planned(Plan[a], i, o)
    BY PlanFacts
  <2>2. PICK o \in 0..nsched[batch[i]] - 1 : Plan[a].row = RowStart(i) + o
    BY <2>1 DEF Planned
  <2>3. nsched[batch[i]] \in Nat
    BY <1>2
  <2>4. PICK y \in 1..nsched[batch[i]] : y - 1 = o
    <3>1. o + 1 \in 1..nsched[batch[i]] /\ o + 1 - 1 = o
      BY <2>3
    <3> QED BY <3>1
  <2>5. RowStart(i) \in Nat /\ RowStart(i) + y \in 1..RowCount
    BY PrefillRowsFacts
  <2> QED BY <1>2, <2>2, <2>3, <2>4, <2>5
<1>4. ASSUME NEW a \in 1..Len(Plan), NEW b \in 1..Len(Plan), Plan[a].row = Plan[b].row
      PROVE  a = b
  <2>1. Plan[a].row \in Int /\ Plan[b].row \in Int
    BY <1>2, <1>3
  <2>2. ~ (a < b) /\ ~ (b < a)
    BY <1>1, <1>4, <2>1 DEF Increasing
  <2> QED BY <2>2
<1> QED BY <1>1, <1>2, <1>3, <1>4

(* The row of a token is planned iff it is a visual token, and then only   *)
(* for it.                                                                 *)
LEMMA PlannedRow ==
    ASSUME IInv, PromptsKept, phase = "runPrefill", NEW i \in 1..Len(batch),
           NEW o \in 0..nsched[batch[i]] - 1, NEW a \in 1..Len(Plan),
           Plan[a].row = RowStart(i) + o
    PROVE  Planned(Plan[a], i, o)
<1>1. PICK j \in 1..Len(batch) : \E x \in 0..nsched[batch[j]] - 1 : Planned(Plan[a], j, x)
  BY PlanFacts
<1>2. PICK x \in 0..nsched[batch[j]] - 1 : Planned(Plan[a], j, x)
  BY <1>1
<1>3. RowStart(i) + o = RowStart(j) + x
  BY <1>2 DEF Planned
<1>4. i = j /\ o = x
  BY <1>3, OneRow
<1> QED BY <1>2, <1>4

(* The packed token ids are those of the scheduled tokens, row for row.    *)
LEMMA PackedIds ==
    ASSUME IInv, PromptsKept, phase = "runPrefill", NEW i \in 1..Len(batch),
           NEW o \in 0..nsched[batch[i]] - 1
    PROVE  /\ RowStart(i) + o \in 0..RowCount - 1
           /\ InputIds[RowStart(i) + o + 1] = TokenOf(batch[i], Start(batch[i]) + o).id
<1> DEFINE T == { t.id : t \in Token }
           W(s) == SubSeq(Ids(tokens[s]), Start(s) + 1, End(s))
           ws == [ j \in 1..Len(batch) |-> W(batch[j]) ]
<1>1. /\ Len(batch) \in Nat /\ \A j \in 1..Len(batch) : batch[j] \in Range(batch)
  BY IInvParts DEF Range
<1>2. ASSUME NEW s \in Range(batch)
      PROVE  /\ W(s) \in Seq(T) /\ Len(W(s)) = nsched[s] /\ nsched[s] \in Nat /\ Start(s) \in Nat
             /\ \A y \in 1..nsched[s] : W(s)[y] = tokens[s][Start(s) + y].id
  <2>1. /\ tokens[s] \in Seq(Token) /\ Len(tokens[s]) \in Nat
        /\ Start(s) \in Nat /\ nsched[s] \in Nat /\ End(s) <= Len(tokens[s])
    BY BatchKept DEF NumTokens, Start
  <2>2. End(s) \in Nat /\ End(s) = Start(s) + nsched[s]
    BY <2>1 DEF Start, End
  <2> DEFINE ids == Ids(tokens[s])
  <2>3. ids \in Seq(T) /\ Len(ids) = Len(tokens[s])
        /\ \A j \in 1..Len(tokens[s]) : ids[j] = tokens[s][j].id
    <3>1. \A j \in 1..Len(tokens[s]) : tokens[s][j].id \in T
      BY <2>1
    <3> HIDE DEF T
    <3> QED BY <2>1, <3>1 DEF Ids
  <2> HIDE DEF T, ids
  <2>4. /\ W(s) \in Seq(T) /\ Len(W(s)) = nsched[s]
        /\ \A y \in 1..nsched[s] : W(s)[y] = ids[Start(s) + y]
    <3>1. W(s) = SubSeq(ids, Start(s) + 1, End(s))
      BY DEF ids
    <3> HIDE DEF W
    <3>2. /\ SubSeq(ids, Start(s) + 1, End(s)) \in Seq(T)
          /\ Len(SubSeq(ids, Start(s) + 1, End(s))) = nsched[s]
          /\ \A y \in 1..nsched[s] : SubSeq(ids, Start(s) + 1, End(s))[y] = ids[Start(s) + y]
      <4> DEFINE a == Start(s)
                 b == End(s)
                 n == nsched[s]
                 m == Len(tokens[s])
      <4>1. a \in Nat /\ b \in Nat /\ n \in Nat /\ m \in Nat /\ b = a + n /\ b <= m
            /\ ids \in Seq(T) /\ Len(ids) = m
        BY <2>1, <2>2, <2>3
      <4> HIDE DEF a, b, n, m
      <4>2. /\ SubSeq(ids, a + 1, b) \in Seq(T) /\ Len(SubSeq(ids, a + 1, b)) = n
            /\ \A y \in 1..n : SubSeq(ids, a + 1, b)[y] = ids[a + y]
        BY <4>1
      <4> QED BY <4>2 DEF a, b, n
    <3> QED BY <3>1, <3>2
  <2>5. \A y \in 1..nsched[s] : Start(s) + y \in 1..Len(tokens[s])
    BY <2>1, <2>2
  <2> HIDE DEF W
  <2> QED BY <2>1, <2>3, <2>4, <2>5
<1> HIDE DEF T, W
<1>3. /\ ws \in Seq(Seq(T)) /\ Len(ws) = Len(batch)
      /\ \A j \in 1..Len(batch) : ws[j] = W(batch[j]) /\ Len(ws[j]) = nsched[batch[j]]
  BY <1>1, <1>2
<1>4. InputIds = SE!FlattenSeq(ws)
  BY DEF InputIds, W
<1> HIDE DEF ws
<1>5. \A y \in 1..nsched[batch[i]] :
        /\ RowStart(i) \in Nat /\ RowStart(i) + y \in 1..RowCount
        /\ InputIds[RowStart(i) + y] = ws[i][y]
  BY <1>3, <1>4, Packed
<1> DEFINE s == batch[i]
           m == nsched[s]
           r == RowStart(i)
           n == RowCount
<1>6. m \in Nat /\ Start(s) \in Nat /\ s \in Range(batch)
  BY <1>1, <1>2
<1>7. PICK y \in 1..m : o = y - 1
  <2>1. o + 1 \in 1..m /\ o = (o + 1) - 1
    BY <1>6
  <2> QED BY <2>1
<1>8. /\ r \in Nat /\ r + y \in 1..n
      /\ InputIds[r + y] = ws[i][y] /\ ws[i][y] = tokens[s][Start(s) + y].id
  <2>1. /\ r \in Nat /\ r + y \in 1..n /\ InputIds[r + y] = ws[i][y]
    BY <1>5, <1>7
  <2>2. ws[i] = W(s)
    BY <1>3
  <2>3. W(s)[y] = tokens[s][Start(s) + y].id
    BY <1>2, <1>6, <1>7
  <2> QED BY <2>1, <2>2, <2>3
<1>9. n \in Nat
  BY IInvParts, PrefillRowsFacts
<1> HIDE DEF s, m, r, n
<1>10. r + o + 1 = r + y /\ Start(s) + o + 1 = Start(s) + y /\ r + o \in 0..n - 1
  BY <1>6, <1>7, <1>8, <1>9
<1> QED BY <1>8, <1>10 DEF TokenOf, s, r, n

(* A feature key names one image: the row a plan asks for is there.        *)
LEMMA KeyNames ==
    ASSUME NEW G, G \subseteq Images, NEW g \in G
    PROVE  (CHOOSE h \in G : h.key = g.key) = g
  BY PromptsAssumption

LEMMA FeaturesKnown ==
    ASSUME IInv, PromptsKept, phase = "runPrefill"
    PROVE  ~ FeaturesRefused
<1> DEFINE G == UNION { Range(ImagesOf[Prompt(s)]) : s \in Range(batch) }
<1>1. G \subseteq Images
  <2> SUFFICES ASSUME NEW s \in Range(batch) PROVE Range(ImagesOf[Prompt(s)]) \subseteq Images
    OBVIOUS
  <2>1. ImagesOf[Prompt(s)] \in Seq(Images)
    BY BatchKept, SpanFacts
  <2> QED BY <2>1 DEF Range
<1>2. ASSUME NEW a \in 1..Len(Plan) PROVE Plan[a].feature \in 0..FeatureCount(Plan[a].key) - 1
  <2>1. PICK i \in 1..Len(batch) : \E o \in 0..nsched[batch[i]] - 1 : Planned(Plan[a], i, o)
    BY PlanFacts
  <2>2. PICK k \in 1..Len(ImagesOf[Prompt(batch[i])]) :
          LET g == ImagesOf[Prompt(batch[i])][k]
          IN  Plan[a].key = g.key /\ Plan[a].feature \in 0..TokenCount(g) - 1
    BY <2>1 DEF Planned
  <2> DEFINE g == ImagesOf[Prompt(batch[i])][k]
  <2>3. batch[i] \in Range(batch) /\ ImagesOf[Prompt(batch[i])] \in Seq(Images)
    <3>1. batch[i] \in Range(batch)
      BY IInvParts DEF Range
    <3> QED BY <3>1, BatchKept, SpanFacts
  <2>4. g \in G
    BY <2>3 DEF Range
  <2>5. FeatureCount(Plan[a].key) = TokenCount(CHOOSE h \in G : h.key = g.key)
    BY <2>2 DEF FeatureCount
  <2> HIDE DEF g, G
  <2>6. (CHOOSE h \in G : h.key = g.key) = g
    BY <1>1, <2>4, KeyNames
  <2> QED BY <2>2, <2>5, <2>6 DEF g
<1>3. Plan \in Seq(Replacements)
  BY PlanFacts
<1> QED BY <1>2, <1>3 DEF FeaturesRefused, Range

(* Nothing refuses a batch: the plan, the positions and the DeepStack rows *)
(* pass the checks on the way to the model.                                *)
LEMMA NothingRefused ==
    ASSUME IInv, PromptsKept, phase = "runPrefill"
    PROVE  ~ (PlanRefused \/ FeaturesRefused \/ InputsRefused \/ DeepStackRefused)
<1>1. Plan \in Seq(Replacements) /\ Increasing(Plan) /\ Len(Plan) \in Nat
      /\ \A a \in 1..Len(Plan) : Plan[a].row \in Int
  BY PlanFacts, PlanRows
<1>2. /\ \A a \in 1..Len(Plan) : Plan[a].row \in 0..RowCount - 1
      /\ \A a, b \in 1..Len(Plan) : Plan[a].row = Plan[b].row => a = b
      /\ RowCount \in Nat
  BY PlanRows
<1>3. ~ PlanRefused
  <2>1. ASSUME NEW j \in 1..Len(Plan) - 1 PROVE ~ (Plan[j].row >= Plan[j + 1].row)
    <3>1. PICK k \in 1..Len(Plan) : k = j + 1
      <4>1. j + 1 \in 1..Len(Plan)
        BY <1>1
      <4> QED BY <4>1
    <3>2. j \in 1..Len(Plan) /\ j < k
      BY <1>1, <3>1
    <3>3. Plan[j].row < Plan[k].row /\ Plan[j].row \in Int /\ Plan[k].row \in Int
      BY <1>1, <3>2 DEF Increasing
    <3> QED BY <3>1, <3>3
  <2>2. ASSUME Plan # << >> PROVE ~ (Plan[1].row < 0 \/ Last(Plan).row >= RowCount)
    <3>1. 1 \in 1..Len(Plan) /\ Len(Plan) \in 1..Len(Plan)
      BY <1>1, <2>2
    <3>2. Last(Plan) = Plan[Len(Plan)]
      BY DEF Last
    <3>3. Plan[1].row \in 0..RowCount - 1 /\ Plan[Len(Plan)].row \in 0..RowCount - 1
      BY <1>2, <3>1
    <3> QED BY <1>2, <3>2, <3>3
  <2> QED BY <2>1, <2>2 DEF PlanRefused
<1>4. ~ InputsRefused
  BY PrefillPositioned DEF InputsRefused
<1>5. ~ DeepStackRefused
  <2>1. VisualRows \in Seq(Int) /\ Len(VisualRows) = Len(Plan) /\ Len(DeepStack) = Len(Plan)
        /\ DOMAIN VisualRows = 1..Len(Plan)
        /\ \A a \in 1..Len(Plan) : VisualRows[a] = Plan[a].row
    BY <1>1 DEF VisualRows, DeepStack
  <2>2. Range(VisualRows) \subseteq 0..RowCount - 1
    BY <1>2, <2>1 DEF Range
  <2>3. Injective(VisualRows)
    BY <1>2, <2>1 DEF Injective
  <2>4. Cardinality(Range(VisualRows)) = Len(VisualRows)
    BY <2>1, <2>3, RangeSize
  <2> QED BY <2>1, <2>2, <2>4 DEF DeepStackRefused
<1> QED BY <1>3, <1>4, <1>5, FeaturesKnown

(* What a row is given: the feature its visual token names, or its token's *)
(* own embedding and no addition.                                          *)
LEMMA RowEmbedded ==
    ASSUME IInv, PromptsKept, phase = "runPrefill", NEW i \in 1..Len(batch),
           NEW o \in 0..nsched[batch[i]] - 1
    PROVE  LET t   == TokenOf(batch[i], Start(batch[i]) + o)
               row == RowStart(i) + o
           IN  /\ Merged[row] = IF t.mm = NoVisual THEN <<"token", t.id>> ELSE t.mm
               /\ AddedTo(row) = IF t.mm = NoVisual THEN {} ELSE {t.mm}
<1> DEFINE t   == TokenOf(batch[i], Start(batch[i]) + o)
           row == RowStart(i) + o
           features == Features({ r.key : r \in Range(Plan) })
           n == RowCount
<1>1. /\ row \in 0..n - 1 /\ InputIds[row + 1] = t.id
  BY PackedIds
<1>2. \A a \in 1..Len(Plan) : Plan[a].row = row => t.mm = <<Plan[a].key, Plan[a].feature>>
                                                   /\ t.mm # NoVisual
  BY PlannedRow DEF Planned
<1>3. /\ \A a, b \in 1..Len(Plan) : Plan[a].row = Plan[b].row => a = b
      /\ DOMAIN Plan = 1..Len(Plan)
  BY PlanRows, PlanFacts
<1>4. t.mm # NoVisual => \E a \in 1..Len(Plan) : Plan[a].row = row
  BY PlanFacts DEF Planned
<1>5. \A f : f \in features <=>
        \E a \in 1..Len(Plan) : f = <<Plan[a].row, <<Plan[a].key, Plan[a].feature>>>>
  <2>1. ASSUME NEW f \in features
        PROVE  \E a \in 1..Len(Plan) : f = <<Plan[a].row, <<Plan[a].key, Plan[a].feature>>>>
    BY <1>3 DEF Features, Group
  <2>2. ASSUME NEW a \in 1..Len(Plan)
        PROVE  <<Plan[a].row, <<Plan[a].key, Plan[a].feature>>>> \in features
    <3>1. Plan[a].key \in { r.key : r \in Range(Plan) } /\ a \in Group(Plan[a].key)
      BY <1>3 DEF Group, Range
    <3> QED BY <3>1 DEF Features
  <2> QED BY <2>1, <2>2
<1>6. Merged = [ x \in 0..n - 1 |->
                   IF \E f \in features : f[1] = x
                   THEN (CHOOSE f \in features : f[1] = x)[2]
                   ELSE <<"token", InputIds[x + 1]>> ]
  BY DEF Merged
<1> HIDE DEF features, t, row, n
<1>7. Merged[row] = IF \E f \in features : f[1] = row
                    THEN (CHOOSE f \in features : f[1] = row)[2]
                    ELSE <<"token", InputIds[row + 1]>>
  BY <1>1, <1>6
<1>8. AddedTo(row) = { DeepStack[k] : k \in { j \in 1..Len(Plan) : Plan[j].row = row } }
  <2>1. Len(Plan) \in Nat
    BY PlanRows
  <2>2. /\ DOMAIN VisualRows = 1..Len(Plan)
        /\ \A j \in 1..Len(Plan) : VisualRows[j] = Plan[j].row
    BY <2>1 DEF VisualRows
  <2> QED BY <2>2 DEF AddedTo
<1>9. \A k \in 1..Len(Plan) : DeepStack[k] = <<Plan[k].key, Plan[k].feature>>
  BY DEF DeepStack
<1>10. CASE t.mm = NoVisual
  <2>1. ~ \E a \in 1..Len(Plan) : Plan[a].row = row
    BY <1>2, <1>10
  <2>2. ~ \E f \in features : f[1] = row
    BY <1>5, <2>1
  <2>3. Merged[row] = <<"token", t.id>>
    BY <1>1, <1>7, <2>2
  <2>4. AddedTo(row) = {}
    BY <1>8, <2>1
  <2> QED BY <1>10, <2>3, <2>4 DEF t, row
<1>11. CASE t.mm # NoVisual
  <2>1. PICK a \in 1..Len(Plan) : Plan[a].row = row
    BY <1>4, <1>11
  <2>2. t.mm = <<Plan[a].key, Plan[a].feature>>
    BY <1>2, <2>1
  <2>3. <<row, t.mm>> \in features
    BY <1>5, <2>1, <2>2
  <2>4. ASSUME NEW f \in features, f[1] = row PROVE f[2] = t.mm
    <3>1. PICK b \in 1..Len(Plan) : f = <<Plan[b].row, <<Plan[b].key, Plan[b].feature>>>>
      BY <1>5
    <3>2. Plan[b].row = row
      BY <2>4, <3>1
    <3> QED BY <1>2, <3>1, <3>2
  <2>5. \E f \in features : f[1] = row
    BY <2>3
  <2>6. (CHOOSE f \in features : f[1] = row)[2] = t.mm
    BY <2>4, <2>5
  <2>7. Merged[row] = t.mm
    BY <1>7, <2>5, <2>6
  <2>8. AddedTo(row) = {t.mm}
    <3>1. { j \in 1..Len(Plan) : Plan[j].row = row } = {a}
      BY <1>3, <2>1
    <3> QED BY <1>8, <1>9, <2>2, <3>1
  <2> QED BY <1>11, <2>7, <2>8 DEF t, row
<1> QED BY <1>10, <1>11

(* Every visual token gets the feature row its cache key names, in the     *)
(* embedding and in each DeepStack layer, every text token its own         *)
(* embedding, and no batch is refused on the way - however prompts are cut *)
(* into chunks, packed with others and continued from cached blocks.       *)
THEOREM RowsAlwaysEmbedded == Spec => []RowsEmbedded
<1>1. IInv /\ PromptsKept => RowsEmbedded
  BY NothingRefused, RowEmbedded DEF RowsEmbedded
<1> QED BY <1>1, PromptsInvariant, PTL

-----------------------------------------------------------------------------
(* Decoding with captured graphs.                                          *)

(* A replay is a run of the batch, and every other step is one of the      *)
(* engine: what holds of the engine holds with graphs.                     *)
THEOREM GraphRunsEngine == GraphSpec => Spec
<1>1. GraphInit => Init
  BY DEF GraphInit
<1>2. [GraphNext]_graphVars => [Next]_vars
  BY DEF GraphNext, Replay, Next, EngineStep, graphVars
<1> QED BY <1>1, <1>2, PTL DEF GraphSpec, Spec

(* A live request has generated fewer tokens than it may; a batch keeps    *)
(* within max_num_seqs, also while a request is looking for its slot, and  *)
(* one that is decoded is not empty.                                       *)
LengthsBounded == \A s \in SeqId : Live(s) => NumTokens(s) - nprompt[s] < MaxTokens
BatchBounded ==
    /\ Len(batch) <= MaxNumSeqs
    /\ phase = "append" => Len(batch) < MaxNumSeqs
    /\ phase = "runDecode" => batch # << >>

LEMMA NextLengths ==
    ASSUME MaxTokens # 0, IInv, IInv', PromptsKept, LengthsBounded, [Next]_vars
    PROVE  LengthsBounded'
<1> SUFFICES ASSUME NEW s \in SeqId, Live(s)' PROVE (NumTokens(s) - nprompt[s] < MaxTokens)'
  BY DEF LengthsBounded
<1>1. /\ tokens[s] \in Seq(Token) /\ NumTokens(s) \in Nat /\ Len(tokens[s]) = NumTokens(s)
      /\ MaxTokens \in Nat
  BY IInvParts, SchedulerAssumption DEF NumTokens
<1>2. CASE SameTokens(s)
  BY <1>2 DEF SameTokens, LengthsBounded, NumTokens
<1>3. CASE ExtendedNow(s)
  <2>1. NumTokens(s)' = NumTokens(s) + 1
    BY <1>1, <1>3 DEF ExtendedNow, NumTokens
  <2>2. nprompt[s] \in Nat /\ NumTokens(s) - nprompt[s] < MaxTokens
    BY <1>3 DEF ExtendedNow, LengthsBounded, PromptsKept, Kept
  <2>3. NumTokens(s) + 1 - nprompt[s] # MaxTokens /\ nprompt'[s] = nprompt[s]
    BY <1>3 DEF ExtendedNow
  <2> QED BY <1>1, <2>1, <2>2, <2>3
<1>4. CASE SubmittedNow(s)
  <2>1. PICK p \in Prompts : tokens'[s] = p /\ nprompt'[s] = Len(p)
    BY <1>4 DEF SubmittedNow
  <2>2. Len(p) \in Nat
    BY SchedulerAssumption
  <2> QED BY <1>1, <2>1, <2>2 DEF NumTokens
<1> QED BY <1>2, <1>3, <1>4, TokensMove

LEMMA NextBatch ==
    ASSUME IInv, BatchBounded, [Next]_vars
    PROVE  BatchBounded'
<1>1. /\ batch \in Seq(SeqId) /\ Len(batch) \in Nat /\ MaxNumSeqs \in Nat \ {0}
      /\ waiting \in Seq(SeqId)
  BY IInvParts, SchedulerAssumption
<1>2. CASE StartStep
  BY <1>1, <1>2 DEF StartStep, BatchBounded
<1>3. CASE EndPrefill
  BY <1>3 DEF EndPrefill, BatchBounded
<1>4. CASE PrefillHead
  <2>1. Head(waiting) \in SeqId
    BY <1>1, <1>4 DEF PrefillHead, CanPrefillHead
  <2>2. batch' = Append(batch, Head(waiting)) /\ phase' = "prefill" /\ Len(batch) < MaxNumSeqs
    BY <1>4 DEF PrefillHead, CanPrefillHead
  <2>3. Len(batch') = Len(batch) + 1
    BY <1>1, <2>1, <2>2
  <2> QED BY <1>1, <2>2, <2>3 DEF BatchBounded
<1>5. CASE DecodeHead
  BY <1>5 DEF DecodeHead, CanDecodeMore, BatchBounded
<1>6. CASE PreemptTail \/ PreemptSelf
  BY <1>6 DEF PreemptTail, PreemptSelf, BatchBounded, stepVars
<1>7. CASE ScheduleDecode
  <2>1. batch' = Append(batch, cur) /\ phase' = "decode" /\ phase = "append"
    BY <1>7 DEF ScheduleDecode
  <2>2. cur \in SeqId
    BY <2>1, IInvParts DEF BatchCovered, EngineTypeOK
  <2>3. Len(batch') = Len(batch) + 1
    BY <1>1, <2>1, <2>2
  <2> QED BY <1>1, <2>1, <2>3 DEF BatchBounded
<1>8. CASE EndDecode
  BY <1>8 DEF EndDecode, BatchBounded
<1>9. CASE Execute
  BY <1>9 DEF Execute, Run, BatchBounded
<1>10. CASE ExecuteRaises
  BY <1>1, <1>10 DEF ExecuteRaises, RunRaises, BatchBounded
<1>11. CASE PostChunk \/ \E t \in Sampled : PostToken(t)
  <2>1. phase \in {"postPrefill", "postDecode"} /\ NextPost
    BY <1>11 DEF PostChunk, PostToken
  <2>2. batch # << >> /\ batch' = Tail(batch) /\ phase' \in {"idle", "postPrefill", "postDecode"}
    BY <2>1, NextPostFacts DEF NextPost
  <2>3. Len(batch') = Len(batch) - 1
    BY <1>1, <2>2
  <2> QED BY <1>1, <2>2, <2>3 DEF BatchBounded
<1>12. ASSUME NEW s \in SeqId, Abort(s) \/ \E p \in Prompts : Add(s, p)
       PROVE  BatchBounded'
  BY <1>12 DEF Abort, Add, BatchBounded, stepVars
<1>13. CASE UNCHANGED vars
  BY <1>13 DEF BatchBounded, vars, schedVars, stepVars
<1> QED BY <1>2, <1>3, <1>4, <1>5, <1>6, <1>7, <1>8, <1>9, <1>10, <1>11, <1>12, <1>13
        DEF Next, EngineStep

LEMMA InitBounded == Init => LengthsBounded /\ BatchBounded
  BY SchedulerAssumption DEF Init, InitScheduler, LengthsBounded, BatchBounded, Live

-----------------------------------------------------------------------------
(* Rows of the buffers keep their fields, whatever is written into them.   *)
BufferRow(x) ==
    x = [id |-> x.id, position |-> x.position, slot |-> x.slot, len |-> x.len,
         blocks |-> x.blocks]
BuffersOK == \A r \in 1..BufferRows : BufferRow(graph[r])

LEMMA StaleRows ==
    ASSUME BuffersOK, NEW r \in 1..BufferRows
    PROVE  BufferRow(StaleRow(r)) /\ StaleRow(r).slot = -1 /\ StaleRow(r).len = 0
<1> DEFINE x == graph[r]
<1>1. x = [id |-> x.id, position |-> x.position, slot |-> x.slot, len |-> x.len,
           blocks |-> x.blocks]
  BY DEF BuffersOK, BufferRow
<1>2. StaleRow(r) = [x EXCEPT !.slot = -1, !.len = 0]
  BY DEF StaleRow
<1> HIDE DEF x
<1>3. StaleRow(r) = [id |-> x.id, position |-> x.position, slot |-> -1, len |-> 0,
                     blocks |-> x.blocks]
  BY <1>1, <1>2
<1> QED BY <1>3 DEF BufferRow

LEMMA NextBuffers ==
    ASSUME BuffersOK, [GraphNext]_graphVars
    PROVE  BuffersOK'
<1>1. graph' = graph \/ graph' = Loaded
  BY DEF GraphNext, Replay, BuffersKept, graphVars
<1>2. ASSUME NEW r \in 1..BufferRows PROVE BufferRow(Loaded[r])
  <2>1. Loaded[r] = IF r <= Len(batch) THEN LoadedRow(r) ELSE StaleRow(r)
    BY DEF Loaded
  <2>2. BufferRow(LoadedRow(r))
    BY DEF BufferRow, LoadedRow
  <2> QED BY <2>1, <2>2, StaleRows
<1> QED BY <1>1, <1>2 DEF BuffersOK

LEMMA InitBuffers == GraphInit => BuffersOK
<1> SUFFICES ASSUME GraphInit, NEW r \in 1..BufferRows PROVE BufferRow(graph[r])
  BY DEF BuffersOK
<1> DEFINE none == [ b \in 1..BufferColumns |-> 0 ]
<1>1. graph[r] = [id |-> 0, position |-> <<0, 0, 0>>, slot |-> 0, len |-> 0, blocks |-> none]
  BY DEF GraphInit, Capture
<1> HIDE DEF none
<1> QED BY <1>1 DEF BufferRow

-----------------------------------------------------------------------------
(* What the configuration has to provide: a graph as large as the largest  *)
(* batch that is replayed, so max_num_seqs up to 8 or a multiple of 16,    *)
(* and requests that fit max_model_len.                                    *)
GraphsCaptured == \E g \in GraphSizes : g >= BufferRows
RequestsFit    == MaxTokens # 0 /\ \A p \in Prompts : Len(p) + MaxTokens - 1 <= MaxModelLen

LEMMA BlocksFor ==
    ASSUME NEW B \in Nat \ {0}, NEW n \in Nat, NEW k \in Nat, k = 0 \/ (k - 1) * B < n
    PROVE  k <= (n + B - 1) \div B
<1> DEFINE q == (n + B - 1) \div B
           r == (n + B - 1) % B
<1>1. q \in Nat /\ r \in 0..B - 1 /\ n + B - 1 = B * q + r
  <2>1. n + B - 1 \in Nat
    OBVIOUS
  <2> QED BY <2>1, Quotient
<1> HIDE DEF q, r
<1>2. SUFFICES ASSUME k > q PROVE FALSE
  BY <1>1 DEF q
<1>3. (k - 1) * B < n /\ k - 1 \in Nat /\ q <= k - 1
  BY <1>1, <1>2
<1>4. q * B <= (k - 1) * B /\ B * q = q * B /\ (k - 1) * B \in Nat /\ q * B \in Nat
  BY <1>1, <1>3
<1> QED BY <1>1, <1>3, <1>4

(* Every block table fits the buffers.                                     *)
LEMMA TablesFit ==
    ASSUME IInv, CacheInv, PromptsKept, LengthsBounded, BatchBounded, RequestsFit,
           phase = "runDecode"
    PROVE  TableWidth \in Nat /\ TableWidth <= BufferColumns
<1>1. batch \in Seq(SeqId) /\ batch # << >> /\ batch[1] \in Range(batch)
  BY IInvParts DEF BatchBounded, Range
<1>2. TableWidth \in Nat
  BY <1>1, PaddedTables
<1>3. PICK s \in Range(batch) : TableWidth = Len(table[s])
  BY <1>1, PaddedTables
<1>4. /\ s \in SeqId /\ Kept(s) /\ BatchCovered /\ QueuesOK /\ NumTokens(s) \in Nat
      /\ table[s] \in Seq(Block) /\ tokens[s] \in Seq(Token)
  BY IInvParts, BatchKept
<1>5. Live(s) /\ table[s] # << >>
  BY <1>4 DEF BatchCovered, RunPhases, QueuesOK, OnePlaceEach, LiveSet
<1>6. NumTokens(s) - nprompt[s] < MaxTokens /\ (Len(table[s]) - 1) * BlockSize < NumTokens(s)
  BY <1>4, <1>5 DEF LengthsBounded, CacheInv, Progress, Tight
<1>7. NumTokens(s) <= MaxModelLen
  <2>1. Prompt(s) \in Prompts /\ Len(Prompt(s)) = nprompt[s] /\ nprompt[s] \in Nat
    BY <1>4, KeptPrompt
  <2>2. Len(Prompt(s)) + MaxTokens - 1 <= MaxModelLen
    BY <2>1 DEF RequestsFit
  <2> QED BY <1>4, <1>6, <2>1, <2>2, SchedulerAssumption, GraphAssumption
<1> DEFINE k == TableWidth
           n == NumTokens(s)
<1>8. /\ k \in Nat /\ n \in Nat /\ n <= MaxModelLen /\ (k - 1) * BlockSize < n
      /\ BlockSize \in Nat \ {0} /\ MaxModelLen \in Nat
  BY <1>2, <1>3, <1>4, <1>6, <1>7, PoolAssumption, GraphAssumption
<1> HIDE DEF k, n
<1>9. (k - 1) * BlockSize < MaxModelLen
  <2>1. (k - 1) * BlockSize \in Int
    BY <1>8
  <2> QED BY <1>8, <2>1
<1>10. k <= (MaxModelLen + BlockSize - 1) \div BlockSize
  BY <1>8, <1>9, BlocksFor
<1> QED BY <1>8, <1>10 DEF BufferColumns, k

(* Some captured graph holds the batch; of its rows those of the buffers   *)
(* are replayed, the batch's among them.                                   *)
LEMMA GraphHolds ==
    ASSUME IInv, BatchBounded, GraphsCaptured, phase = "runDecode", ~ Eager
    PROVE  /\ Fitting(Len(batch)) # {}
           /\ \E m \in Nat : /\ ReplayedRows = 1..m /\ Len(batch) <= m /\ m <= BufferRows
<1>1. /\ Len(batch) \in Nat /\ BufferRows \in Nat /\ Len(batch) <= BufferRows
      /\ BufferRows <= MaxNumSeqs
  <2>1. Len(batch) \in Nat /\ Len(batch) <= MaxNumSeqs /\ Len(batch) <= MaxGraphBatch
    BY IInvParts, GraphAssumption DEF BatchBounded, Eager
  <2>2. MaxNumSeqs \in Nat /\ MaxGraphBatch \in Nat
    BY SchedulerAssumption, GraphAssumption
  <2> QED BY <2>1, <2>2 DEF BufferRows, Min2
<1>2. GraphSizes \subseteq Nat
  <2>1. SmallGraphs \subseteq Nat /\ GraphStep \in Nat
    BY GraphAssumption
  <2>2. GraphStep..BufferRows \subseteq Nat
    BY <1>1, <2>1
  <2> QED BY <2>1, <2>2 DEF GraphSizes
<1> DEFINE N == Fitting(Len(batch))
<1>3. N # {} /\ N \in SUBSET Nat /\ \A g \in N : g >= Len(batch)
  <2>1. PICK g \in GraphSizes : g >= BufferRows
    BY DEF GraphsCaptured
  <2>2. g \in Nat /\ g >= Len(batch)
    BY <1>1, <1>2, <2>1
  <2> QED BY <1>2, <2>1, <2>2 DEF Fitting
<1> DEFINE g == SE!Min(N)
<1>4. g \in N
  <2>1. \E x \in N : \A y \in N : x <= y
    <3> HIDE DEF N
    <3> QED BY <1>3, LeastNatural
  <2>2. g = CHOOSE x \in N : \A y \in N : x <= y
    BY DEF SE!Min
  <2> HIDE DEF N, g
  <2> QED BY <2>1, <2>2
<1>5. ReplayedRows = 1..Min2(g, BufferRows)
  BY DEF ReplayedRows
<1>6. g \in Nat /\ g >= Len(batch)
  BY <1>3, <1>4
<1> HIDE DEF g
<1>7. Min2(g, BufferRows) \in Nat /\ Len(batch) <= Min2(g, BufferRows)
      /\ Min2(g, BufferRows) <= BufferRows
  BY <1>1, <1>6 DEF Min2
<1> QED BY <1>3, <1>5, <1>7

(* The rows of the batch, as run_model loads them.                         *)
LEMMA LoadedRows ==
    ASSUME IInv, CacheInv, PromptsKept, DecodesGenerated, LengthsBounded, BatchBounded,
           RequestsFit, ~ resumed, phase = "runDecode",
           NEW r \in 1..Len(batch), r \in 1..BufferRows
    PROVE  LET x == Loaded[r]
               s == batch[r]
           IN  /\ s \in Range(batch)
               /\ x.id = TokenOf(s, NumTokens(s) - 1).id
               /\ x.position = Reference(s)[NumTokens(s) - 1]
               /\ x.slot = SlotOf(s, NumTokens(s) - 1) /\ x.slot \in SlotNumbers
               /\ x.len = NumTokens(s)
               /\ \A b \in 1..Len(table[s]) : x.blocks[b] = table[s][b]
<1> DEFINE s == batch[r]
           x == Loaded[r]
<1>1. /\ s \in Range(batch) /\ s \in SeqId /\ NumTokens(s) \in Nat /\ tokens[s] \in Seq(Token)
      /\ Len(table[s]) \in Nat /\ r <= Len(batch)
  <2>1. s \in Range(batch) /\ Len(batch) \in Nat
    BY IInvParts DEF Range
  <2> QED BY <2>1, IInvParts
<1>2. /\ x.id = Last(tokens[s]).id /\ x.position = DecodePosition(s)
      /\ x.slot = DecodeSlot(s) /\ x.len = NumTokens(s)
      /\ x.blocks = [ b \in 1..BufferColumns |->
                        IF b <= TableWidth THEN PaddedTable(s)[b] ELSE graph[r].blocks[b] ]
  <2>1. x = LoadedRow(r)
    BY <1>1 DEF Loaded
  <2> QED BY <2>1 DEF LoadedRow
<1> HIDE DEF x, s
<1>3. Last(tokens[s]) = TokenOf(s, NumTokens(s) - 1)
  BY <1>1 DEF Last, TokenOf, NumTokens
<1>4. DecodePosition(s) = Reference(s)[NumTokens(s) - 1]
  BY <1>1, PositionsExact DEF RowsPositioned
<1>5. /\ Last(table[s]) = BlockAt(s, NumTokens(s) - 1)
      /\ DecodeOffset(s) = (NumTokens(s) - 1) % BlockSize
      /\ NumTokens(s) - 1 \in NewTokens(s)
  BY <1>1, DecodedToken
<1>6. DecodeSlot(s) = SlotOf(s, NumTokens(s) - 1)
  BY <1>5 DEF DecodeSlot, SlotOf
<1>7. SlotOf(s, NumTokens(s) - 1) \in SlotNumbers
  <2>1. PICK q \in NewTokens(s) : q = NumTokens(s) - 1
    BY <1>5
  <2>2. q \in Nat /\ q \div BlockSize < Len(table[s])
    BY <1>1, <2>1, NewTokenSlot
  <2> QED BY <1>1, <2>1, <2>2, TokenSlot
<1>8. ASSUME NEW b \in 1..Len(table[s]) PROVE x.blocks[b] = table[s][b]
  <2>1. TableWidth \in Nat /\ TableWidth <= BufferColumns
    BY TablesFit
  <2>2. TableWidth >= Len(table[s]) /\ PaddedTable(s)[b] = table[s][b]
    BY <1>1, PaddedTables
  <2>3. b \in 1..BufferColumns /\ b <= TableWidth
    <3>1. BufferColumns \in Int
      <4>1. MaxModelLen + BlockSize - 1 \in Nat /\ BlockSize \in Nat \ {0}
        BY PoolAssumption, GraphAssumption
      <4> QED BY <4>1, Quotient DEF BufferColumns
    <3> HIDE DEF BufferColumns, TableWidth
    <3> QED BY <1>1, <2>1, <2>2, <3>1
  <2> HIDE DEF BufferColumns, TableWidth
  <2> QED BY <1>2, <2>2, <2>3
<1> QED BY <1>1, <1>2, <1>3, <1>4, <1>6, <1>7, <1>8 DEF x, s

(* The rows that only pad the graph are skipped by every store; what the   *)
(* others store is what the batch stores without a graph.                  *)
LEMMA ReplayStores ==
    ASSUME IInv, CacheInv, phase = "runDecode", NEW backend,
           NEW m \in Nat, ReplayedRows = 1..m, Len(batch) <= m,
           NEW slots, slots = [ r \in ReplayedRows |-> slots[r] ],
           \A r \in 1..Len(batch) : slots[r] = SlotOf(batch[r], NumTokens(batch[r]) - 1)
                                    /\ slots[r] \in SlotNumbers,
           \A r \in ReplayedRows : r > Len(batch) => slots[r] = -1
    PROVE  /\ StoreInside(backend, slots)
           /\ ReplayStore(backend, slots) = AfterStore(backend)
<1> DEFINE n == Len(batch)
           N == SlotNumbers
           keys == [ r \in ReplayedRows |-> Key(r) ]
           R1(slot) == { i \in DOMAIN slots : slots[i] = slot /\ ~ Skipped(backend, slot) }
           R2(slot) == { i \in DOMAIN Slots : Slots[i] = slot /\ ~ Skipped(backend, slot) }
           V1(slot) == IF R1(slot) = {} THEN FlatCache[slot]
                       ELSE keys[CHOOSE i \in R1(slot) : TRUE]
           V2(slot) == IF R2(slot) = {} THEN FlatCache[slot]
                       ELSE RowKeys[CHOOSE i \in R2(slot) : TRUE]
<1>1. n \in Nat /\ DOMAIN slots = 1..m /\ DOMAIN keys = 1..m
  BY IInvParts
<1>2. Skipped(backend, -1)
  BY DEF Skipped
<1>3. StoreInside(backend, slots)
  <2> SUFFICES ASSUME NEW i \in 1..m PROVE Skipped(backend, slots[i]) \/ slots[i] \in SlotNumbers
    BY <1>1 DEF StoreInside
  <2>1. i \in 1..n \/ i > n
    BY <1>1
  <2> QED BY <1>2, <2>1
<1>4. /\ DOMAIN Slots = 1..n /\ DOMAIN BatchRows = 1..n
      /\ \A r \in 1..n : /\ BatchRows[r] = <<batch[r], NumTokens(batch[r]) - 1>>
                         /\ Slots[r] = SlotOf(batch[r], NumTokens(batch[r]) - 1)
  <2>1. /\ Slots = [ i \in 1..n |-> DecodeSlot(batch[i]) ]
        /\ BatchRows = [ i \in 1..n |-> <<batch[i], NumTokens(batch[i]) - 1>> ]
    BY DEF Slots, BatchRows
  <2>2. ASSUME NEW r \in 1..n PROVE DecodeSlot(batch[r]) = SlotOf(batch[r], NumTokens(batch[r]) - 1)
    <3>1. batch[r] \in Range(batch)
      BY IInvParts DEF Range
    <3> QED BY <3>1, DecodedToken DEF DecodeSlot, SlotOf
  <2> QED BY <2>1, <2>2
<1>5. \A r \in 1..n : r \in 1..m /\ keys[r] = RowKeys[r] /\ slots[r] = Slots[r]
  <2> SUFFICES ASSUME NEW r \in 1..n
               PROVE  r \in 1..m /\ keys[r] = RowKeys[r] /\ slots[r] = Slots[r]
    OBVIOUS
  <2>1. r \in 1..m /\ r <= n
    BY <1>1
  <2>2. Key(r) = PrefixOf(batch[r], NumTokens(batch[r]) - 1)
    BY <2>1 DEF Key
  <2>3. RowKeys[r] = PrefixOf(batch[r], NumTokens(batch[r]) - 1)
    BY <1>4 DEF RowKeys
  <2> QED BY <1>4, <2>1, <2>2, <2>3
<1>6. \A r \in 1..m : r \in 1..n \/ slots[r] = -1
  BY <1>1
<1>7. /\ ReplayStore(backend, slots) = [ slot \in N |-> V1(slot) ]
      /\ AfterStore(backend) = [ slot \in N |-> V2(slot) ]
  BY DEF ReplayStore, AfterStore, StoredIn
<1>8. ASSUME NEW slot \in N PROVE R1(slot) = R2(slot)
  <2>1. ASSUME NEW i \in R1(slot) PROVE i \in R2(slot)
    <3>1. i \in 1..n
      BY <1>1, <1>2, <1>6
    <3> QED BY <1>4, <1>5, <3>1
  <2>2. R2(slot) \subseteq R1(slot)
    BY <1>1, <1>4, <1>5
  <2> QED BY <2>1, <2>2
<1>9. ASSUME NEW slot \in N, R2(slot) # {}
      PROVE  keys[CHOOSE i \in R1(slot) : TRUE] = RowKeys[CHOOSE i \in R2(slot) : TRUE]
  <2> HIDE DEF keys, R1
  <2>1. (CHOOSE i \in R2(slot) : TRUE) \in 1..n
    BY <1>4, <1>9
  <2> HIDE DEF R2
  <2> QED BY <1>5, <1>8, <2>1
<1>10. ASSUME NEW slot \in N PROVE V1(slot) = V2(slot)
  <2> HIDE DEF R1, R2, keys
  <2> QED BY <1>8, <1>9
<1> HIDE DEF V1, V2, N
<1> QED BY <1>3, <1>7, <1>10

(* Replaying a graph is running the batch: a captured one is large enough, *)
(* its rows have the batch's tokens, positions and keys, and the rows that *)
(* only pad it neither write nor read the cache, whatever earlier batches  *)
(* have left in the buffers.                                               *)
LEMMA ReplayIsExact ==
    ASSUME IInv, PromptsKept, ~ resumed => CacheInv /\ DecodesGenerated,
           LengthsBounded, BatchBounded, BuffersOK, GraphsCaptured, RequestsFit
    PROVE  ReplayAsEager
<1> SUFFICES ASSUME ~ resumed, CacheInv, DecodesGenerated, phase = "runDecode", ~ Eager
             PROVE  /\ Replayable
                    /\ LET rows  == Loaded
                           slots == [ r \in ReplayedRows |-> rows[r].slot ]
                       IN  /\ \A r \in 1..Len(batch) :
                                /\ rows[r].id = TokenOf(batch[r], NumTokens(batch[r]) - 1).id
                                /\ rows[r].position = Reference(batch[r])[NumTokens(batch[r]) - 1]
                           /\ \A backend \in Backends : LET stored == ReplayStore(backend, slots) IN
                                /\ StoreInside(backend, slots)
                                /\ stored = AfterStore(backend)
                                /\ \A r \in ReplayedRows :
                                     GatheredTokens(stored, rows[r].blocks, rows[r].len) =
                                       IF r <= Len(batch)
                                       THEN Prefixes(batch[r], NumTokens(batch[r])) ELSE << >>
  BY DEF ReplayAsEager
<1> DEFINE n == Len(batch)
           slots == [ r \in ReplayedRows |-> Loaded[r].slot ]
<1>1. Replayable
  BY TablesFit, GraphHolds DEF Replayable
<1>2. PICK m \in Nat : ReplayedRows = 1..m /\ n <= m /\ m <= BufferRows
  BY GraphHolds
<1>3. n \in Nat /\ BufferRows \in Int
  <2>1. MaxNumSeqs \in Nat /\ MaxGraphBatch \in Nat
    BY SchedulerAssumption, GraphAssumption
  <2> QED BY <2>1, IInvParts DEF BufferRows, Min2
<1>4. ASSUME NEW r \in 1..n
      PROVE  /\ r \in 1..m /\ r \in 1..BufferRows /\ batch[r] \in Range(batch)
             /\ Loaded[r].id = TokenOf(batch[r], NumTokens(batch[r]) - 1).id
             /\ Loaded[r].position = Reference(batch[r])[NumTokens(batch[r]) - 1]
             /\ Loaded[r].slot = SlotOf(batch[r], NumTokens(batch[r]) - 1)
             /\ Loaded[r].slot \in SlotNumbers
             /\ Loaded[r].len = NumTokens(batch[r])
             /\ \A b \in 1..Len(table[batch[r]]) : Loaded[r].blocks[b] = table[batch[r]][b]
  <2>1. r \in 1..m /\ r \in 1..BufferRows
    BY <1>2, <1>3
  <2> QED BY <2>1, LoadedRows
<1>5. ASSUME NEW r \in 1..m, r > n
      PROVE  r \in 1..BufferRows /\ Loaded[r].slot = -1 /\ Loaded[r].len = 0
  <2>1. r \in 1..BufferRows /\ ~ (r <= n)
    BY <1>2, <1>3, <1>5
  <2>2. Loaded[r] = StaleRow(r)
    BY <2>1 DEF Loaded
  <2> QED BY <2>1, <2>2, StaleRows
<1>6. ASSUME NEW backend
      PROVE  StoreInside(backend, slots) /\ ReplayStore(backend, slots) = AfterStore(backend)
  <2>1. slots = [ r \in ReplayedRows |-> slots[r] ]
    OBVIOUS
  <2>2. \A r \in 1..n : slots[r] = SlotOf(batch[r], NumTokens(batch[r]) - 1)
                        /\ slots[r] \in SlotNumbers
    BY <1>2, <1>4
  <2>3. \A r \in ReplayedRows : r > n => slots[r] = -1
    BY <1>2, <1>5
  <2> HIDE DEF slots
  <2> QED BY <1>2, <2>1, <2>2, <2>3, ReplayStores
<1>7. ASSUME NEW backend, NEW r \in 1..m
      PROVE  GatheredTokens(AfterStore(backend), Loaded[r].blocks, Loaded[r].len) =
               IF r <= n THEN Prefixes(batch[r], NumTokens(batch[r])) ELSE << >>
  <2>1. CASE r <= n
    <3>1. r \in 1..n
      BY <1>3, <2>1
    <3> DEFINE s == batch[r]
               k == NumTokens(s)
               T == Loaded[r].blocks
               stored == AfterStore(backend)
    <3>2. /\ s \in Range(batch) /\ s \in SeqId /\ k \in Nat /\ Loaded[r].len = k
          /\ ncached[s] + nsched[s] = k
          /\ \A b \in 1..Len(table[s]) : T[b] = table[s][b]
      <4>1. s \in Range(batch) /\ s \in SeqId /\ k \in Nat
        BY <1>4, <3>1, IInvParts
      <4>2. ncached[s] + nsched[s] = k
        <5>1. ncached[s] = k - 1 /\ nsched[s] = 1
          BY <4>1 DEF CacheInv, Progress, PrefillPhases, Caught
        <5> QED BY <4>1, <5>1
      <4> QED BY <1>4, <3>1, <4>1, <4>2
    <3> HIDE DEF s, k, T, stored
    <3>3. ASSUME NEW i \in 1..k PROVE stored[SourceSlot(T, i - 1)] = PrefixOf(s, i - 1)
      <4>1. i - 1 \in 0..End(s) - 1 /\ i - 1 \in Nat
        BY <3>2 DEF End
      <4>2. stored[SlotOf(s, i - 1)] = PrefixOf(s, i - 1) /\ (i - 1) \div BlockSize < Len(table[s])
        BY <3>2, <4>1, StoredPrefixes DEF stored
      <4>3. (i - 1) \div BlockSize + 1 \in 1..Len(table[s])
        BY <3>2, <4>1, <4>2, TokenInBlock
      <4>4. T[(i - 1) \div BlockSize + 1] = table[s][(i - 1) \div BlockSize + 1]
        BY <3>2, <4>3
      <4>5. SourceSlot(T, i - 1) = SlotOf(s, i - 1)
        BY <4>4 DEF SourceSlot, SlotOf, BlockAt
      <4> QED BY <4>2, <4>5
    <3>4. GatheredTokens(stored, T, k) = Prefixes(s, k)
      BY <3>3 DEF GatheredTokens, Prefixes
    <3> QED BY <2>1, <3>2, <3>4 DEF s, k, T, stored
  <2>2. CASE ~ (r <= n)
    <3>1. Loaded[r].len = 0
      BY <1>3, <1>5, <2>2
    <3>2. 1..0 = {}
      OBVIOUS
    <3> QED BY <2>2, <3>1, <3>2 DEF GatheredTokens
  <2> QED BY <2>1, <2>2
<1> QED BY <1>1, <1>2, <1>4, <1>6, <1>7

(* With a graph for the largest batch and requests that fit the model,     *)
(* every replay of a captured graph computes what the batch run eagerly    *)
(* would, until a request whose run raised is decoded all the same.        *)
THEOREM ReplaysAlwaysAsEager ==
    ASSUME GraphsCaptured, RequestsFit
    PROVE  GraphSpec => []ReplayAsEager
<1> DEFINE EngineOK == /\ IInv /\ PromptsKept
                       /\ ~ resumed => CacheInv /\ DecodesGenerated
           Bounded  == LengthsBounded /\ BatchBounded
<1>1. GraphSpec => []EngineOK
  BY GraphRunsEngine, PromptsInvariant, PTL
<1>2. GraphInit => Bounded /\ BuffersOK
  BY InitBounded, InitBuffers DEF GraphInit
<1>3. EngineOK /\ EngineOK' /\ Bounded /\ BuffersOK /\ [GraphNext]_graphVars =>
        Bounded' /\ BuffersOK'
  <2> SUFFICES ASSUME EngineOK, EngineOK', Bounded, BuffersOK, [GraphNext]_graphVars
               PROVE  Bounded' /\ BuffersOK'
    OBVIOUS
  <2>1. [Next]_vars
    BY DEF GraphNext, Replay, Next, EngineStep, graphVars
  <2>2. MaxTokens # 0
    BY DEF RequestsFit
  <2> QED BY <2>1, <2>2, NextLengths, NextBatch, NextBuffers
<1>4. EngineOK /\ Bounded /\ BuffersOK => ReplayAsEager
  BY ReplayIsExact
<1> HIDE DEF EngineOK, Bounded
<1> QED BY <1>1, <1>2, <1>3, <1>4, PTL DEF GraphSpec
=============================================================================
