--------------------------- MODULE PagedKVProofs ---------------------------
(***************************************************************************)
(* Proofs about the paged KV operations of layers/paged_kv and csrc.       *)
(*                                                                         *)
(* The CUDA kernels copy each element of a slot once, whatever the number  *)
(* of threads, the vector width and the tail (PagedKV.tla).                *)
(*                                                                         *)
(* Kernels read the slots of their own run, and pinned memory is kept      *)
(* until it has been copied, for any number of runs, lengths and layers    *)
(* (SlotTransfer.tla).  The transfer stream is always the rest of the      *)
(* fixed program that copies the slots of run 1, 2, 3, ..., four           *)
(* operations each, so its length says how far the device has got in it;   *)
(* the invariant relates the events, the buffer and the kernels still      *)
(* queued to that one number.                                              *)
(***************************************************************************)
EXTENDS PagedKV, SlotTransfer, SequenceTheorems, WellFoundedInduction, TLAPS

(* The pieces from..to-1 are dealt out to the threads, each to one.        *)
LEMMA StridedPartition ==
    ASSUME NEW threads \in Nat \ {0}, NEW from \in Nat, NEW to \in Nat, NEW i \in from..to - 1
    PROVE  /\ \E t \in 0..threads - 1 : i \in Strided(t, threads, from, to)
           /\ \A t, u \in 0..threads - 1 :
                i \in Strided(t, threads, from, to) /\ i \in Strided(u, threads, from, to) => t = u
<1> DEFINE k == i - from
           r == k % threads
           q == k \div threads
<1>1. k \in Nat /\ q \in Nat /\ r \in 0..threads - 1 /\ k = threads * q + r
  OBVIOUS
<1>2. i \in Strided(r, threads, from, to)
  <2>1. i >= from + r
    BY <1>1
  <2>2. (threads * q) % threads = 0
    BY <1>1
  <2>3. i - from - r = threads * q
    BY <1>1
  <2> QED BY <2>1, <2>2, <2>3 DEF Strided
<1>3. ASSUME NEW t \in 0..threads - 1, i \in Strided(t, threads, from, to)
      PROVE  t = r
  <2>1. k >= t /\ (k - t) % threads = 0
    BY <1>3 DEF Strided
  <2> DEFINE p == (k - t) \div threads
  <2>2. p \in Nat /\ k = threads * p + t
    BY <2>1, <1>1
  <2>3. (threads * p + t) % threads = t
    BY <2>2
  <2> QED BY <2>2, <2>3
<1> QED BY <1>1, <1>2, <1>3

(* The CUDA kernels copy every element of a slot once and none beyond it,  *)
(* whatever the number of threads, the width of a vector, the alignment    *)
(* and the tail: no two threads write the same element.                    *)
THEOREM CopiedOnce ==
    ASSUME NEW threads \in Nat \ {0}, NEW d \in Nat, NEW width \in Nat \ {0},
           NEW aligned \in BOOLEAN
    PROVE  /\ \A t \in 0..threads - 1 : CopiedBy(t, threads, d, width, aligned) \subseteq 0..d - 1
           /\ \A e \in 0..d - 1 : \E t \in 0..threads - 1 :
                /\ e \in CopiedBy(t, threads, d, width, aligned)
                /\ \A u \in 0..threads - 1 :
                     e \in CopiedBy(u, threads, d, width, aligned) => u = t
<1> DEFINE n == Vectors(d, width, aligned)
<1>1. n \in Nat /\ n * width \in Nat /\ n * width <= d
  BY DEF Vectors
<1>2. ASSUME NEW v \in Nat, NEW e \in Int
      PROVE  e \in VectorElements(v, width) <=> e >= 0 /\ e \div width = v
  <2>1. v * width \in Nat /\ (v + 1) * width = v * width + width
    OBVIOUS
  <2>2. e \in VectorElements(v, width) <=> v * width <= e /\ e < (v + 1) * width
    BY <2>1 DEF VectorElements
  <2>3. e \div width \in Int /\ (e \div width) * width <= e /\ e < (e \div width) * width + width
    OBVIOUS
  <2>4. e >= 0 /\ e \div width = v => v * width <= e /\ e < (v + 1) * width
    BY <2>1, <2>3
  <2>5. v * width <= e /\ e < (v + 1) * width => e >= 0 /\ e \div width = v
    BY <2>1
  <2> QED BY <2>2, <2>4, <2>5
<1>3. ASSUME NEW t \in 0..threads - 1, NEW e
      PROVE  e \in CopiedBy(t, threads, d, width, aligned) <=>
               \/ e \in 0..n * width - 1 /\ e \div width \in Strided(t, threads, 0, n)
               \/ e \in Strided(t, threads, n * width, d)
  <2>1. e \in CopiedBy(t, threads, d, width, aligned) <=>
          \/ \E v \in Strided(t, threads, 0, n) : e \in VectorElements(v, width)
          \/ e \in Strided(t, threads, n * width, d)
    BY DEF CopiedBy
  <2>2. \A v \in Strided(t, threads, 0, n) : v \in Nat /\ v + 1 <= n
    BY <1>1 DEF Strided
  <2>3. ASSUME NEW v \in Strided(t, threads, 0, n), e \in VectorElements(v, width)
        PROVE  e \in 0..n * width - 1 /\ e \div width = v
    <3>1. v \in Nat /\ v + 1 <= n
      BY <2>2
    <3>2. e \in Int /\ v * width \in Nat /\ v * width <= e /\ e <= v * width + width - 1
      BY <2>3, <3>1 DEF VectorElements
    <3>3. v * width + width = (v + 1) * width /\ (v + 1) * width <= n * width
      BY <3>1, <1>1
    <3>4. e \div width = v
      BY <1>2, <2>3, <3>1, <3>2
    <3> QED BY <1>1, <3>2, <3>3, <3>4
  <2>4. ASSUME e \in 0..n * width - 1, e \div width \in Strided(t, threads, 0, n)
        PROVE  e \in VectorElements(e \div width, width)
    BY <1>1, <1>2, <2>2, <2>4
  <2> QED BY <2>1, <2>3, <2>4
<1>4. ASSUME NEW e \in 0..n * width - 1
      PROVE  e \div width \in 0..n - 1
  BY <1>1
<1>5. \A t \in 0..threads - 1 : CopiedBy(t, threads, d, width, aligned) \subseteq 0..d - 1
  <2> SUFFICES ASSUME NEW t \in 0..threads - 1, NEW e \in CopiedBy(t, threads, d, width, aligned)
               PROVE  e \in 0..d - 1
    OBVIOUS
  <2>1. CASE e \in 0..n * width - 1
    BY <1>1, <2>1
  <2>2. CASE e \in Strided(t, threads, n * width, d)
    BY <1>1, <2>2 DEF Strided
  <2> QED BY <1>3, <2>1, <2>2
<1>6. ASSUME NEW e \in 0..d - 1
      PROVE  \E t \in 0..threads - 1 :
                /\ e \in CopiedBy(t, threads, d, width, aligned)
                /\ \A u \in 0..threads - 1 :
                     e \in CopiedBy(u, threads, d, width, aligned) => u = t
  <2>1. CASE e < n * width
    <3>1. e \in 0..n * width - 1 /\ e \div width \in 0..n - 1
      BY <1>1, <1>4, <2>1
    <3>2. \A t \in 0..threads - 1 : e \notin Strided(t, threads, n * width, d)
      BY <1>1, <2>1 DEF Strided
    <3>3. \E t \in 0..threads - 1 : e \div width \in Strided(t, threads, 0, n)
      BY <1>1, <3>1, StridedPartition
    <3>4. \A t, u \in 0..threads - 1 :
            e \div width \in Strided(t, threads, 0, n) /\ e \div width \in Strided(u, threads, 0, n)
              => t = u
      BY <1>1, <3>1, StridedPartition
    <3> HIDE DEF n
    <3> QED BY <1>3, <3>1, <3>2, <3>3, <3>4
  <2>2. CASE e >= n * width
    <3>1. e \in n * width..d - 1 /\ e \notin 0..n * width - 1
      BY <1>1, <2>2
    <3>2. \E t \in 0..threads - 1 : e \in Strided(t, threads, n * width, d)
      BY <1>1, <3>1, StridedPartition
    <3>3. \A t, u \in 0..threads - 1 :
            e \in Strided(t, threads, n * width, d) /\ e \in Strided(u, threads, n * width, d)
              => t = u
      BY <1>1, <3>1, StridedPartition
    <3> HIDE DEF n
    <3> QED BY <1>3, <3>1, <3>2, <3>3
  <2> QED BY <1>1, <2>1, <2>2
<1> QED BY <1>5, <1>6

-----------------------------------------------------------------------------
Op == [ op : {"record", "wait", "copy", "kernel"},
        event : {"", "reuse_ready", "host_copy_done", "transfer_done"}, run : Nat ]

(* The operations of the transfer stream that are done, and the runs whose *)
(* slots have been copied.                                                 *)
Executed == 4 * runs - Len(transfer)
Arrivals == (Executed + 2) \div 4

Types ==
    /\ runs \in Nat /\ capacity \in Nat /\ (capacity = 0 => runs = 0)
    /\ pc \in {"idle", "launch", "sample", "closed"}
    /\ compute \in Seq(Op) /\ transfer \in Seq(Op) /\ Executed \in Nat
    /\ recorded \subseteq {"reuse_ready", "host_copy_done", "transfer_done"} \X (1..runs)
    /\ pending \in Seq(1..runs)

(* The transfer stream holds the rest of its program.                      *)
TransferProgram ==
    \A i \in 1..Len(transfer) : \E r \in 1..runs, k \in 1..4 :
        transfer[i] = TransferOps(r)[k] /\ 4 * r + k = Executed + i + 4

(* An event has been recorded if its operation is done; the copy of a run  *)
(* is behind the wait for its reuse_ready.                                 *)
Events ==
    \A r \in 1..runs :
        /\ <<"host_copy_done", r>> \in recorded <=> 4 * r <= Executed + 1
        /\ <<"transfer_done", r>> \in recorded <=> 4 * r <= Executed
        /\ 4 * r <= Executed + 3 => <<"reuse_ready", r>> \in recorded

(* The compute stream works through the runs in order: a run that comes    *)
(* later has not been allowed to overwrite the buffer, and a kernel is     *)
(* behind the wait for its slots.                                          *)
Awaited(r, n) ==
    \/ <<"transfer_done", r>> \in recorded
    \/ \E j \in 1..n : compute[j] = Wait("transfer_done", r)
ComputeProgram ==
    /\ \A i \in 1..Len(compute) :
         /\ compute[i].run \in 1..runs
         /\ compute[i].op = "record" => compute[i].event = "reuse_ready"
         /\ \A j \in i..Len(compute) : compute[i].run <= compute[j].run
         /\ \A s \in 1..runs : compute[i].run < s => <<"reuse_ready", s>> \notin recorded
         /\ compute[i].op = "kernel" => Awaited(compute[i].run, i - 1)
    /\ pc \in {"launch", "sample"} => runs > 0 /\ Awaited(runs, Len(compute))

(* The buffer holds the slots that arrived last, unless it has been        *)
(* replaced since; then nothing of the runs before is left to do.          *)
BufferCurrent ==
    \/ buffer = Arrivals
    \/ /\ buffer = 0 /\ Arrivals < runs
       /\ \A i \in 1..Len(compute) : compute[i].run > Arrivals

SourcesHeld ==
    /\ pc = "closed" => transfer = << >>
    /\ pc # "closed" => /\ held = { pending[i] : i \in 1..Len(pending) }
                        /\ \A r \in 1..runs : r > Arrivals => r \in held
    /\ rank = 0 => Len(pending) <= 1 /\ (pc = "idle" => Executed = 4 * runs)

TransferInv ==
    /\ Types /\ TransferProgram /\ Events /\ ComputeProgram /\ BufferCurrent /\ SourcesHeld

-----------------------------------------------------------------------------

(* Where the elements of the rest of a queue, and of a queue whose head is *)
(* taken, come from.                                                       *)
LEMMA Remaining ==
    ASSUME NEW S, NEW q \in Seq(S), NEW n \in 0..Len(q)
    PROVE  /\ SubSeq(q, n + 1, Len(q)) \in Seq(S)
           /\ Len(SubSeq(q, n + 1, Len(q))) = Len(q) - n
           /\ \A i \in 1..Len(q) - n : SubSeq(q, n + 1, Len(q))[i] = q[n + i]
OBVIOUS

LEMMA HeadTaken ==
    ASSUME NEW S, NEW q \in Seq(S), q # << >>
    PROVE  /\ Len(q) \in Nat \ {0} /\ Head(q) = q[1] /\ q[1] \in S
           /\ Tail(q) \in Seq(S) /\ Len(Tail(q)) = Len(q) - 1
           /\ \A i \in 1..Len(q) - 1 : Tail(q)[i] = q[i + 1]
OBVIOUS

(* The four operations of a run.                                           *)
LEMMA OpsFacts ==
    ASSUME NEW r \in Nat
    PROVE  /\ TransferOps(r) \in Seq(Op) /\ Len(TransferOps(r)) = 4
           /\ TransferOps(r)[1] = Wait("reuse_ready", r) /\ TransferOps(r)[2] = Copy(r)
           /\ TransferOps(r)[3] = Record("host_copy_done", r)
           /\ TransferOps(r)[4] = Record("transfer_done", r)
           /\ \A k \in 1..4 : /\ TransferOps(r)[k] \in Op /\ TransferOps(r)[k].run = r
                              /\ TransferOps(r)[k].op = "copy" <=> k = 2
<1> DEFINE w == Wait("reuse_ready", r)
           c == Copy(r)
           h == Record("host_copy_done", r)
           d == Record("transfer_done", r)
<1>1. /\ w \in Op /\ c \in Op /\ h \in Op /\ d \in Op
      /\ w.run = r /\ c.run = r /\ h.run = r /\ d.run = r
      /\ w.op # "copy" /\ c.op = "copy" /\ h.op # "copy" /\ d.op # "copy"
  BY DEF Wait, Copy, Record, Op
<1>2. TransferOps(r) = <<w, c, h, d>>
  BY DEF TransferOps
<1> HIDE DEF w, c, h, d
<1>3. /\ <<w, c, h, d>> \in Seq(Op) /\ Len(<<w, c, h, d>>) = 4
      /\ <<w, c, h, d>>[1] = w /\ <<w, c, h, d>>[2] = c
      /\ <<w, c, h, d>>[3] = h /\ <<w, c, h, d>>[4] = d
  BY <1>1
<1>4. \A k \in 1..4 : k = 1 \/ k = 2 \/ k = 3 \/ k = 4
  OBVIOUS
<1> QED BY <1>1, <1>2, <1>3, <1>4 DEF w, c, h, d

(* What is released: copies known to be done, up to the first that is not. *)
LEMMA ReleasedFacts ==
    ASSUME Types
    PROVE  /\ Released \in 0..Len(pending)
           /\ \A i \in 1..Released : <<"host_copy_done", pending[i]>> \in recorded
           /\ Released < Len(pending) => <<"host_copy_done", pending[Released + 1]>> \notin recorded
<1> DEFINE L == Len(pending)
           Done(i) == <<"host_copy_done", pending[i]>> \in recorded
<1>1. pending \in Seq(1..runs) /\ L \in Nat
  BY DEF Types
<1>2. ASSUME NEW n \in 0..L
      PROVE  Completed(SubSeq(pending, 1, n)) <=> \A i \in 1..n : Done(i)
  <2>1. DOMAIN SubSeq(pending, 1, n) = 1..n /\ \A i \in 1..n : SubSeq(pending, 1, n)[i] = pending[i]
    BY <1>1
  <2> QED BY <2>1 DEF Completed
<1>3. ASSUME NEW n \in 0..L, n < L
      PROVE  Completed(<<pending[n + 1]>>) <=> Done(n + 1)
  <2>1. DOMAIN <<pending[n + 1]>> = {1} /\ <<pending[n + 1]>>[1] = pending[n + 1]
    OBVIOUS
  <2> QED BY <2>1 DEF Completed
<1> DEFINE Fit(n) == /\ Completed(SubSeq(pending, 1, n))
                     /\ n < L => ~ Completed(<<pending[n + 1]>>)
           Left == { i \in 1..L : ~ Done(i) }
<1>4. \E n \in 0..L : Fit(n)
  <2>1. CASE Left = {}
    <3>1. L \in 0..L /\ ~ (L < L) /\ \A i \in 1..L : Done(i)
      BY <1>1, <2>1
    <3>2. Completed(SubSeq(pending, 1, L))
      <4> HIDE DEF Done, L
      <4> QED BY <1>2, <3>1
    <3> QED BY <3>1, <3>2
  <2>2. CASE Left # {}
    <3>1. Left \subseteq Nat
      BY <1>1
    <3>2. PICK m \in Left : \A k \in Left : <<k, m>> \notin OpToRel(<, Nat)
      <4> HIDE DEF Left
      <4> QED BY <2>2, <3>1, WFMin, NatLessThanWellFounded, Zenon
    <3>3. \A k \in Left : ~ (k < m)
      BY <3>1, <3>2, Zenon DEF OpToRel
    <3>4. m - 1 \in 0..L /\ m - 1 < L /\ (m - 1) + 1 = m /\ ~ Done(m)
      BY <1>1
    <3>5. \A i \in 1..m - 1 : Done(i)
      BY <1>1, <3>3, <3>4
    <3>6. Fit(m - 1)
      <4> HIDE DEF Done
      <4> QED BY <1>2, <1>3, <3>4, <3>5
    <3> HIDE DEF Fit
    <3> QED BY <3>4, <3>6
  <2> QED BY <2>1, <2>2
<1>5. Released = CHOOSE n \in 0..L : Fit(n)
  BY DEF Released
<1>6. Released \in 0..L /\ Fit(Released)
  <2> HIDE DEF Fit
  <2> QED BY <1>4, <1>5
<1> HIDE DEF Done
<1> QED BY <1>1, <1>2, <1>3, <1>6 DEF Done

(* No run has been started.                                                *)
LEMMA Initially == Init => TransferInv
<1> SUFFICES ASSUME Init PROVE TransferInv
  OBVIOUS
<1>a. runs = 0 /\ Len(transfer) = 0 /\ Len(compute) = 0 /\ Len(pending) = 0
  BY DEF Init
<1>b. Executed = 0
  BY <1>a DEF Executed
<1>c. Arrivals = 0
  BY <1>b DEF Arrivals
<1>1. /\ runs = 0 /\ Len(transfer) = 0 /\ Len(compute) = 0 /\ Len(pending) = 0
      /\ Executed = 0 /\ Arrivals = 0
  BY <1>a, <1>b, <1>c
<1>2. Types /\ TransferProgram /\ Events
  BY <1>1 DEF Init, Types, TransferProgram, Events
<1>3. ComputeProgram /\ BufferCurrent /\ SourcesHeld
  BY <1>1 DEF Init, ComputeProgram, BufferCurrent, SourcesHeld
<1> QED BY <1>2, <1>3 DEF TransferInv

(* How far the device can have got.                                        *)
LEMMA ArrivalFacts ==
    ASSUME Types
    PROVE  /\ Len(transfer) \in Nat /\ Len(compute) \in Nat /\ Executed <= 4 * runs
           /\ Arrivals \in 0..runs
           /\ 4 * Arrivals <= Executed + 2 /\ Executed + 2 < 4 * Arrivals + 4
<1>1. Len(transfer) \in Nat /\ Len(compute) \in Nat
  BY DEF Types
<1>2. runs \in Nat /\ Executed \in Nat /\ Executed = 4 * runs - Len(transfer)
  BY DEF Types, Executed
<1> QED BY <1>1, <1>2 DEF Arrivals

(* A new run queues its operations behind all others.                      *)
LEMMA CopySlotsKeeps ==
    ASSUME TransferInv, NEW n \in Size, CopySlots(n)
    PROVE  TransferInv'
<1> DEFINE r == runs + 1
           T == Len(transfer)
           C == Len(compute)
<1>1. /\ Types /\ T \in Nat /\ C \in Nat /\ runs \in Nat /\ r \in Nat /\ Executed \in Nat
      /\ Executed <= 4 * runs /\ Arrivals \in 0..runs /\ Executed = 4 * runs - T
      /\ transfer \in Seq(Op) /\ compute \in Seq(Op) /\ n \in Nat \ {0}
  BY ArrivalFacts, TransferAssumption DEF TransferInv, Types, Executed
<1>2. /\ pc = "idle" /\ pc' = "launch" /\ runs' = r /\ rank' = rank /\ recorded' = recorded
      /\ capacity' = IF Grows(n) THEN n ELSE capacity
      /\ buffer' = IF Grows(n) THEN 0 ELSE buffer
      /\ Grows(n) /\ capacity > 0 => compute = << >>
      /\ pending' = Append(SubSeq(pending, Released + 1, Len(pending)), r)
      /\ held' = { pending'[i] : i \in DOMAIN pending' }
      /\ transfer' = transfer \o TransferOps(r)
      /\ compute' = compute \o ComputeOps(r)
  BY DEF CopySlots, DeviceIdle
<1>s. transfer \in Seq(Op) /\ compute \in Seq(Op)
  BY <1>1
<1>3. /\ transfer' \in Seq(Op) /\ Len(transfer') = T + 4
      /\ \A i \in 1..T : transfer'[i] = transfer[i]
      /\ \A k \in 1..4 : transfer'[T + k] = TransferOps(r)[k]
  <2> DEFINE ops == TransferOps(r)
  <2>1. ops \in Seq(Op) /\ Len(ops) = 4
    BY <1>1, OpsFacts
  <2> HIDE DEF ops
  <2>2. /\ transfer \o ops \in Seq(Op) /\ Len(transfer \o ops) = T + Len(ops)
        /\ \A i \in 1..T : (transfer \o ops)[i] = transfer[i]
        /\ \A k \in 1..Len(ops) : (transfer \o ops)[T + k] = ops[k]
    <3>1. ops \in Seq(Op)
      BY <2>1
    <3> QED BY <1>s, <3>1
  <2> QED BY <1>2, <2>1, <2>2 DEF ops
<1>4. /\ compute' \in Seq(Op) /\ Len(compute') = C + 2
      /\ \A i \in 1..C : compute'[i] = compute[i]
      /\ compute'[C + 1] = Record("reuse_ready", r)
      /\ compute'[C + 2] = Wait("transfer_done", r)
  <2> DEFINE ops == ComputeOps(r)
  <2>1. /\ ops \in Seq(Op) /\ Len(ops) = 2
        /\ ops[1] = Record("reuse_ready", r) /\ ops[2] = Wait("transfer_done", r)
    <3> DEFINE f == Record("reuse_ready", r)
               w == Wait("transfer_done", r)
    <3>1. f \in Op /\ w \in Op /\ ops = <<f, w>>
      BY <1>1 DEF ComputeOps, Record, Wait, Op
    <3> HIDE DEF f, w, ops
    <3>2. <<f, w>> \in Seq(Op) /\ Len(<<f, w>>) = 2 /\ <<f, w>>[1] = f /\ <<f, w>>[2] = w
      BY <3>1
    <3> QED BY <3>1, <3>2 DEF f, w
  <2> HIDE DEF ops
  <2>2. /\ compute \o ops \in Seq(Op) /\ Len(compute \o ops) = C + Len(ops)
        /\ \A i \in 1..C : (compute \o ops)[i] = compute[i]
        /\ \A k \in 1..Len(ops) : (compute \o ops)[C + k] = ops[k]
    <3>1. ops \in Seq(Op)
      BY <2>1
    <3> QED BY <1>s, <3>1
  <2>3. 1 \in 1..Len(ops) /\ 2 \in 1..Len(ops)
    BY <2>1
  <2> QED BY <1>2, <2>1, <2>2, <2>3 DEF ops
<1>5. Executed' = Executed /\ Arrivals' = Arrivals
  <2>1. Executed' = 4 * r - (T + 4)
    BY <1>2, <1>3 DEF Executed
  <2>2. Executed' = Executed
    BY <1>1, <2>1
  <2> QED BY <2>2 DEF Arrivals
<1>6. \A e : <<e, r>> \notin recorded
  BY <1>1 DEF Types
<1>7. /\ Released \in 0..Len(pending) /\ Len(pending) \in Nat
      /\ \A i \in 1..Released : <<"host_copy_done", pending[i]>> \in recorded
      /\ Released < Len(pending) => <<"host_copy_done", pending[Released + 1]>> \notin recorded
      /\ pending \in Seq(1..runs)
  BY <1>1, ReleasedFacts DEF Types
<1> DEFINE m == Released
           K == Len(pending) - m
<1> HIDE DEF m
<1>8. /\ pending' \in Seq(1..r) /\ Len(pending') = K + 1 /\ K \in Nat
      /\ \A i \in 1..K : pending'[i] = pending[m + i]
      /\ pending'[K + 1] = r
  <2> DEFINE rest == SubSeq(pending, m + 1, Len(pending))
  <2>m. /\ pending \in Seq(1..runs) /\ m \in 0..Len(pending) /\ K \in Nat
        /\ rest = SubSeq(pending, m + 1, Len(pending))
    BY <1>7 DEF m
  <2>1. /\ rest \in Seq(1..runs) /\ Len(rest) = K /\ K \in Nat
        /\ \A i \in 1..K : rest[i] = pending[m + i]
    BY <2>m, Remaining, Zenon
  <2>2. rest \in Seq(1..r) /\ r \in 1..r
    BY <1>1, <2>1
  <2> HIDE DEF rest, K
  <2>3. /\ Append(rest, r) \in Seq(1..r) /\ Len(Append(rest, r)) = K + 1
        /\ \A i \in 1..K : Append(rest, r)[i] = rest[i]
        /\ Append(rest, r)[K + 1] = r
    BY <2>1, <2>2
  <2> QED BY <1>2, <2>1, <2>3 DEF rest, m
<1>9. Types'
  <2>1. recorded' \subseteq {"reuse_ready", "host_copy_done", "transfer_done"} \X (1..runs')
    BY <1>1, <1>2 DEF Types
  <2>2. capacity' \in Nat /\ capacity' # 0
    BY <1>1, <1>2 DEF Types, Grows
  <2> QED BY <1>1, <1>2, <1>3, <1>4, <1>5, <1>8, <2>1, <2>2 DEF Types
<1>10. TransferProgram'
  <2> SUFFICES ASSUME NEW i \in 1..T + 4
               PROVE  \E q \in 1..r, k \in 1..4 :
                         transfer'[i] = TransferOps(q)[k] /\ 4 * q + k = Executed + i + 4
    BY <1>2, <1>3, <1>5 DEF TransferProgram
  <2>1. CASE i <= T
    <3>1. i \in 1..T
      BY <1>1, <2>1
    <3>2. PICK q \in 1..runs, k \in 1..4 :
                 transfer[i] = TransferOps(q)[k] /\ 4 * q + k = Executed + i + 4
      BY <3>1 DEF TransferInv, TransferProgram
    <3>3. q \in 1..r /\ transfer'[i] = transfer[i]
      BY <1>1, <1>3, <3>1
    <3> QED BY <3>2, <3>3
  <2>2. CASE i > T
    <3>1. i - T \in 1..4 /\ T + (i - T) = i /\ r \in 1..r
      BY <1>1, <2>2
    <3>2. transfer'[i] = TransferOps(r)[i - T]
      BY <1>3, <3>1
    <3>3. 4 * r + (i - T) = Executed + i + 4
      BY <1>1
    <3> QED BY <3>1, <3>2, <3>3
  <2>3. i <= T \/ i > T
    BY <1>1
  <2> QED BY <2>1, <2>2, <2>3
<1>11. Events'
  <2> SUFFICES ASSUME NEW q \in 1..r
               PROVE  /\ <<"host_copy_done", q>> \in recorded <=> 4 * q <= Executed + 1
                      /\ <<"transfer_done", q>> \in recorded <=> 4 * q <= Executed
                      /\ 4 * q <= Executed + 3 => <<"reuse_ready", q>> \in recorded
    BY <1>2, <1>5 DEF Events
  <2>1. CASE q \in 1..runs
    BY <2>1 DEF TransferInv, Events
  <2>2. CASE q = r
    <3>1. ~ (4 * q <= Executed + 3)
      BY <1>1, <2>2
    <3> QED BY <1>1, <1>6, <2>2, <3>1
  <2> QED BY <1>1, <2>1, <2>2
<1>12. ComputeProgram'
  <2>1. \A i \in 1..C + 2 : i \in 1..C \/ i = C + 1 \/ i = C + 2
    BY <1>1
  <2>2. \A i \in 1..C : compute'[i].run \in 1..runs
    BY <1>4 DEF TransferInv, ComputeProgram
  <2>3. /\ compute'[C + 1].run = r /\ compute'[C + 2].run = r
        /\ compute'[C + 1].op = "record" /\ compute'[C + 1].event = "reuse_ready"
        /\ compute'[C + 2].op = "wait"
    BY <1>4 DEF Record, Wait
  <2>4. ASSUME NEW i \in 1..C + 2
        PROVE  /\ compute'[i].run \in 1..r
               /\ compute'[i].op = "record" => compute'[i].event = "reuse_ready"
    <3>1. CASE i \in 1..C
      <4>1. compute'[i] = compute[i]
        BY <1>4, <3>1
      <4>2. compute[i].op = "record" => compute[i].event = "reuse_ready"
        BY <3>1 DEF TransferInv, ComputeProgram
      <4>3. compute'[i].run \in 1..r
        BY <1>1, <2>2, <3>1
      <4> QED BY <4>1, <4>2, <4>3
    <3>2. CASE i \notin 1..C
      <4>1. i = C + 1 \/ i = C + 2
        BY <2>1, <3>2
      <4>2. r \in 1..r
        BY <1>1
      <4> QED BY <2>3, <4>1, <4>2
    <3> QED BY <3>1, <3>2
  <2>5. ASSUME NEW i \in 1..C + 2, NEW j \in i..C + 2
        PROVE  compute'[i].run <= compute'[j].run
    <3>1. CASE i \in 1..C /\ j \in 1..C
      <4>1. j \in i..C
        BY <3>1
      <4> QED BY <1>4, <3>1, <4>1 DEF TransferInv, ComputeProgram
    <3>2. CASE j \notin 1..C
      <4>1. compute'[j].run = r
        <5>1. j = C + 1 \/ j = C + 2
          BY <2>1, <3>2
        <5> QED BY <2>3, <5>1
      <4>2. compute'[i].run \in 1..r
        BY <2>4
      <4> QED BY <1>1, <4>1, <4>2
    <3> QED BY <1>1, <3>1, <3>2
  <2>6. ASSUME NEW i \in 1..C + 2, NEW s \in 1..r, compute'[i].run < s
        PROVE  <<"reuse_ready", s>> \notin recorded
    <3>1. CASE s = r
      BY <1>6, <3>1
    <3>2. CASE s \in 1..runs
      <4>1. i \in 1..C
        BY <1>1, <2>1, <2>3, <2>6, <3>2
      <4> QED BY <1>4, <2>6, <3>2, <4>1 DEF TransferInv, ComputeProgram
    <3> QED BY <1>1, <3>1, <3>2
  <2>7. ASSUME NEW i \in 1..C + 2, compute'[i].op = "kernel"
        PROVE  Awaited(compute[i].run, i - 1)'
    <3>1. i \in 1..C
      BY <2>1, <2>3, <2>7
    <3>2. Awaited(compute[i].run, i - 1)
      BY <1>4, <2>7, <3>1 DEF TransferInv, ComputeProgram
    <3>3. \A j \in 1..i - 1 : compute'[j] = compute[j]
      BY <1>1, <1>4, <3>1
    <3> QED BY <1>2, <1>4, <3>1, <3>2, <3>3 DEF Awaited
  <2>8. Awaited(runs, Len(compute))' /\ runs' > 0
    <3>1. Len(compute') \in 1..Len(compute') /\ Len(compute') = C + 2 /\ runs' > 0
      BY <1>1, <1>2, <1>4
    <3>2. compute'[Len(compute')] = Wait("transfer_done", runs')
      BY <1>2, <1>4, <3>1
    <3> QED BY <3>1, <3>2 DEF Awaited
  <2> QED BY <1>2, <1>4, <2>4, <2>5, <2>6, <2>7, <2>8 DEF ComputeProgram
<1>13. BufferCurrent'
  <2>1. \A i \in 1..C + 2 : i \in 1..C \/ i = C + 1 \/ i = C + 2
    BY <1>1
  <2>2. compute'[C + 1].run = r /\ compute'[C + 2].run = r /\ r > Arrivals
    BY <1>1, <1>4 DEF Record, Wait
  <2>3. CASE Grows(n) /\ capacity = 0
    <3>1. runs = 0
      BY <1>1, <2>3 DEF Types
    <3> QED BY <1>1, <1>2, <1>5, <2>3, <3>1 DEF BufferCurrent
  <2>4. CASE Grows(n) /\ capacity # 0
    <3>1. C = 0
      BY <1>1, <1>2, <2>4 DEF Types
    <3>2. buffer' = 0 /\ Arrivals' = Arrivals /\ Arrivals < runs' /\ Len(compute') = C + 2
      BY <1>1, <1>2, <1>4, <1>5, <2>4
    <3>3. \A i \in 1..C + 2 : compute'[i].run > Arrivals
      <4>1. \A i \in 1..C + 2 : i = C + 1 \/ i = C + 2
        BY <2>1, <3>1
      <4> QED BY <2>2, <4>1
    <3> QED BY <3>2, <3>3 DEF BufferCurrent
  <2>5. CASE ~ Grows(n)
    <3>1. \A i \in 1..C + 2 : buffer # Arrivals => compute'[i].run > Arrivals
      BY <1>4, <2>1, <2>2 DEF TransferInv, BufferCurrent
    <3>2. buffer' = buffer /\ Arrivals' = Arrivals /\ Len(compute') = C + 2
      BY <1>2, <1>4, <1>5, <2>5
    <3>3. CASE buffer = Arrivals
      BY <3>2, <3>3 DEF BufferCurrent
    <3>4. CASE buffer # Arrivals
      <4>1. buffer = 0 /\ Arrivals < runs'
        BY <1>1, <1>2, <3>4 DEF TransferInv, BufferCurrent
      <4> QED BY <3>1, <3>2, <3>4, <4>1 DEF BufferCurrent
    <3> QED BY <3>3, <3>4
  <2> QED BY <2>3, <2>4, <2>5
<1>14. SourcesHeld'
  <2>1. held' = { pending'[i] : i \in 1..K + 1 }
    <3>1. DOMAIN pending' = 1..K + 1
      BY <1>8
    <3> QED BY <1>2, <3>1
  <2>2. ASSUME NEW q \in 1..r, q > Arrivals PROVE q \in held'
    <3>1. CASE q = r
      <4>1. K + 1 \in 1..K + 1
        BY <1>8
      <4> QED BY <1>8, <2>1, <3>1, <4>1
    <3>2. CASE q \in 1..runs
      <4>1. PICK i \in 1..Len(pending) : pending[i] = q
        BY <1>2, <2>2, <3>2 DEF TransferInv, SourcesHeld
      <4>2. <<"host_copy_done", q>> \notin recorded
        <5>1. ~ (4 * q <= Executed + 1)
          BY <1>1, <2>2, ArrivalFacts
        <5> QED BY <3>2, <5>1 DEF TransferInv, Events
      <4>3. i \notin 1..m
        BY <1>7, <4>1, <4>2 DEF m
      <4>4. i - m \in 1..K /\ m + (i - m) = i
        BY <1>7, <4>3 DEF m
      <4>5. pending'[i - m] = q /\ i - m \in 1..K + 1
        BY <1>8, <4>1, <4>4
      <4> QED BY <2>1, <4>5
    <3> QED BY <1>1, <3>1, <3>2
  <2>3. rank = 0 => Len(pending') <= 1
    <3> SUFFICES ASSUME rank = 0 PROVE K = 0
      BY <1>8
    <3>1. Executed = 4 * runs
      BY <1>2 DEF TransferInv, SourcesHeld
    <3>2. \A q \in 1..runs : <<"host_copy_done", q>> \in recorded
      <4>1. \A q \in 1..runs : 4 * q <= Executed + 1
        BY <1>1, <3>1
      <4> QED BY <4>1 DEF TransferInv, Events
    <3>3. m < Len(pending) => pending[m + 1] \in 1..runs
      <4>1. m < Len(pending) => m + 1 \in 1..Len(pending)
        BY <1>7 DEF m
      <4>2. pending \in Seq(1..runs)
        BY <1>7
      <4>3. ASSUME NEW i \in 1..Len(pending) PROVE pending[i] \in 1..runs
        BY <4>2, ElementOfSeq, Zenon
      <4> HIDE DEF m
      <4> QED BY <4>1, <4>3
    <3> QED BY <1>7, <3>2, <3>3 DEF m
  <2> QED BY <1>2, <1>5, <1>8, <2>1, <2>2, <2>3 DEF SourcesHeld
<1> QED BY <1>9, <1>10, <1>11, <1>12, <1>13, <1>14 DEF TransferInv

(* The kernels of a run are queued behind the wait for its slots.          *)
LEMMA LaunchKeeps ==
    ASSUME TransferInv, Launch
    PROVE  TransferInv'
<1> DEFINE C == Len(compute)
           D == C + Layers
<1>1. /\ Types /\ C \in Nat /\ Layers \in Nat \ {0} /\ runs \in Nat \ {0}
      /\ Arrivals \in 0..runs /\ Awaited(runs, C)
  BY ArrivalFacts, TransferAssumption DEF TransferInv, Types, ComputeProgram, Launch
<1>2. /\ pc = "launch" /\ pc' = "sample" /\ rank' = rank /\ runs' = runs
      /\ transfer' = transfer /\ recorded' = recorded /\ capacity' = capacity
      /\ buffer' = buffer /\ pending' = pending /\ held' = held
  BY DEF Launch
<1>3. /\ compute' \in Seq(Op) /\ Len(compute') = D
      /\ \A i \in 1..C : compute'[i] = compute[i]
      /\ \A i \in C + 1..D : compute'[i] = Kernel(runs)
  <2> DEFINE k == Kernel(runs)
             new == [ l \in 1..Layers |-> k ]
  <2>1. k \in Op /\ compute \in Seq(Op) /\ compute' = compute \o new
    BY <1>1 DEF Kernel, Op, Types, Launch
  <2> HIDE DEF k
  <2>2. new \in Seq(Op) /\ Len(new) = Layers /\ \A l \in 1..Layers : new[l] = k
    BY <1>1, <2>1
  <2> HIDE DEF new
  <2>3. /\ compute \o new \in Seq(Op) /\ Len(compute \o new) = C + Len(new)
        /\ \A i \in 1..C : (compute \o new)[i] = compute[i]
        /\ \A l \in 1..Len(new) : (compute \o new)[C + l] = new[l]
    <3>1. compute \in Seq(Op) /\ new \in Seq(Op)
      BY <2>1, <2>2
    <3> QED BY <3>1
  <2>4. ASSUME NEW i \in C + 1..D PROVE compute'[i] = k
    <3>1. i - C \in 1..Layers /\ C + (i - C) = i
      BY <1>1
    <3> QED BY <2>1, <2>2, <2>3, <3>1
  <2> QED BY <2>1, <2>2, <2>3, <2>4 DEF k
<1>4. Executed' = Executed /\ Arrivals' = Arrivals
  BY <1>2 DEF Executed, Arrivals
<1>5. Types' /\ TransferProgram' /\ Events'
  BY <1>2, <1>3, <1>4 DEF TransferInv, Types, TransferProgram, Events
<1>6. \A i \in 1..D : i \in 1..C \/ i \in C + 1..D
  BY <1>1
<1>7. \A i \in C + 1..D : compute'[i].run = runs /\ compute'[i].op = "kernel"
  <2>1. Kernel(runs).run = runs /\ Kernel(runs).op = "kernel"
    BY DEF Kernel
  <2> QED BY <1>3, <2>1
<1>8. ComputeProgram'
  <2>1. ASSUME NEW i \in 1..D
        PROVE  /\ compute'[i].run \in 1..runs
               /\ compute'[i].op = "record" => compute'[i].event = "reuse_ready"
    <3>1. CASE i \in 1..C
      BY <1>3, <3>1 DEF TransferInv, ComputeProgram
    <3>2. CASE i \in C + 1..D
      BY <1>1, <1>7, <3>2
    <3> QED BY <1>6, <3>1, <3>2
  <2>2. ASSUME NEW i \in 1..D, NEW j \in i..D
        PROVE  compute'[i].run <= compute'[j].run
    <3>1. CASE j \in 1..C
      <4>1. i \in 1..C /\ j \in i..C
        BY <1>1, <3>1
      <4> QED BY <1>3, <3>1, <4>1 DEF TransferInv, ComputeProgram
    <3>2. CASE j \in C + 1..D
      BY <1>1, <1>7, <2>1, <3>2
    <3>3. j \in 1..D
      BY <1>1
    <3> QED BY <1>6, <3>1, <3>2, <3>3
  <2>3. ASSUME NEW i \in 1..D, NEW s \in 1..runs, compute'[i].run < s
        PROVE  <<"reuse_ready", s>> \notin recorded
    <3>1. i \in 1..C
      BY <1>1, <1>6, <1>7, <2>3
    <3> QED BY <1>3, <2>3, <3>1 DEF TransferInv, ComputeProgram
  <2>4. ASSUME NEW i \in 1..D, compute'[i].op = "kernel"
        PROVE  Awaited(compute[i].run, i - 1)'
    <3>1. CASE i \in 1..C
      <4>1. Awaited(compute[i].run, i - 1)
        BY <1>3, <2>4, <3>1 DEF TransferInv, ComputeProgram
      <4>2. \A j \in 1..i - 1 : compute'[j] = compute[j]
        BY <1>1, <1>3, <3>1
      <4> QED BY <1>2, <1>3, <3>1, <4>1, <4>2 DEF Awaited
    <3>2. CASE i \in C + 1..D
      <4>1. \A j \in 1..C : j \in 1..i - 1 /\ compute'[j] = compute[j]
        BY <1>1, <1>3, <3>2
      <4> QED BY <1>1, <1>2, <1>7, <3>2, <4>1 DEF Awaited
    <3> QED BY <1>6, <3>1, <3>2
  <2>5. Awaited(runs, Len(compute))' /\ runs' > 0
    <3>1. \A j \in 1..C : j \in 1..D /\ compute'[j] = compute[j]
      BY <1>1, <1>3
    <3>2. runs' > 0
      BY <1>1, <1>2
    <3> QED BY <1>1, <1>2, <1>3, <3>1, <3>2 DEF Awaited
  <2> QED BY <1>2, <1>3, <2>1, <2>2, <2>3, <2>4, <2>5 DEF ComputeProgram
<1>9. BufferCurrent'
  <2>1. CASE buffer = Arrivals
    BY <1>2, <1>4, <2>1 DEF BufferCurrent
  <2>2. CASE buffer # Arrivals
    <3>1. buffer = 0 /\ Arrivals < runs /\ \A i \in 1..C : compute[i].run > Arrivals
      BY <2>2 DEF TransferInv, BufferCurrent
    <3>2. \A i \in 1..D : compute'[i].run > Arrivals
      BY <1>1, <1>3, <1>6, <1>7, <3>1
    <3> QED BY <1>2, <1>3, <1>4, <3>1, <3>2 DEF BufferCurrent
  <2> QED BY <2>1, <2>2
<1>10. SourcesHeld'
  BY <1>2, <1>4 DEF TransferInv, SourcesHeld
<1> QED BY <1>5, <1>8, <1>9, <1>10 DEF TransferInv

(* Rank 0 has waited for the kernels, and they for the slots: its transfer *)
(* stream is empty between runs.                                           *)
LEMMA EndRunKeeps ==
    ASSUME TransferInv, EndRun
    PROVE  TransferInv'
<1>1. /\ pc = "sample" /\ pc' = "idle" /\ rank' = rank /\ runs' = runs /\ compute' = compute
      /\ transfer' = transfer /\ recorded' = recorded /\ capacity' = capacity
      /\ buffer' = buffer /\ pending' = pending /\ held' = held
  BY DEF EndRun, device
<1>2. Executed' = Executed /\ Arrivals' = Arrivals
  BY <1>1 DEF Executed, Arrivals
<1>3. Types' /\ TransferProgram' /\ Events' /\ ComputeProgram' /\ BufferCurrent'
  BY <1>1, <1>2
  DEF TransferInv, Types, TransferProgram, Events, ComputeProgram, Awaited, BufferCurrent
<1>4. rank = 0 => Executed = 4 * runs
  <2> SUFFICES ASSUME rank = 0 PROVE Executed = 4 * runs
    OBVIOUS
  <2>1. Len(compute) = 0 /\ runs \in Nat /\ runs > 0 /\ Awaited(runs, Len(compute))
    BY <1>1 DEF EndRun, TransferInv, Types, ComputeProgram
  <2>2. <<"transfer_done", runs>> \in recorded /\ runs \in 1..runs
    BY <2>1 DEF Awaited
  <2>3. 4 * runs <= Executed
    BY <2>2 DEF TransferInv, Events
  <2>4. Executed <= 4 * runs /\ Executed \in Nat
    BY ArrivalFacts DEF TransferInv, Types
  <2> QED BY <2>1, <2>3, <2>4
<1>5. SourcesHeld'
  BY <1>1, <1>2, <1>4 DEF TransferInv, SourcesHeld
<1> QED BY <1>3, <1>5 DEF TransferInv

(* The cache lets go of the pinned memory when nothing is left to copy.    *)
LEMMA DestroyKeeps ==
    ASSUME TransferInv, Destroy
    PROVE  TransferInv'
<1>1. /\ pc' = "closed" /\ rank' = rank /\ runs' = runs /\ compute' = compute
      /\ transfer' = transfer /\ recorded' = recorded /\ capacity' = capacity
      /\ buffer' = buffer /\ pending' = << >> /\ held' = {} /\ transfer = << >>
  BY DEF Destroy, device
<1>2. Executed' = Executed /\ Arrivals' = Arrivals
  BY <1>1 DEF Executed, Arrivals
<1>3. Types' /\ TransferProgram' /\ Events' /\ ComputeProgram' /\ BufferCurrent'
  BY <1>1, <1>2
  DEF TransferInv, Types, TransferProgram, Events, ComputeProgram, Awaited, BufferCurrent
<1>4. SourcesHeld'
  BY <1>1 DEF SourcesHeld
<1> QED BY <1>3, <1>4 DEF TransferInv

(* The device takes the next operation of the compute stream.              *)
LEMMA ComputeStepKeeps ==
    ASSUME TransferInv, ComputeStep
    PROVE  TransferInv'
<1> DEFINE h == compute[1]
           C == Len(compute)
<1>1. /\ C \in Nat \ {0} /\ 1 \in 1..C /\ Head(compute) = h /\ h \in Op
      /\ compute' \in Seq(Op) /\ Len(compute') = C - 1
      /\ \A i \in 1..C - 1 : compute'[i] = compute[i + 1]
  <2>1. compute \in Seq(Op) /\ compute # << >> /\ compute' = Tail(compute)
    BY DEF TransferInv, Types, ComputeStep
  <2>2. C \in Nat \ {0} => 1 \in 1..C
    OBVIOUS
  <2> QED BY <2>1, <2>2, HeadTaken
<1>2. /\ rank' = rank /\ runs' = runs /\ pc' = pc /\ transfer' = transfer
      /\ capacity' = capacity /\ buffer' = buffer /\ pending' = pending /\ held' = held
      /\ h.op = "wait" => <<h.event, h.run>> \in recorded
      /\ recorded' = IF h.op = "record" THEN recorded \cup {<<h.event, h.run>>} ELSE recorded
  BY <1>1 DEF ComputeStep, Ready, Reached
<1>3. h.run \in 1..runs /\ (h.op = "record" => h.event = "reuse_ready")
  BY <1>1 DEF TransferInv, ComputeProgram
<1>4. /\ recorded' \subseteq recorded \cup {<<"reuse_ready", h.run>>}
      /\ recorded \subseteq recorded'
  BY <1>2, <1>3
<1>5. Executed' = Executed /\ Arrivals' = Arrivals
  BY <1>2 DEF Executed, Arrivals
<1>6. Types'
  <2>1. <<"reuse_ready", h.run>>
           \in {"reuse_ready", "host_copy_done", "transfer_done"} \X (1..runs)
    BY <1>3
  <2> QED BY <1>1, <1>2, <1>4, <1>5, <2>1 DEF TransferInv, Types
<1>7. TransferProgram'
  BY <1>2, <1>5 DEF TransferInv, TransferProgram
<1>8. Events'
  <2> SUFFICES ASSUME NEW r \in 1..runs
               PROVE  /\ <<"host_copy_done", r>> \in recorded' <=> 4 * r <= Executed + 1
                      /\ <<"transfer_done", r>> \in recorded' <=> 4 * r <= Executed
                      /\ 4 * r <= Executed + 3 => <<"reuse_ready", r>> \in recorded'
    BY <1>2, <1>5 DEF Events
  <2>1. /\ <<"host_copy_done", r>> \in recorded' <=> <<"host_copy_done", r>> \in recorded
        /\ <<"transfer_done", r>> \in recorded' <=> <<"transfer_done", r>> \in recorded
        /\ <<"reuse_ready", r>> \in recorded => <<"reuse_ready", r>> \in recorded'
    BY <1>4
  <2> QED BY <2>1 DEF TransferInv, Events
<1>9. ASSUME NEW r, NEW n \in 1..C, Awaited(r, n)
      PROVE  Awaited(r, n - 1)'
  <2>1. CASE <<"transfer_done", r>> \in recorded
    BY <1>4, <2>1 DEF Awaited
  <2>2. CASE \E j \in 1..n : compute[j] = Wait("transfer_done", r)
    <3>1. PICK j \in 1..n : compute[j] = Wait("transfer_done", r)
      BY <2>2
    <3>2. CASE j = 1
      <4>1. h.op = "wait" /\ h.event = "transfer_done" /\ h.run = r
        BY <3>1, <3>2 DEF Wait
      <4>2. <<"transfer_done", r>> \in recorded'
        BY <1>2, <1>4, <4>1
      <4> QED BY <4>2 DEF Awaited
    <3>3. CASE j # 1
      <4>1. j - 1 \in 1..C - 1 /\ j - 1 \in 1..n - 1 /\ (j - 1) + 1 = j
        BY <1>1, <3>3
      <4>2. compute'[j - 1] = Wait("transfer_done", r)
        BY <1>1, <3>1, <4>1
      <4> QED BY <4>1, <4>2 DEF Awaited
    <3> QED BY <3>2, <3>3
  <2> QED BY <1>9, <2>1, <2>2 DEF Awaited
<1>10. ComputeProgram'
  <2>1. ASSUME NEW i \in 1..C - 1
        PROVE  /\ i + 1 \in 1..C /\ compute'[i] = compute[i + 1]
               /\ compute'[i].run \in 1..runs /\ h.run <= compute'[i].run
               /\ compute'[i].op = "record" => compute'[i].event = "reuse_ready"
    <3>1. i + 1 \in 1..C /\ compute'[i] = compute[i + 1]
      BY <1>1
    <3> QED BY <1>1, <3>1 DEF TransferInv, ComputeProgram
  <2>2. ASSUME NEW i \in 1..C - 1, NEW j \in i..C - 1
        PROVE  compute'[i].run <= compute'[j].run
    <3>1. j \in 1..C - 1 /\ j + 1 \in i + 1..C
      BY <1>1
    <3> QED BY <2>1, <3>1 DEF TransferInv, ComputeProgram
  <2>3. ASSUME NEW i \in 1..C - 1, NEW s \in 1..runs, compute'[i].run < s
        PROVE  <<"reuse_ready", s>> \notin recorded'
    <3>1. <<"reuse_ready", s>> \notin recorded
      BY <2>1, <2>3 DEF TransferInv, ComputeProgram
    <3>2. s # h.run
      BY <1>3, <2>1, <2>3
    <3> QED BY <1>4, <3>1, <3>2
  <2>4. ASSUME NEW i \in 1..C - 1, compute'[i].op = "kernel"
        PROVE  Awaited(compute[i].run, i - 1)'
    <3>1. Awaited(compute[i + 1].run, (i + 1) - 1)
      BY <2>1, <2>4 DEF TransferInv, ComputeProgram
    <3>2. (i + 1) - 1 = i /\ i \in 1..C
      BY <1>1
    <3> QED BY <1>9, <2>1, <3>1, <3>2 DEF Awaited
  <2>5. pc' \in {"launch", "sample"} => Awaited(runs, Len(compute))' /\ runs' > 0
    <3>1. C \in 1..C
      BY <1>1
    <3>2. pc \in {"launch", "sample"} => Awaited(runs, C) /\ runs > 0
      BY DEF TransferInv, ComputeProgram
    <3> QED BY <1>1, <1>2, <1>9, <3>1, <3>2 DEF Awaited
  <2> QED BY <1>1, <1>2, <2>1, <2>2, <2>3, <2>4, <2>5 DEF ComputeProgram
<1>11. BufferCurrent'
  <2>1. CASE buffer = Arrivals
    BY <1>2, <1>5, <2>1 DEF BufferCurrent
  <2>2. CASE buffer # Arrivals
    <3>1. buffer = 0 /\ Arrivals < runs /\ \A i \in 1..C : compute[i].run > Arrivals
      BY <2>2 DEF TransferInv, BufferCurrent
    <3>2. \A i \in 1..C - 1 : compute'[i].run > Arrivals
      <4>1. \A i \in 1..C - 1 : i + 1 \in 1..C
        BY <1>1
      <4> QED BY <1>1, <3>1, <4>1
    <3> QED BY <1>1, <1>2, <1>5, <3>1, <3>2 DEF BufferCurrent
  <2> QED BY <2>1, <2>2
<1>12. SourcesHeld'
  BY <1>2, <1>5 DEF TransferInv, SourcesHeld
<1> QED BY <1>6, <1>7, <1>8, <1>10, <1>11, <1>12 DEF TransferInv

(* The device takes the next operation of the transfer stream: the k-th of *)
(* run q.                                                                  *)
LEMMA TransferStepKeeps ==
    ASSUME TransferInv, TransferStep
    PROVE  TransferInv'
<1> DEFINE h == transfer[1]
           T == Len(transfer)
<1>1. /\ T \in Nat \ {0} /\ 1 \in 1..T /\ Head(transfer) = h
      /\ transfer' \in Seq(Op) /\ Len(transfer') = T - 1
      /\ \A i \in 1..T - 1 : transfer'[i] = transfer[i + 1]
  <2>1. transfer \in Seq(Op) /\ transfer # << >> /\ transfer' = Tail(transfer)
    BY DEF TransferInv, Types, TransferStep
  <2>2. T \in Nat \ {0} => 1 \in 1..T
    OBVIOUS
  <2> QED BY <2>1, <2>2, HeadTaken
<1>2. /\ rank' = rank /\ runs' = runs /\ pc' = pc /\ compute' = compute
      /\ capacity' = capacity /\ pending' = pending /\ held' = held
      /\ h.op = "wait" => <<h.event, h.run>> \in recorded
      /\ recorded' = IF h.op = "record" THEN recorded \cup {<<h.event, h.run>>} ELSE recorded
      /\ buffer' = IF h.op = "copy" THEN h.run ELSE buffer
  BY <1>1 DEF TransferStep, Ready, Reached
<1>3. /\ Types /\ runs \in Nat /\ Executed \in Nat /\ Executed = 4 * runs - T
      /\ Arrivals \in 0..runs
      /\ 4 * Arrivals <= Executed + 2 /\ Executed + 2 < 4 * Arrivals + 4
  BY ArrivalFacts DEF TransferInv, Types, Executed
<1>4. Executed' = Executed + 1
  <2>1. Executed' = 4 * runs - (T - 1)
    BY <1>1, <1>2 DEF Executed
  <2> QED BY <1>1, <1>3, <2>1
<1>5. PICK q \in 1..runs, k \in 1..4 : h = TransferOps(q)[k] /\ 4 * q + k = Executed + 5
  <2>1. PICK q \in 1..runs, k \in 1..4 :
               h = TransferOps(q)[k] /\ 4 * q + k = Executed + 1 + 4
    BY <1>1 DEF TransferInv, TransferProgram
  <2>2. 4 * q + k = Executed + 5
    BY <1>3, <2>1
  <2> QED BY <2>1, <2>2
<1> DEFINE Next1 == /\ k = 1 /\ <<"reuse_ready", q>> \in recorded
                    /\ recorded' = recorded /\ buffer' = buffer
           Next2 == k = 2 /\ recorded' = recorded /\ buffer' = q
           Next3 == k = 3 /\ recorded' = recorded \cup {<<"host_copy_done", q>>} /\ buffer' = buffer
           Next4 == k = 4 /\ recorded' = recorded \cup {<<"transfer_done", q>>} /\ buffer' = buffer
<1>6. Next1 \/ Next2 \/ Next3 \/ Next4
  <2>1. k = 1 \/ k = 2 \/ k = 3 \/ k = 4
    OBVIOUS
  <2>2. q \in Nat
    BY <1>3
  <2>3. CASE k = 1
    <3>1. h = Wait("reuse_ready", q)
      BY <1>5, <2>2, <2>3, OpsFacts
    <3> QED BY <1>2, <2>3, <3>1 DEF Wait
  <2>4. CASE k = 2
    <3>1. h = Copy(q)
      BY <1>5, <2>2, <2>4, OpsFacts
    <3>2. Copy(q).op = "copy" /\ Copy(q).run = q
      BY DEF Copy
    <3> QED BY <1>2, <2>4, <3>1, <3>2
  <2>5. CASE k = 3
    <3>1. h = Record("host_copy_done", q)
      BY <1>5, <2>2, <2>5, OpsFacts
    <3> QED BY <1>2, <2>5, <3>1 DEF Record
  <2>6. CASE k = 4
    <3>1. h = Record("transfer_done", q)
      BY <1>5, <2>2, <2>6, OpsFacts
    <3> QED BY <1>2, <2>6, <3>1 DEF Record
  <2> QED BY <2>1, <2>3, <2>4, <2>5, <2>6
<1>7. Arrivals' = IF k = 2 THEN q ELSE Arrivals
  <2>1. Arrivals' = (Executed + 3) \div 4
    <3>1. Arrivals' = (Executed' + 2) \div 4
      BY DEF Arrivals
    <3>2. Executed' + 2 = Executed + 3
      BY <1>3, <1>4
    <3> QED BY <3>1, <3>2
  <2>2. Arrivals = (Executed + 2) \div 4
    BY DEF Arrivals
  <2>3. Executed = 4 * q + k - 5 /\ q \in Nat \ {0}
    BY <1>3, <1>5
  <2> QED BY <1>3, <2>1, <2>2, <2>3
<1>8. /\ recorded \subseteq recorded'
      /\ \A r : <<"reuse_ready", r>> \in recorded' <=> <<"reuse_ready", r>> \in recorded
  BY <1>6
<1>9. Types'
  <2>1. recorded' \subseteq {"reuse_ready", "host_copy_done", "transfer_done"} \X (1..runs')
    BY <1>2, <1>3, <1>6 DEF Types
  <2> QED BY <1>1, <1>2, <1>3, <1>4, <2>1 DEF Types
<1>10. TransferProgram'
  <2> SUFFICES ASSUME NEW i \in 1..T - 1
               PROVE  \E r \in 1..runs, l \in 1..4 :
                         transfer'[i] = TransferOps(r)[l] /\ 4 * r + l = Executed' + i + 4
    BY <1>1, <1>2 DEF TransferProgram
  <2>1. i + 1 \in 1..T /\ transfer'[i] = transfer[i + 1]
    BY <1>1
  <2>2. PICK r \in 1..runs, l \in 1..4 :
               transfer[i + 1] = TransferOps(r)[l] /\ 4 * r + l = Executed + (i + 1) + 4
    BY <2>1 DEF TransferInv, TransferProgram
  <2>3. Executed + (i + 1) + 4 = Executed' + i + 4
    BY <1>3, <1>4
  <2> QED BY <2>1, <2>2, <2>3
<1>11. Events'
  <2> SUFFICES ASSUME NEW r \in 1..runs
               PROVE  /\ <<"host_copy_done", r>> \in recorded' <=> 4 * r <= Executed + 2
                      /\ <<"transfer_done", r>> \in recorded' <=> 4 * r <= Executed + 1
                      /\ 4 * r <= Executed + 4 => <<"reuse_ready", r>> \in recorded'
    <3>1. Executed' + 1 = Executed + 2 /\ Executed' + 3 = Executed + 4
      BY <1>3, <1>4
    <3> QED BY <1>2, <1>4, <3>1 DEF Events
  <2>1. /\ <<"host_copy_done", r>> \in recorded <=> 4 * r <= Executed + 1
        /\ <<"transfer_done", r>> \in recorded <=> 4 * r <= Executed
        /\ 4 * r <= Executed + 3 => <<"reuse_ready", r>> \in recorded
    BY DEF TransferInv, Events
  <2>2. r \in Nat /\ q \in Nat /\ k \in Nat /\ 4 * q + k = Executed + 5
    BY <1>3, <1>5
  <2>3. CASE Next1
    <3>1. Executed = 4 * q - 4
      BY <1>3, <2>2, <2>3
    <3>2. 4 * r <= Executed + 4 => r = q \/ 4 * r <= Executed + 3
      BY <2>2, <3>1
    <3>3. (4 * r <= Executed + 2 <=> 4 * r <= Executed + 1)
          /\ (4 * r <= Executed + 1 <=> 4 * r <= Executed)
      BY <2>2, <3>1
    <3> QED BY <2>1, <2>3, <3>2, <3>3
  <2>4. CASE Next2
    <3>1. Executed = 4 * q - 3
      BY <1>3, <2>2, <2>4
    <3>2. (4 * r <= Executed + 2 <=> 4 * r <= Executed + 1)
          /\ (4 * r <= Executed + 1 <=> 4 * r <= Executed)
          /\ (4 * r <= Executed + 4 <=> 4 * r <= Executed + 3)
      BY <2>2, <3>1
    <3> QED BY <2>1, <2>4, <3>2
  <2>5. CASE Next3
    <3>1. Executed = 4 * q - 2
      BY <1>3, <2>2, <2>5
    <3>2. (4 * r <= Executed + 2 <=> r = q \/ 4 * r <= Executed + 1)
          /\ (4 * r <= Executed + 1 <=> 4 * r <= Executed)
          /\ (4 * r <= Executed + 4 <=> 4 * r <= Executed + 3)
      BY <2>2, <3>1
    <3> QED BY <2>1, <2>5, <3>2
  <2>6. CASE Next4
    <3>1. Executed = 4 * q - 1
      BY <1>3, <2>2, <2>6
    <3>2. (4 * r <= Executed + 2 <=> 4 * r <= Executed + 1)
          /\ (4 * r <= Executed + 1 <=> r = q \/ 4 * r <= Executed)
          /\ (4 * r <= Executed + 4 <=> 4 * r <= Executed + 3)
      BY <2>2, <3>1
    <3> QED BY <2>1, <2>6, <3>2
  <2> QED BY <1>6, <2>3, <2>4, <2>5, <2>6
<1>12. ComputeProgram'
  <2>1. \A r, n : Awaited(r, n) => Awaited(r, n)'
    BY <1>2, <1>8 DEF Awaited
  <2> QED BY <1>2, <1>8, <2>1 DEF TransferInv, ComputeProgram, Awaited
<1>13. BufferCurrent'
  <2>1. CASE k = 2
    BY <1>6, <1>7, <2>1 DEF BufferCurrent
  <2>2. CASE k # 2
    BY <1>2, <1>6, <1>7, <2>2 DEF TransferInv, BufferCurrent
  <2> QED BY <2>1, <2>2
<1>14. SourcesHeld'
  <2>1. pc # "closed" /\ transfer # << >>
    BY <1>1 DEF TransferInv, SourcesHeld, TransferStep
  <2>2. ~ (rank = 0 /\ pc = "idle")
    BY <1>1, <1>3 DEF TransferInv, SourcesHeld
  <2>3. Arrivals' >= Arrivals
    BY <1>3, <1>5, <1>7
  <2>4. \A r \in 1..runs : r > Arrivals' => r > Arrivals
    BY <1>3, <1>5, <1>7, <2>3
  <2> QED BY <1>2, <2>1, <2>2, <2>4 DEF TransferInv, SourcesHeld
<1> QED BY <1>9, <1>10, <1>11, <1>12, <1>13, <1>14 DEF TransferInv

(* Every step keeps the invariant.                                         *)
LEMMA StepKeeps == TransferInv /\ [Next]_vars => TransferInv'
<1> SUFFICES ASSUME TransferInv, [Next]_vars PROVE TransferInv'
  OBVIOUS
<1>1. CASE UNCHANGED vars
  <2>1. Executed' = Executed /\ Arrivals' = Arrivals
    BY <1>1 DEF vars, device, Executed, Arrivals
  <2> QED BY <1>1, <2>1
    DEF vars, device, TransferInv, Types, TransferProgram, Events, ComputeProgram, Awaited,
        BufferCurrent, SourcesHeld
<1>2. CASE Next
  BY <1>1, <1>2, CopySlotsKeeps, LaunchKeeps, EndRunKeeps, DestroyKeeps, ComputeStepKeeps,
     TransferStepKeeps DEF Next, Gone
<1> QED BY <1>1, <1>2

(* The inductive invariant of the slot transfer holds always.              *)
THEOREM TransferInvariant == Spec => []TransferInv
BY Initially, StepKeeps, PTL DEF Spec

(* A kernel stores through the slots of its own run, whatever the order in *)
(* which the device takes the operations of the two streams and however    *)
(* far ahead of it the host is (copy_slots_async): its slots have arrived, *)
(* since it is behind the wait for them, and no later ones have, since the *)
(* event their copy waits for is recorded behind the kernel.               *)
THEOREM KernelsSafe == Spec => []KernelsReadOwnSlots
<1>1. TransferInv => KernelsReadOwnSlots
  <2> SUFFICES ASSUME TransferInv, compute # << >>, Head(compute).op = "kernel"
               PROVE  buffer = Head(compute).run
    BY DEF KernelsReadOwnSlots
  <2> DEFINE a == Head(compute).run
  <2>1. Head(compute) = compute[1] /\ 1 \in 1..Len(compute)
    BY HeadTaken DEF TransferInv, Types
  <2>2. a \in 1..runs /\ <<"transfer_done", a>> \in recorded
    BY <2>1 DEF TransferInv, ComputeProgram, Awaited
  <2>3. /\ Executed \in Nat /\ Arrivals \in 0..runs /\ runs \in Nat
        /\ 4 * Arrivals <= Executed + 2 /\ Executed + 2 < 4 * Arrivals + 4
    BY ArrivalFacts DEF TransferInv, Types
  <2>4. a <= Arrivals
    <3>1. 4 * a <= Executed
      BY <2>2 DEF TransferInv, Events
    <3> QED BY <2>2, <2>3, <3>1
  <2>5. ~ (a < Arrivals)
    <3> SUFFICES ASSUME a < Arrivals PROVE FALSE
      OBVIOUS
    <3>1. Arrivals \in 1..runs /\ 4 * Arrivals <= Executed + 3
      BY <2>2, <2>3
    <3>2. <<"reuse_ready", Arrivals>> \in recorded
      BY <3>1 DEF TransferInv, Events
    <3> QED BY <2>1, <3>1, <3>2 DEF TransferInv, ComputeProgram
  <2>6. a = Arrivals
    BY <2>2, <2>3, <2>4, <2>5
  <2>7. ~ (a > Arrivals)
    BY <2>2, <2>3, <2>6
  <2> QED BY <2>1, <2>6, <2>7 DEF TransferInv, BufferCurrent
<1> QED BY <1>1, TransferInvariant, PTL

(* The pinned memory of a run is referenced until the device has copied it *)
(* (release_completed_host_copies), and rank 0, which waits for every run, *)
(* keeps that of one run at most.                                          *)
THEOREM SourcesSafe == Spec => []SourcesOutliveCopies
<1>1. TransferInv => SourcesOutliveCopies
  <2> SUFFICES ASSUME TransferInv
               PROVE  SourcesOutliveCopies
    OBVIOUS
  <2>1. /\ Executed \in Nat /\ Arrivals \in 0..runs /\ runs \in Nat
        /\ 4 * Arrivals <= Executed + 2
    BY ArrivalFacts DEF TransferInv, Types
  <2>2. ASSUME NEW i \in 1..Len(transfer), transfer[i].op = "copy"
        PROVE  transfer[i].run \in held
    <3>1. PICK q \in 1..runs, k \in 1..4 :
                 transfer[i] = TransferOps(q)[k] /\ 4 * q + k = Executed + i + 4
      BY DEF TransferInv, TransferProgram
    <3>2. k = 2 /\ transfer[i].run = q
      BY <2>1, <2>2, <3>1, OpsFacts
    <3>3. q > Arrivals
      BY <2>1, <3>1, <3>2
    <3>4. pc # "closed"
      BY DEF TransferInv, SourcesHeld
    <3> QED BY <3>2, <3>3, <3>4 DEF TransferInv, SourcesHeld
  <2>3. DOMAIN transfer = 1..Len(transfer)
    BY DEF TransferInv, Types
  <2> QED BY <2>2, <2>3 DEF SourcesOutliveCopies, TransferInv, SourcesHeld
<1> QED BY <1>1, TransferInvariant, PTL
=============================================================================
