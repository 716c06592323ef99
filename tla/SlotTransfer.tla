---------------------------- MODULE SlotTransfer ----------------------------
(***************************************************************************)
(* How the slot mapping of a run gets to the GPU with the CUDA backend     *)
(* (copy_slots_async in csrc/paged_kv/paged_kv.cpp): from pinned memory,   *)
(* on a stream of its own, into one buffer that every run reuses.  Two     *)
(* events keep the streams apart, a third tells when the pinned memory may *)
(* go.  Rank 0 waits for the sampled tokens of each run; the other ranks   *)
(* go on to the next run while the kernels of the last are still queued.   *)
(*                                                                         *)
(* The streams are FIFO queues of operations that the device takes one by  *)
(* one; the operation at the head of the compute stream is running.  An    *)
(* event is known by the run that has recorded it.                         *)
(***************************************************************************)
EXTENDS Integers, Sequences

CONSTANTS
    MaxRuns,    (* bound on the number of runs                              *)
    Size,       (* the lengths of their slot mappings                       *)
    Layers      (* how many kernels of a run read the slots                 *)

ASSUME TransferAssumption ==
    MaxRuns \in Nat /\ Size \subseteq Nat \ {0} /\ Layers \in Nat \ {0}

VARIABLES
    rank,       (* the rank: 0 or another                                   *)
    runs,       (* the runs started so far                                  *)
    pc,         (* where the host is: between runs, or in one, or closed    *)
    compute,    (* the current stream                                       *)
    transfer,   (* transfer_stream_                                         *)
    recorded,   (* <<event, run>>: records the device has reached           *)
    capacity,   (* slot_capacity_                                           *)
    buffer,     (* the run whose slots slot_buffer_ holds                   *)
    pending,    (* pending_host_copies_, by run                             *)
    held        (* the runs whose pinned slots are still referenced         *)

device == <<compute, transfer, recorded, buffer>>
vars   == <<rank, runs, pc, device, capacity, pending, held>>

Init ==
    /\ rank \in {0, 1}
    /\ runs = 0 /\ pc = "idle"
    /\ compute = << >> /\ transfer = << >> /\ recorded = {}
    /\ capacity = 0 /\ buffer = 0
    /\ pending = << >> /\ held = {}

-----------------------------------------------------------------------------
(* The host.                                                               *)

(* release_completed_host_copies: from the front, up to the first copy     *)
(* that is not known to be done.                                           *)
Completed(q) == \A i \in DOMAIN q : <<"host_copy_done", q[i]>> \in recorded
BugReleased  == Len(pending)
Released     ==
    CHOOSE n \in 0..Len(pending) :
        /\ Completed(SubSeq(pending, 1, n))
        /\ n < Len(pending) => ~ Completed(<<pending[n + 1]>>)

(* cudaEventRecord and cudaStreamWaitEvent only queue their operation.     *)
Record(event, r) == [op |-> "record", event |-> event, run |-> r]
Wait(event, r)   == [op |-> "wait", event |-> event, run |-> r]
Copy(r)          == [op |-> "copy", event |-> "", run |-> r]
Kernel(r)        == [op |-> "kernel", event |-> "", run |-> r]

BugTransferOps(r) ==
    <<Copy(r), Record("host_copy_done", r), Record("transfer_done", r)>>
TransferOps(r) ==
    <<Wait("reuse_ready", r), Copy(r), Record("host_copy_done", r), Record("transfer_done", r)>>
ComputeOps(r) == <<Record("reuse_ready", r), Wait("transfer_done", r)>>

(* Replacing the buffer by a larger one frees the old one, and cudaFree    *)
(* (external) waits until the device has nothing left to do.               *)
Grows(n)   == capacity < n
DeviceIdle == compute = << >> /\ transfer = << >>

(* copy_slot_mapping_to_device and copy_slots_async.                       *)
CopySlots(n) ==
    LET r == runs + 1 IN
    /\ pc = "idle" /\ runs < MaxRuns
    /\ Grows(n) /\ capacity > 0 => DeviceIdle
    /\ runs'     = r
    /\ capacity' = IF Grows(n) THEN n ELSE capacity
    /\ buffer'   = IF Grows(n) THEN 0 ELSE buffer
    /\ pending'  = Append(SubSeq(pending, Released + 1, Len(pending)), r)
    /\ held'     = { pending'[i] : i \in DOMAIN pending' }
    /\ transfer' = transfer \o TransferOps(r)
    /\ compute'  = compute \o ComputeOps(r)
    /\ pc' = "launch"
    /\ UNCHANGED <<rank, recorded>>

(* run_model: every layer stores through the slots.                        *)
Launch ==
    /\ pc = "launch"
    /\ compute' = compute \o [ l \in 1..Layers |-> Kernel(runs) ]
    /\ pc' = "sample"
    /\ UNCHANGED <<rank, runs, transfer, recorded, capacity, buffer, pending, held>>

(* The rest of run(): only rank 0 reads the result, which waits for it.    *)
EndRun ==
    /\ pc = "sample"
    /\ rank = 0 => compute = << >>
    /\ pc' = "idle"
    /\ UNCHANGED <<rank, runs, device, capacity, pending, held>>

(* ~PagedKVCache synchronises the transfer stream, then lets go.           *)
Destroy ==
    /\ pc = "idle" /\ transfer = << >>
    /\ pending' = << >> /\ held' = {}
    /\ pc' = "closed"
    /\ UNCHANGED <<rank, runs, device, capacity>>

-----------------------------------------------------------------------------
(* The device.                                                             *)

Ready(op) == op.op = "wait" => <<op.event, op.run>> \in recorded

Reached(op) ==
    recorded' = IF op.op = "record" THEN recorded \cup {<<op.event, op.run>>} ELSE recorded

ComputeStep ==
    /\ compute # << >> /\ Ready(Head(compute))
    /\ compute' = Tail(compute)
    /\ Reached(Head(compute))
    /\ UNCHANGED <<rank, runs, pc, transfer, capacity, buffer, pending, held>>

TransferStep ==
    /\ transfer # << >> /\ Ready(Head(transfer))
    /\ transfer' = Tail(transfer)
    /\ Reached(Head(transfer))
    /\ buffer' = IF Head(transfer).op = "copy" THEN Head(transfer).run ELSE buffer
    /\ UNCHANGED <<rank, runs, pc, compute, capacity, pending, held>>

(* Nothing is left to do; a stream waiting for an event that never comes   *)
(* would be a deadlock.                                                    *)
Gone == pc = "closed" /\ DeviceIdle /\ UNCHANGED vars

Next ==
    \/ \E n \in Size : CopySlots(n)
    \/ Launch
    \/ EndRun
    \/ Destroy
    \/ ComputeStep
    \/ TransferStep
    \/ Gone

Spec == Init /\ [][Next]_vars

-----------------------------------------------------------------------------
(* A kernel stores through the slots of its own run: they have arrived     *)
(* before it starts, and the next run's do not arrive before it has ended, *)
(* however far ahead the host is.                                          *)
KernelsReadOwnSlots ==
    compute # << >> /\ Head(compute).op = "kernel" => buffer = Head(compute).run

(* The pinned memory of a slot mapping is kept until it has been copied;   *)
(* on rank 0, which waits for every run, no more than one is kept.         *)
SourcesOutliveCopies ==
    /\ \A i \in DOMAIN transfer : transfer[i].op = "copy" => transfer[i].run \in held
    /\ rank = 0 => Len(pending) <= 1
=============================================================================
