--------------------------- MODULE RankBroadcast ---------------------------
(***************************************************************************)
(* How rank 0 makes the other tensor-parallel ranks execute its calls      *)
(* (engine/model_runner.py, engine/executor.py).  There is one shared      *)
(* buffer, a length and a payload, and one event per rank; nothing tells   *)
(* rank 0 that a call has been read.  What keeps the next call from        *)
(* overwriting it is that executing a collective call -- a model run, the  *)
(* barrier of exit -- needs every rank to take part.  No rank needs the    *)
(* others to release images, which rank 0 makes them do whenever a request *)
(* ends.                                                                   *)
(*                                                                         *)
(* The ranks have passed the barrier that follows the creation of the      *)
(* buffer.  Calls are numbered in the order rank 0 makes them.             *)
(***************************************************************************)
EXTENDS Integers, Sequences

CONSTANTS
    Rank,         (* the ranks other than 0                                 *)
    Method,       (* the methods called before "exit"                       *)
    Collective,   (* those of them that need every rank: "run"              *)
    MaxCalls      (* bound on the number of calls, exit included            *)

ASSUME RankAssumption ==
    Rank # {} /\ Collective \subseteq Method /\ MaxCalls \in Nat \ {0}

VARIABLES
    pc,           (* where rank 0 is: in call, in shutdown                  *)
    calls,        (* history: the methods called so far                     *)
    toSet,        (* the events write_shm has still to set                  *)
    length,       (* shm.buf[0:4], and                                      *)
    payload,      (* the rest of it: the call they belong to                *)
    event,        (* the ranks whose event is set                           *)
    at,           (* where each rank is in its loop                         *)
    size,         (* the length it has read                                 *)
    got,          (* the call it has read                                   *)
    executed,     (* the last call it has executed                          *)
    overrun       (* history: the first call that rank 0 began to write     *)
                  (* over before every rank had read it, 0 if none          *)

driver == <<pc, calls, toSet>>
buffer == <<length, payload>>
loops  == <<at, size, got, executed>>
vars   == <<driver, buffer, event, loops, overrun>>

Current     == Len(calls)
IsExit(n)   == calls[n] = "exit"
NeedsAll(n) == IsExit(n) \/ calls[n] \in Collective
Garbage     == 0

Init ==
    /\ pc = "idle" /\ calls = << >> /\ toSet = {}
    /\ length = 0 /\ payload = 0 /\ event = {}
    /\ at = [ r \in Rank |-> "wait" ]
    /\ size = [ r \in Rank |-> 0 ] /\ got = [ r \in Rank |-> Garbage ]
    /\ executed = [ r \in Rank |-> 0 ]
    /\ overrun = 0

(***************************************************************************)
(* Rank 0.                                                                 *)
(***************************************************************************)

Call(m) ==
    /\ pc = "idle"
    /\ IF m = "exit" THEN TRUE ELSE Current + 1 < MaxCalls
    /\ calls' = Append(calls, m)
    /\ pc' = "length"
    /\ UNCHANGED <<toSet, buffer, event, loops, overrun>>

WriteLength ==
    /\ pc = "length"
    /\ length' = Current /\ pc' = "payload"
    /\ overrun' = IF overrun = 0 /\ event # {} THEN Current - 1 ELSE overrun
    /\ UNCHANGED <<calls, toSet, payload, event, loops>>

WritePayload ==
    /\ pc = "payload"
    /\ payload' = Current
    /\ toSet' = Rank /\ pc' = "set"
    /\ UNCHANGED <<calls, length, event, loops, overrun>>

(* The events are set one after the other; in which order is no matter.    *)
SetEvent(r) ==
    /\ pc = "set" /\ r \in toSet
    /\ event' = event \cup {r}
    /\ toSet' = toSet \ {r}
    /\ pc' = IF toSet' = {} THEN "local" ELSE pc
    /\ UNCHANGED <<calls, buffer, loops, overrun>>

(* Every rank has at least begun to execute the call.  The calls of the    *)
(* ranks meet by their order, which is their number until one is lost.     *)
BugAllIn(n) == TRUE
AllIn(n) ==
    /\ Current > n \/ pc \in {"local", "idle", "join"}
    /\ \A r \in Rank : executed[r] >= n \/ (at[r] = "execute" /\ got[r] = n)

ExecuteLocal ==
    /\ pc = "local"
    /\ NeedsAll(Current) => AllIn(Current)
    /\ pc' = IF IsExit(Current) THEN "join" ELSE "idle"
    /\ UNCHANGED <<calls, toSet, buffer, event, loops, overrun>>

(* Executor.shutdown: join the processes.                                  *)
Join ==
    /\ pc = "join" /\ \A r \in Rank : at[r] = "left"
    /\ pc' = "down"
    /\ UNCHANGED <<calls, toSet, buffer, event, loops, overrun>>

(***************************************************************************)
(* The loop of another rank.                                               *)
(***************************************************************************)

WaitEvent(r) ==
    /\ at[r] = "wait" /\ r \in event
    /\ at' = [at EXCEPT ![r] = "read"]
    /\ UNCHANGED <<driver, buffer, event, size, got, executed, overrun>>

ReadLength(r) ==
    /\ at[r] = "read"
    /\ size' = [size EXCEPT ![r] = length]
    /\ at' = [at EXCEPT ![r] = "load"]
    /\ UNCHANGED <<driver, buffer, event, got, executed, overrun>>

(* A payload cut at the length of another call may still load, or raise:   *)
(* then the process dies.                                                  *)
LoadPayload(r) ==
    /\ at[r] = "load"
    /\ \E n \in {payload} \cup IF size[r] = payload THEN {} ELSE {Garbage} :
         /\ got' = [got EXCEPT ![r] = n]
         /\ at'  = [at EXCEPT ![r] = IF n = Garbage THEN "dead" ELSE "clear"]
    /\ UNCHANGED <<driver, buffer, event, size, executed, overrun>>

ClearEvent(r) ==
    /\ at[r] = "clear"
    /\ event' = event \ {r}
    /\ at' = [at EXCEPT ![r] = "execute"]
    /\ UNCHANGED <<driver, buffer, size, got, executed, overrun>>

BugExecute(r) ==
    /\ at[r] = "execute"
    /\ NeedsAll(got[r]) => AllIn(got[r])
    /\ executed' = [executed EXCEPT ![r] = got[r]]
    /\ at' = [at EXCEPT ![r] = "wait"]
    /\ UNCHANGED <<driver, buffer, event, size, got, overrun>>
Execute(r) ==
    /\ at[r] = "execute"
    /\ NeedsAll(got[r]) => AllIn(got[r])
    /\ executed' = [executed EXCEPT ![r] = got[r]]
    /\ at' = [at EXCEPT ![r] = IF IsExit(got[r]) THEN "left" ELSE "wait"]
    /\ UNCHANGED <<driver, buffer, event, size, got, overrun>>

(***************************************************************************)
(* The specification.                                                      *)
(***************************************************************************)

Driver  == WriteLength \/ WritePayload \/ (\E r \in Rank : SetEvent(r)) \/ ExecuteLocal \/ Join
Loop(r) == WaitEvent(r) \/ ReadLength(r) \/ LoadPayload(r) \/ ClearEvent(r) \/ Execute(r)

Next ==
    \/ \E m \in Method \cup {"exit"} : Call(m)
    \/ Driver
    \/ \E r \in Rank : Loop(r)

Spec == Init /\ [][Next]_vars

(***************************************************************************)
(* Properties.                                                             *)
(***************************************************************************)

(* The variables have the types of the program; write_shm sets events      *)
(* until every rank has one.                                               *)
TypeOK ==
    /\ pc \in {"idle", "length", "payload", "set", "local", "join", "down"}
    /\ calls \in Seq(Method \cup {"exit"}) /\ Current <= MaxCalls
    /\ toSet \subseteq Rank /\ event \subseteq Rank
    /\ toSet # {} <=> pc = "set"
    /\ {length, payload} \subseteq 0..Current
    /\ at \in [Rank -> {"wait", "read", "load", "clear", "execute", "left", "dead"}]
    /\ size \in [Rank -> 0..MaxCalls]
    /\ got \in [Rank -> 0..MaxCalls] /\ executed \in [Rank -> 0..MaxCalls]
    /\ overrun \in 0..Current

(* "Wake every rank, so that it reads and executes the command": a rank    *)
(* reads the calls one by one, none overwritten, missed, read twice or     *)
(* while it is being written.                                              *)
CallsDelivered ==
    \A r \in Rank :
        /\ at[r] # "dead"
        /\ at[r] \in {"clear", "execute"} => got[r] = executed[r] + 1
        /\ at[r] \in {"read", "load"} => length = executed[r] + 1 /\ payload = length

(* That promise is kept until rank 0 writes over a call that some rank has *)
(* still to read, and the first such call is none that every rank has to   *)
(* join: a run or an exit is never lost before a release has been.         *)
DeliveredUntilOverrun ==
    IF overrun = 0 THEN CallsDelivered ELSE ~ NeedsAll(overrun)

(* Until then a call of rank 0 returns, and a shutdown joins every rank,   *)
(* however late the ranks are with the calls that need not be joined.      *)
CallsReturn == pc # "idle" ~> pc \in {"idle", "down"} \/ overrun # 0
=============================================================================
